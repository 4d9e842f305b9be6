--------------------------------- MODULE Jobs ---------------------------------
(***************************************************************************)
(* Several run_experiment processes without --ckpt-dir on one machine.     *)
(* They share two files: fallback_best, /tmp/seqbench_best.pt, to which    *)
(* each saves its best weights and from which each restores them at the    *)
(* end, and the results log, to which each appends one line.  A job may be *)
(* killed anywhere; others start and end while it runs, or never meet it.  *)
(***************************************************************************)
EXTENDS Integers, Sequences, FiniteSets

CONSTANTS
    JobIds,    \* the processes
    Arch,      \* Arch[j]: the model structure job j trains
    Evals,     \* bound: evaluations in a run (--steps over --eval-every)
    Inf,       \* bound: losses are 0 .. Inf - 1, or Inf for +inf and NaN
    NoFile, Partial, Garbled   \* what fallback_best is besides saved weights

Losses == 0 .. Inf
Weights == [by : JobIds, loss : Losses]

ASSUME JobsAreFinite == IsFiniteSet(JobIds)
ASSUME EvalBound == Evals \in Nat \ {0}
ASSUME LossBound == Inf \in Nat
ASSUME FileKindsDiffer ==
    /\ NoFile /= Partial /\ Partial /= Garbled /\ NoFile /= Garbled
    /\ {NoFile, Partial, Garbled} \cap Weights = {}

VARIABLES
    pc,       \* pc[j]: where job j is
    left,     \* left[j]: evaluations still to come
    best,     \* best[j]: the lowest loss it has seen
    cur,      \* cur[j]: the weights of its model
    file,     \* the content of fallback_best
    crossed,  \* crossed[j]: another job has had the file open during j's save
    log,      \* results.jsonl: who wrote what, and whether the line is whole
    alone     \* ghost: alone[j]: no other job has run since j started

vars == <<pc, left, best, cur, file, crossed, log, alone>>

Ended == {"done", "unrestored", "unlogged", "killed"}
Running(j) == pc[j] \notin Ended \cup {"idle"}
Others(j) == JobIds \ {j}

Init ==
    /\ pc = [j \in JobIds |-> "idle"]
    /\ left = [j \in JobIds |-> Evals]
    /\ best = [j \in JobIds |-> Inf]
    /\ cur = [j \in JobIds |-> [by |-> j, loss |-> Inf]]
    /\ file = NoFile
    /\ crossed = [j \in JobIds |-> FALSE]
    /\ log = << >>
    /\ alone = [j \in JobIds |-> TRUE]

Begin(j) ==
    /\ pc[j] = "idle"
    /\ pc' = [pc EXCEPT ![j] = "train"]
    /\ alone' = [i \in JobIds |-> IF i = j THEN \A k \in Others(j) : ~ Running(k)
                                  ELSE alone[i] /\ ~ Running(i)]
    /\ UNCHANGED <<left, best, cur, file, crossed, log>>

-------------------------------------------------------------------------------
(* Training *)

Improved(loss, b) == loss < b

\* Train up to the next evaluation; an improvement is to be saved.
Evaluate(j) ==
    /\ pc[j] = "train" /\ left[j] > 0
    /\ left' = [left EXCEPT ![j] = @ - 1]
    /\ \E loss \in Losses :
         /\ cur' = [cur EXCEPT ![j] = [by |-> j, loss |-> loss]]
         /\ IF Improved(loss, best[j])
            THEN /\ best' = [best EXCEPT ![j] = loss]
                 /\ pc' = [pc EXCEPT ![j] = "save"]
            ELSE UNCHANGED <<best, pc>>
    /\ UNCHANGED <<file, crossed, log, alone>>

\* torch::save truncates the file when it opens it ...
OpenBest(j) ==
    /\ pc[j] = "save"
    /\ pc' = [pc EXCEPT ![j] = "saving"]
    /\ file' = Partial
    /\ LET writing == {i \in Others(j) : pc[i] = "saving"} IN
       crossed' = [i \in JobIds |->
                     IF i = j THEN writing /= {}
                     ELSE crossed[i] \/ i \in writing]
    /\ UNCHANGED <<left, best, cur, log, alone>>

\* ... and is done with it later; two that cross write into each other.
CloseBest(j) ==
    /\ pc[j] = "saving"
    /\ pc' = [pc EXCEPT ![j] = "train"]
    /\ file' \in {cur[j]} \cup (IF crossed[j] THEN {Garbled} ELSE {})
    /\ UNCHANGED <<left, best, cur, crossed, log, alone>>

-------------------------------------------------------------------------------
(* The end of a run *)

Finished(j) == pc[j] = "train" /\ left[j] = 0

AlwaysLoads(j) == TRUE         \* mutant
NeverLoads(j) == FALSE         \* mutant
HasBest(j) == best[j] < Inf

\* torch::load takes whatever file is there, if it fits the model.
Restore(j) ==
    /\ Finished(j) /\ HasBest(j)
    /\ file \in Weights /\ Arch[file.by] = Arch[j]
    /\ cur' = [cur EXCEPT ![j] = file]
    /\ pc' = [pc EXCEPT ![j] = "report"]
    /\ UNCHANGED <<left, best, file, crossed, log, alone>>

KeepCurrent(j) ==
    /\ Finished(j) /\ ~ HasBest(j)
    /\ pc' = [pc EXCEPT ![j] = "report"]
    /\ UNCHANGED <<left, best, cur, file, crossed, log, alone>>

\* It throws where there is no archive, or none of this structure.
AbortRestore(j) ==
    /\ Finished(j) /\ HasBest(j)
    /\ \/ file \in {NoFile, Partial, Garbled}
       \/ file \in Weights /\ Arch[file.by] /= Arch[j]
    /\ pc' = [pc EXCEPT ![j] = "unrestored"]
    /\ UNCHANGED <<left, best, cur, file, crossed, log, alone>>

Entry(j, whole) == [by |-> j, loss |-> cur[j].loss, whole |-> whole]

\* append_record: the line is shorter than the stdio buffer, so fclose writes
\* it with a single write(2) to a file opened for appending.
AppendRecord(j) ==
    /\ pc[j] = "report"
    /\ log' = Append(log, Entry(j, TRUE))
    /\ pc' = [pc EXCEPT ![j] = "logged"]
    /\ UNCHANGED <<left, best, cur, file, crossed, alone>>

\* The log cannot be opened, or the disk is full and takes part of the line.
AppendFails(j) ==
    /\ pc[j] = "report"
    /\ log' \in {log, Append(log, Entry(j, FALSE))}
    /\ pc' = [pc EXCEPT ![j] = "failing"]
    /\ UNCHANGED <<left, best, cur, file, crossed, alone>>

\* Exit code 0 is returned only after the line is in the log.
Exit(j) ==
    /\ pc[j] = "logged"
    /\ pc' = [pc EXCEPT ![j] = "done"]
    /\ UNCHANGED <<left, best, cur, file, crossed, log, alone>>

\* append_record looks at what fprintf and fclose return, and throws.
OutcomeUnchecked == "done"     \* mutant
OutcomeOfCutLine == "unlogged"
Throw(j) ==
    /\ pc[j] = "failing"
    /\ pc' = [pc EXCEPT ![j] = OutcomeOfCutLine]
    /\ UNCHANGED <<left, best, cur, file, crossed, log, alone>>

Kill(j) ==
    /\ Running(j)
    /\ pc' = [pc EXCEPT ![j] = "killed"]
    /\ UNCHANGED <<left, best, cur, file, crossed, log, alone>>

Step(j) ==
    \/ Evaluate(j) \/ OpenBest(j) \/ CloseBest(j)
    \/ Restore(j) \/ KeepCurrent(j) \/ AbortRestore(j)
    \/ AppendRecord(j) \/ AppendFails(j) \/ Exit(j) \/ Throw(j) \/ Kill(j)

Next == \E j \in JobIds : Begin(j) \/ Step(j)

Spec == Init /\ [][Next]_vars

-------------------------------------------------------------------------------

\* A job that no other job ran beside restores its own best weights, whatever
\* earlier jobs, finished or killed, have left in the file.
AloneRestoresOwn ==
    \A j \in JobIds : alone[j] /\ pc[j] = "report" /\ best[j] < Inf =>
        cur[j] = [by |-> j, loss |-> best[j]]

\* Nor does the restore of such a job fail, whatever an earlier job of another
\* structure, or one killed in the middle of a save, has left.
AloneNeverAborts == \A j \in JobIds : alone[j] => pc[j] /= "unrestored"

\* What is reported was trained by the job that reports it when it never
\* found a loss to save, even if others ran beside it.
NoBestReportsOwn ==
    \A j \in JobIds : pc[j] \in {"report", "logged", "done"} /\ best[j] = Inf =>
        cur[j].by = j

WholeLines(j) == {k \in DOMAIN log : log[k].by = j /\ log[k].whole}

\* Exit code 0 means one whole line in the log.  The converse is not promised:
\* a job may be killed between its line and its end.  But there is no whole line
\* of a job that has ended with an error, or is still to write it, and no two
\* of any.
LoggedIfDone ==
    \A j \in JobIds :
        /\ pc[j] = "done" => WholeLines(j) /= {}
        /\ pc[j] \notin {"logged", "done", "killed"} => WholeLines(j) = {}
        /\ \A k, l \in WholeLines(j) : k = l

\* "Restore best params for the final reported metrics", whether or not other
\* jobs run beside: the jobs of a queue do, others need not.
ReportsOwnBest ==
    \A j \in JobIds : pc[j] = "report" /\ best[j] < Inf =>
        cur[j] = [by |-> j, loss |-> best[j]]

\* The line of job j is one of its own to a reader of lines: it is whole, and
\* what comes before it is not the rest of a cut line, which has no end.
Legible(j) ==
    \E k \in WholeLines(j) : k = 1 \/ log[k - 1].whole

\* What the user is told of: a job that did not end well and has no whole line.
Announced(j) == pc[j] \in {"failing", "unlogged", "killed"} /\ WholeLines(j) = {}

\* A cut line takes the next record with it, that of a job that ended well:
\* there are no more such losses than jobs that failed, or were killed, with no
\* line of their own.
LossesAreAnnounced ==
    Cardinality({j \in JobIds : pc[j] = "done" /\ ~ Legible(j)})
        <= Cardinality({j \in JobIds : Announced(j)})
===============================================================================
