------------------------------- MODULE Sampling -------------------------------
(***************************************************************************)
(* What a language-model run of run_experiment reads of its corpus: the    *)
(* 90/5/5 split, the guard on its size, the fixed validation batches drawn *)
(* before training, and the training batches.  A sequence is the place it  *)
(* starts at.  size_t arithmetic wraps at Word.                            *)
(***************************************************************************)
EXTENDS Integers

CONSTANTS
    Lengths,     \* the corpus sizes considered
    SeqLens,     \* the values of --seq-len considered
    Word,        \* 2^w, the range of size_t
    Drawn        \* sequences of the validation set (8 batches of --batch)

ASSUME CorporaFitTheWord ==
    Word \in Nat \ {0} /\ Lengths \cup SeqLens \subseteq 0 .. Word - 1
ASSUME SomethingDrawn == Drawn \in Nat \ {0}

VARIABLES
    phase,   \* "start", "holding" (drawing the validation set), "training",
             \* or "rejected" (exit code 2)
    len,     \* the size of the corpus
    T,       \* --seq-len
    left,    \* validation sequences still to draw
    held,    \* the starts of the validation sequences
    seen,    \* the start of the sequence trained on last
    judged   \* the validation sequences of the last evaluation

vars == <<phase, len, T, left, held, seen, judged>>

\* slice(full, lo, hi), in percent: the bounds are products truncated to whole
\* bytes, for which the code's doubles and these quotients agree.
Slice(lo, hi) == LET a == (len * lo) \div 100
                     b == (len * hi) \div 100 IN [from |-> a, len |-> b - a]
IntoVal == Slice(0, 95)      \* mutant
TrainSpan == Slice(0, 90)
ValSpan == Slice(90, 95)

BytesOf(span) == span.from .. span.from + span.len - 1
Reads(starts) == UNION {s .. s + T - 1 : s \in starts}

\* sample_batch: a start is uniform on 0 .. span.len - T - 1, in size_t.
Starts(span) == {span.from + s : s \in 0 .. (span.len - T - 1) % Word}

\* A corpus this small is turned down before anything is drawn.
TrainOnly == TrainSpan.len = 0    \* mutant
TooSmall == TrainSpan.len <= T + 1 \/ ValSpan.len <= T + 1

Init ==
    /\ phase = "start" /\ len \in Lengths /\ T \in SeqLens
    /\ left = Drawn /\ held = {} /\ seen = {} /\ judged = {}

Reject ==
    /\ phase = "start" /\ TooSmall
    /\ phase' = "rejected"
    /\ UNCHANGED <<len, T, left, held, seen, judged>>

Accept ==
    /\ phase = "start" /\ ~ TooSmall
    /\ phase' = "holding"
    /\ UNCHANGED <<len, T, left, held, seen, judged>>

\* train_batch, with which val_set is filled as well, samples the train span.
HoldOne ==
    /\ phase = "holding" /\ left > 0
    /\ \E s \in Starts(TrainSpan) : held' = held \cup {s}
    /\ left' = left - 1
    /\ phase' = IF left = 1 THEN "training" ELSE "holding"
    /\ UNCHANGED <<len, T, seen, judged>>

TrainOne ==
    /\ phase = "training"
    /\ \E s \in Starts(TrainSpan) : seen' = {s}
    /\ UNCHANGED <<phase, len, T, left, held, judged>>

\* eval_val_bpb goes through the sequences that were drawn once.
EvaluateOn(starts) ==
    /\ phase = "training" /\ judged' = starts
    /\ UNCHANGED <<phase, len, T, left, held, seen>>
EvaluateSeen == EvaluateOn(seen)     \* mutant
Evaluate == EvaluateOn(held)

Next == Reject \/ Accept \/ HoldOne \/ TrainOne \/ Evaluate
Spec == Init /\ [][Next]_vars

-------------------------------------------------------------------------------

\* No sequence, drawn for training or validation, reaches past the corpus: the
\* guard keeps `span.len - T - 1` from wrapping around.
ReadsInside ==
    \A i \in Reads(held \cup seen) : i < len

\* Training never reads a byte of the validation or test slices.
TrainingStaysOut ==
    Reads(seen) \cap (Slice(90, 95).from .. len - 1) = {}

\* All evaluations of a run go over the same sequences, so that the losses
\* that `vbpb < best` compares are losses of one set.
OneYardstick == [][judged /= {} => judged' = judged]_judged

\* The documented meaning of val_bpb: it is measured on the validation slice.
EvaluatesHeldOut == Reads(judged) \subseteq BytesOf(ValSpan)
===============================================================================
