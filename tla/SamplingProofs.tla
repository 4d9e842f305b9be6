---------------------------- MODULE SamplingProofs ----------------------------
(***************************************************************************)
(* Proofs about the corpus split and the sampler, for every corpus size,   *)
(* every --seq-len, every word size and every number of validation draws.  *)
(***************************************************************************)
EXTENDS Sampling, TLAPS

\* The train slice starts the corpus and ends where the validation slice starts.
LEMMA Split ==
    ASSUME len \in Lengths
    PROVE  /\ len \in Nat /\ len < Word
           /\ TrainSpan.from = 0
           /\ TrainSpan.len \in Nat /\ TrainSpan.len <= len
           /\ ValSpan.from = TrainSpan.len
<1>1. len \in Nat /\ len < Word
  BY CorporaFitTheWord
<1>2. (len * 0) \div 100 = 0
  BY <1>1
<1>3. (len * 90) \div 100 \in Nat /\ (len * 90) \div 100 <= len
  BY <1>1
<1>4. TrainSpan = [from |-> 0, len |-> (len * 90) \div 100]
  BY <1>2, <1>3 DEF TrainSpan, Slice
<1>5. ValSpan.from = (len * 90) \div 100
  BY DEF ValSpan, Slice
<1>6. QED
  BY <1>1, <1>3, <1>4, <1>5

\* Behind the guard nothing wraps: a start leaves room for a sequence.
LEMMA StartsFit ==
    ASSUME len \in Lengths, T \in SeqLens, ~ TooSmall,
           NEW s \in Starts(TrainSpan)
    PROVE  s \in Nat /\ s + T < TrainSpan.len
<1>1. T \in Nat /\ Word \in Nat
  BY CorporaFitTheWord
<1>2. TrainSpan.len \in Nat /\ TrainSpan.len < Word /\ TrainSpan.from = 0
  BY Split, <1>1
<1>3. TrainSpan.len - T - 1 \in 0 .. Word - 1
  BY <1>1, <1>2 DEF TooSmall
<1>4. (TrainSpan.len - T - 1) % Word = TrainSpan.len - T - 1
  BY <1>1, <1>3
<1>5. PICK d \in 0 .. TrainSpan.len - T - 1 : s = TrainSpan.from + d
  BY <1>4 DEF Starts
<1>6. QED
  BY <1>1, <1>2, <1>3, <1>5

\* Whatever is drawn was drawn behind the guard and from the train slice, and
\* evaluations begin when the validation set is complete.
Inv ==
    /\ phase \in {"start", "holding", "training", "rejected"}
    /\ len \in Lengths /\ T \in SeqLens
    /\ phase \in {"start", "rejected"} => held \cup seen = {}
    /\ phase \in {"holding", "training"} => ~ TooSmall
    /\ held \cup seen \subseteq Starts(TrainSpan)
    /\ judged /= {} => judged = held /\ phase = "training"

THEOREM InvAlways == Spec => []Inv
<1>1. Init => Inv
  BY DEF Init, Inv
<1>2. Inv /\ [Next]_vars => Inv'
  <2> SUFFICES ASSUME Inv, [Next]_vars PROVE Inv'
    OBVIOUS
  <2> USE DEF Inv
  <2>1. UNCHANGED <<len, T>>
    BY DEF Next, Reject, Accept, HoldOne, TrainOne, Evaluate, EvaluateOn, vars
  <2>2. TooSmall' = TooSmall /\ Starts(TrainSpan)' = Starts(TrainSpan)
    BY <2>1 DEF TooSmall, Starts, TrainSpan, ValSpan, Slice
  <2>3. CASE Reject
    BY <2>2, <2>3 DEF Reject
  <2>4. CASE Accept
    BY <2>2, <2>4 DEF Accept
  <2>5. CASE HoldOne
    <3>1. PICK s \in Starts(TrainSpan) : held' = held \cup {s}
      BY <2>5 DEF HoldOne
    <3>2. QED
      BY <2>2, <2>5, <3>1 DEF HoldOne
  <2>6. CASE TrainOne
    <3>1. PICK s \in Starts(TrainSpan) : seen' = {s}
      BY <2>6 DEF TrainOne
    <3>2. QED
      BY <2>2, <2>6, <3>1 DEF TrainOne
  <2>7. CASE Evaluate
    BY <2>2, <2>7 DEF Evaluate, EvaluateOn
  <2>8. CASE UNCHANGED vars
    BY <2>2, <2>8 DEF vars
  <2>9. QED
    BY <2>3, <2>4, <2>5, <2>6, <2>7, <2>8 DEF Next
<1>3. QED
  BY <1>1, <1>2, PTL DEF Spec

\* No batch reads past the end of the corpus: `span.len - T - 1` in sample_batch
\* cannot wrap behind run_experiment's guard.
THEOREM ReadsInsideAlways == Spec => []ReadsInside
<1>1. Inv => ReadsInside
  <2> SUFFICES ASSUME Inv, NEW i \in Reads(held \cup seen) PROVE i < len
    BY DEF ReadsInside
  <2>1. len \in Lengths /\ T \in SeqLens
    BY DEF Inv
  <2>2. PICK s \in held \cup seen : i \in s .. s + T - 1
    BY DEF Reads
  <2>3. ~ TooSmall /\ s \in Starts(TrainSpan)
    BY <2>2 DEF Inv
  <2>4. s \in Nat /\ s + T < TrainSpan.len
    BY <2>1, <2>3, StartsFit
  <2>5. T \in Nat
    BY <2>1, CorporaFitTheWord
  <2>6. QED
    BY <2>1, <2>2, <2>4, <2>5, Split
<1>2. QED
  BY <1>1, InvAlways, PTL

\* Training reads no byte of the validation or test slice.
THEOREM TrainingStaysOutAlways == Spec => []TrainingStaysOut
<1>1. Inv => TrainingStaysOut
  <2> SUFFICES ASSUME Inv, NEW i \in Reads(seen) PROVE i \notin ValSpan.from .. len - 1
    BY DEF TrainingStaysOut, ValSpan
  <2>1. len \in Lengths /\ T \in SeqLens
    BY DEF Inv
  <2>2. PICK s \in seen : i \in s .. s + T - 1
    BY DEF Reads
  <2>3. ~ TooSmall /\ s \in Starts(TrainSpan)
    BY <2>2 DEF Inv
  <2>4. s \in Nat /\ s + T < TrainSpan.len
    BY <2>1, <2>3, StartsFit
  <2>5. T \in Nat
    BY <2>1, CorporaFitTheWord
  <2>6. QED
    BY <2>1, <2>2, <2>4, <2>5, Split
<1>2. QED
  BY <1>1, InvAlways, PTL

\* `vbpb < best` compares losses of one set of sequences throughout a run.
THEOREM OneYardstickAlways == Spec => OneYardstick
<1>1. Inv /\ [Next]_vars => [judged /= {} => judged' = judged]_judged
  <2> SUFFICES ASSUME Inv, [Next]_vars, judged /= {} PROVE judged' = judged
    OBVIOUS
  <2>1. judged = held /\ phase = "training"
    BY DEF Inv
  <2>2. QED
    BY <2>1 DEF Next, Reject, Accept, HoldOne, TrainOne, Evaluate, EvaluateOn, vars
<1>2. QED
  BY <1>1, InvAlways, PTL DEF Spec, OneYardstick
===============================================================================
