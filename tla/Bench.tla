-------------------------------- MODULE Bench ---------------------------------
(***************************************************************************)
(* ContextModel and the two loops that score a model byte by byte:         *)
(* score_stream under run_sweep over a corpus, and score_diagnostic over a *)
(* made task stream.  A cost is kept as the fraction whose -log2 it is.    *)
(***************************************************************************)
EXTENDS Tasks

CONSTANTS
    MaxOrder,     \* 8: the order whose context fills the word
    CountLimit,   \* 2^32: counts wrap here
    Knobs,        \* the orders asked for with a task stream
    Sweeps,       \* the lists of orders asked for with a corpus
    Corpora       \* the byte strings a corpus may be

ASSUME ModelSizes == MaxOrder \in Nat \ {0} /\ CountLimit \in Nat \ {0}
ASSUME OrdersAreInts == Knobs \subseteq Int /\ Sweeps \subseteq Seq(Int)
ASSUME CorporaAreBytes == Corpora \subseteq Seq(Bytes)

VARIABLES
    knobs,    \* the orders still to be scored
    scoring,  \* a model is being driven over the stream
    pos,      \* the position it is at
    ctx,      \* its context, a number
    table,    \* its counts, for every context observed
    ledger,   \* the costs accumulated so far
    points    \* what is scored already: orders and their costs

benchVars == <<knobs, scoring, pos, ctx, table, ledger, points>>

-------------------------------------------------------------------------------
\* ContextModel

Clamped(order) == IF order < 0 THEN 0 ELSE IF order > MaxOrder THEN MaxOrder ELSE order
Order == Clamped(Head(knobs))

\* Power[n] is what 8 * n bits hold; the mask of order_ bytes is a remainder.
Power[n \in 0 .. MaxOrder] == IF n = 0 THEN 1 ELSE Power[n - 1] * Base
Word == Power[MaxOrder]
Shifted(c, b) == (((c * Base) % Word) + b) % Power[Order]

NoCounts == [b \in Bytes |-> 0]
CountsOf(tab, c) == IF c \in DOMAIN tab THEN tab[c] ELSE NoCounts

\* predict: exp of the logits, count + alpha with alpha = 1.
Predict(tab, c) == [b \in Bytes |-> CountsOf(tab, c)[b] + 1]

\* observe: the entry of a new context is made before it is incremented.
Observed(tab, c, b) ==
    [d \in DOMAIN tab \cup {c} |->
        IF d = c THEN [CountsOf(tab, c) EXCEPT ![b] = (@ + 1) % CountLimit]
        ELSE tab[d]]

\* logit_bits: the share of the actual byte under the normalized prediction.
Total(weights) ==
    LET sum[b \in 0 .. Base] == IF b = 0 THEN 0 ELSE sum[b - 1] + weights[b - 1]
    IN  sum[Base]
Cost(weights, b) == [share |-> weights[b], of |-> Total(weights)]

-------------------------------------------------------------------------------
\* The loops

NoTable == [c \in {} |-> NoCounts]

BenchInit ==
    /\ \/ /\ GenInit
          /\ knobs \in IF kind = "make" THEN {<<k>> : k \in Knobs} ELSE {<< >>}
       \/ /\ kind = "corpus" /\ task = "corpus" /\ out \in Corpora
          /\ knobs \in Sweeps
          /\ T = 0 /\ left = 0 /\ mark = << >> /\ off = 0 /\ parity = 0
          /\ vals = << >> /\ key = 1 /\ pair = 0
          /\ seen = [k \in KeyIds |-> FALSE]
    /\ scoring = FALSE /\ pos = 1 /\ ctx = 0 /\ table = NoTable
    /\ ledger = << >> /\ points = << >>

\* run_sweep makes a model for every order.
TableKept == table      \* mutant
NewTable == NoTable

NewModel ==
    /\ ~ scoring /\ knobs /= << >> /\ ~ More
    /\ scoring' = TRUE /\ pos' = 1 /\ ctx' = 0
    /\ table' = NewTable /\ ledger' = << >>
    /\ UNCHANGED <<knobs, points>>

EveryByte(i) == TRUE    \* mutant
Scored(i) == mark = << >> \/ mark[i] /= "key"

Peeked == Predict(Observed(table, ctx, out[pos]), ctx)     \* mutant
Predicted == Predict(table, ctx)

ScoreByte ==
    /\ scoring /\ pos <= Len(out)
    /\ ledger' = IF Scored(pos) THEN Append(ledger, Cost(Predicted, out[pos])) ELSE ledger
    /\ table' = Observed(table, ctx, out[pos])
    /\ ctx' = Shifted(ctx, out[pos])
    /\ pos' = pos + 1
    /\ UNCHANGED <<knobs, scoring, points>>

PushPoint ==
    /\ scoring /\ pos > Len(out)
    /\ points' = Append(points, [order |-> Order, costs |-> ledger])
    /\ knobs' = Tail(knobs) /\ scoring' = FALSE
    /\ UNCHANGED <<pos, ctx, table, ledger>>

BenchNext ==
    \/ Generate /\ UNCHANGED benchVars
    \/ (NewModel \/ ScoreByte \/ PushPoint) /\ UNCHANGED genVars

BenchSpec == BenchInit /\ [][BenchNext]_<<genVars, benchVars>>

-------------------------------------------------------------------------------
(* What the score of a task stream is set against, position by position    *)

Coin == [share |-> 1, of |-> 2]
Free == [share |-> 1, of |-> 1]

\* The share of a byte in the whole stream, key bytes included.
Marginal(b) == [share |-> Cardinality({i \in DOMAIN out : out[i] = b}), of |-> Len(out)]

\* naive_bpb and floor_bpb before the division by the number of positions; of
\* block_len + 1 bytes of parity all but one cost a bit at the floor.
NaiveCost(i) == IF task = "parity" THEN Coin ELSE Marginal(out[i])
GivenAway(i) == IF task = "parity" THEN i % (BlockLen + 1) = 0 ELSE mark[i] = "recall"
NothingGiven(i) == NaiveCost(i)     \* mutant
FloorCost(i) == IF GivenAway(i) THEN Free ELSE NaiveCost(i)

\* naive_bpb - floor_bpb > 0: where it is not, every model has captured nothing.
HasGap == \E i \in DOMAIN out : Scored(i) /\ FloorCost(i) /= NaiveCost(i)

-------------------------------------------------------------------------------

\* The n bytes before position i; a stream begins as if zeros came before it.
Window(i, n) == [j \in 1 .. n |-> IF i - n - 1 + j > 0 THEN out[i - n - 1 + j] ELSE 0]
SameWindow(i) == {j \in 1 .. i - 1 : Window(j, Order) = Window(i, Order)}

\* Add-one estimate of byte i from the bytes before it, and from no other.
NgramCost(i) ==
    [share |-> Cardinality({j \in SameWindow(i) : out[j] = out[i]}) + 1,
     of |-> Cardinality(SameWindow(i)) + Base]

\* The byte just scored cost what an n-gram model of the bytes before it says:
\* the packed context is the window, and no prediction sees what it predicts.
ScoresAreNgrams ==
    scoring /\ pos > 1 /\ ledger /= << >> =>
        LET last == IF task = "induction" THEN Width * ((pos - 1) \div Width) ELSE pos - 1
        IN ledger[Len(ledger)] = NgramCost(last)

\* Of an induction stream the values are scored, each once, and no key byte.
OnlyValuesScored ==
    scoring => Len(ledger) = IF task = "induction" THEN (pos - 1) \div Width ELSE pos - 1

\* A point of a sweep depends on its order only, not on its place in the list.
SweepIsFair ==
    \A i, j \in DOMAIN points : points[i].order = points[j].order => points[i] = points[j]

\* Every stream of more pairs than keys can tell models apart: some value is
\* free at the floor and costs bits before it, unless all bytes are the same.
StreamsTellModels ==
    kind = "make" /\ ~ More /\ Cardinality(Range(out)) > 1
      /\ (task = "induction" => PairsPerSeq > Cardinality(KeyIds)) => HasGap
===============================================================================
