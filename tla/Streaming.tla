------------------------------ MODULE Streaming -------------------------------
(***************************************************************************)
(* The two ways a neural model is run: forward, on a whole sequence, layer *)
(* after layer, as it is trained; and the adapter, byte after byte through *)
(* all layers, as it is tested.  One module stands for the three models,   *)
(* which differ in what a layer computes, in their number of layers, and   *)
(* in what they put around a layer.                                        *)
(*                                                                         *)
(* Real numbers are replaced by terms: a layer's state is the sequence of  *)
(* inputs it has absorbed, its output the layer applied to that state, so  *)
(* that two values are equal only if they are computed alike.              *)
(***************************************************************************)
EXTENDS Integers, Sequences

CONSTANTS
    Layers,    \* recurrent layers: n_layers, layers, or 1 (fast weights)
    Texts      \* the byte strings that the model is run on

ASSUME LayersArePositive == Layers \in Nat \ {0}
ASSUME TextsAreBytes == \A s \in Texts : s \in Seq(0 .. 255)

\* The layers by themselves (gru, fast weights); or each in a residual block, with
\* an MLP after it or, after --no-mlp, without (deltanet).
Nets == {"plain", "block", "mix_only"}

\* An operation of layer i on other terms.
Term(op, i, args) == [op |-> op, layer |-> i, args |-> args]
Embedding(b) == Term("emb", b, << >>)
Zeros == Term("zeros", 0, << >>)
\* What layer i makes of its state.
Output(i, state) == Term("output", i, state)
Plus(a, b) == Term("plus", 0, <<a, b>>)
Norm1(i, a) == Term("ln1", i, <<a>>)
Norm2(i, a) == Term("ln2", i, <<a>>)
\* fc2 of the gelu of fc1.
Mlp(i, a) == Term("mlp", i, <<a>>)
FinalNorm(a) == Term("ln_f", 0, <<a>>)
Readout(a) == Term("readout", 0, <<a>>)
NoState == << >>

VARIABLES
    phase,    \* "forward", "readout", "loss", "predict", "observe"
    net,      \* one of Nets; never changes
    text,     \* the bytes
    layer,    \* the layer at work
    t,        \* forward: the position it is at
    W,        \* forward: the state of the layer at work
    acts,     \* forward: its inputs, at all positions; at last the logits
    outs,     \* forward: its outputs so far
    trained,  \* bpb_loss: the pairs of prediction and target
    W_,       \* adapter: the state of every layer
    x,        \* adapter: what goes into the layer at work
    out_,     \* adapter: the output for the last byte observed
    seen_,    \* adapter: a byte has been observed
    tested    \* the scoring loop: its pairs of prediction and byte

forwardVars == <<t, W, acts, outs, trained>>
adapterVars == <<W_, x, out_, seen_, tested>>
vars == <<phase, net, text, layer, forwardVars, adapterVars>>

Init ==
    /\ phase = "forward" /\ net \in Nets /\ text \in Texts
    /\ layer = 1 /\ t = 1 /\ W = NoState /\ outs = << >> /\ trained = << >>
    /\ acts = [i \in DOMAIN text |-> Embedding(text[i])]
    /\ W_ = [i \in 1 .. Layers |-> NoState] /\ x = Zeros
    /\ out_ = Zeros /\ seen_ = FALSE /\ tested = << >>

-------------------------------------------------------------------------------
(* forward and bpb_loss *)

\* What goes into the layer, and what Block::forward makes of its output.
Normed(a) == IF net = "plain" THEN a ELSE Norm1(layer, a)
AfterMlp(a) == IF net = "mix_only" THEN a
               ELSE Plus(a, Mlp(layer, Norm2(layer, a)))
BlockOutput(a, o) == IF net = "plain" THEN o ELSE AfterMlp(Plus(a, o))

\* step: absorb the input of position t, and read the state out.
ForwardStep ==
    /\ phase = "forward" /\ t <= Len(text)
    /\ W' = Append(W, Normed(acts[t]))
    /\ outs' = Append(outs, BlockOutput(acts[t], Output(layer, W')))
    /\ t' = t + 1
    /\ UNCHANGED <<phase, net, text, layer, acts, trained, adapterVars>>

\* The next layer starts on these outputs from a state of its own.
NextLayer ==
    /\ phase = "forward" /\ t > Len(text)
    /\ acts' = outs /\ outs' = << >> /\ t' = 1 /\ W' = NoState
    /\ IF layer < Layers THEN layer' = layer + 1 /\ phase' = phase
                         ELSE layer' = 1 /\ phase' = "readout"
    /\ UNCHANGED <<net, text, trained, adapterVars>>

\* The end of forward, at all positions: a network of blocks has a norm there.
Logits ==
    /\ phase = "readout"
    /\ acts' = [j \in DOMAIN acts |-> IF net = "plain" THEN Readout(acts[j])
                                      ELSE Readout(FinalNorm(acts[j]))]
    /\ phase' = "loss"
    /\ UNCHANGED <<net, text, layer, t, W, outs, trained, adapterVars>>

\* Of all predictions but the first, and the bytes they have already seen.
AlignedPairs ==         \* mutant
    [i \in 1 .. Len(text) - 1 |-> [logits |-> acts[i + 1], byte |-> text[i + 1]]]
\* Of all predictions but the last, and all bytes but the first.
LossPairs == [i \in 1 .. Len(text) - 1 |-> [logits |-> acts[i], byte |-> text[i + 1]]]
Loss ==
    /\ phase = "loss"
    /\ trained' = LossPairs
    /\ phase' = "predict"
    /\ UNCHANGED <<net, text, layer, t, W, acts, outs, adapterVars>>

-------------------------------------------------------------------------------
(* The adapter, driven by score_diagnostic *)

\* The readout of the last output, which is kept without it.
Latest == IF seen_ THEN out_ ELSE Zeros
Predicted == IF net = "plain" THEN Readout(Latest) ELSE Readout(FinalNorm(Latest))

Predict ==
    /\ phase = "predict" /\ Len(tested) < Len(text)
    /\ LET b == text[Len(tested) + 1] IN
       /\ tested' = Append(tested, [logits |-> Predicted, byte |-> b])
       /\ x' = Embedding(b)
    /\ phase' = "observe"
    /\ UNCHANGED <<net, text, layer, forwardVars, W_, out_, seen_>>

\* Every layer has its own state.
OneSlot(i) == 1         \* mutant
Slot(i) == i

\* The adapters spell the block out once more, for one position.
Fed == IF net = "plain" THEN x ELSE Norm1(layer, x)
Mixed(o) == Plus(x, o)
Passed(o) == IF net = "plain" THEN o
             ELSE IF net = "block" THEN Plus(Mixed(o), Mlp(layer, Norm2(layer, Mixed(o))))
             ELSE Mixed(o)

ObserveLayer ==
    /\ phase = "observe"
    /\ W_' = [W_ EXCEPT ![Slot(layer)] = Append(@, Fed)]
    /\ x' = Passed(Output(layer, W_'[Slot(layer)]))
    /\ IF layer < Layers
       THEN layer' = layer + 1 /\ UNCHANGED <<phase, out_, seen_>>
       ELSE layer' = 1 /\ phase' = "predict" /\ out_' = x' /\ seen_' = TRUE
    /\ UNCHANGED <<net, text, forwardVars, tested>>

Next == ForwardStep \/ NextLayer \/ Logits \/ Loss \/ Predict \/ ObserveLayer
Spec == Init /\ [][Next]_vars

-------------------------------------------------------------------------------

(* What the model promises *)

\* The reference: a network as a function of the text.  What goes into layer i of a
\* net, and what leaves it, at one position; the layer on its inputs a at all
\* positions; the activations between the layers.
In(n, i, a) == IF n = "plain" THEN a ELSE Norm1(i, a)
Out(n, i, a, o) ==
    IF n = "plain" THEN o
    ELSE IF n = "mix_only" THEN Plus(a, o)
    ELSE Plus(Plus(a, o), Mlp(i, Norm2(i, Plus(a, o))))
LayerOf(n, i, a, len) ==
    [j \in 1 .. len |-> Out(n, i, a[j], Output(i, [k \in 1 .. j |-> In(n, i, a[k])]))]
Acts(n, s) ==
    LET A[i \in 0 .. Layers] ==
            IF i = 0 THEN [j \in 1 .. Len(s) |-> Embedding(s[j])]
                     ELSE LayerOf(n, i, A[i - 1], Len(s))
    IN A

Scores(n, a) == Readout(IF n = "plain" THEN a ELSE FinalNorm(a))

\* What a net predicts after it has been given s and nothing else.
Prediction(n, s) == Scores(n, IF s = << >> THEN Zeros ELSE Acts(n, s)[Layers][Len(s)])

\* The model is tested as it was trained: the adapter predicts every byte but
\* the first with what forward predicts it with in bpb_loss, though it goes
\* through layers and positions in another order.
StreamMatchesForward ==
    \A p \in 2 .. Len(tested) : tested[p] = trained[p - 1]

\* No prediction knows a byte that it is measured on: whether bpb_loss or the
\* scoring loop asks for it, the prediction of a byte is the one that the model
\* makes of the bytes before it when the text ends there.
NoPeeking ==
    /\ \A p \in 1 .. Len(tested) :
          tested[p] = [logits |-> Prediction(net, SubSeq(text, 1, p - 1)), byte |-> text[p]]
    /\ \A i \in 1 .. Len(trained) :
          trained[i] = [logits |-> Prediction(net, SubSeq(text, 1, i)), byte |-> text[i + 1]]
===============================================================================
