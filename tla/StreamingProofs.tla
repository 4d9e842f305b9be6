---------------------------- MODULE StreamingProofs ----------------------------
(***************************************************************************)
(* Proofs about the two ways a neural model is run, for every number of    *)
(* layers and every set of texts.                                          *)
(***************************************************************************)
EXTENDS Streaming, NatSetProofs

-------------------------------------------------------------------------------
(* Beginnings of sequences *)

\* The first n values of a function.
First(f, n) == [j \in 1 .. n |-> f[j]]

LEMMA FirstIsSeq ==
    ASSUME NEW f, NEW n \in Nat
    PROVE  First(f, n) \in Seq({f[j] : j \in 1 .. n + 1}) /\ Len(First(f, n)) = n
BY DEF First

LEMMA AppendNext ==
    ASSUME NEW f, NEW n \in Nat
    PROVE  Append(First(f, n), f[n + 1]) = First(f, n + 1)
<1> DEFINE R == {f[j] : j \in 1 .. n + 1}
           s == First(f, n)
           v == f[n + 1]
           w == First(f, n + 1)
<1>1. s \in Seq(R) /\ Len(s) = n
  BY FirstIsSeq
<1>2. v \in R
  OBVIOUS
<1>3. \A j \in 1 .. n : s[j] = f[j]
  BY DEF First
<1>4. w \in Seq(R) /\ Len(w) = n + 1 /\ \A j \in 1 .. n + 1 : w[j] = f[j]
  BY DEF First
<1> HIDE DEF s, v, w, R
<1>5. /\ Append(s, v) \in Seq(R) /\ Len(Append(s, v)) = n + 1
      /\ \A j \in 1 .. n : Append(s, v)[j] = s[j]
      /\ Append(s, v)[n + 1] = v
  BY <1>1, <1>2
<1>6. \A j \in 1 .. n + 1 : Append(s, v)[j] = w[j]
  BY <1>3, <1>4, <1>5 DEF v
<1>7. Append(s, v) = w
  BY <1>4, <1>5, <1>6
<1>8. QED
  BY <1>7 DEF s, v, w

-------------------------------------------------------------------------------
(* What the network computes *)

\* What layer i absorbs, of its inputs a at all positions up to len.
Absorbed(n, i, a, len) == [j \in 1 .. len |-> In(n, i, a[j])]

LEMMA LayerAt ==
    ASSUME NEW n, NEW i, NEW a, NEW len \in Nat, NEW j \in 1 .. len
    PROVE  LayerOf(n, i, a, len)[j] =
               Out(n, i, a[j], Output(i, First(Absorbed(n, i, a, len), j)))
<1>1. First(Absorbed(n, i, a, len), j) = [k \in 1 .. j |-> In(n, i, a[k])]
  BY DEF First, Absorbed
<1>2. QED
  BY <1>1 DEF LayerOf

\* From the embeddings, layer after layer.
Between(A, n, s) ==
    /\ A[0] = [j \in 1 .. Len(s) |-> Embedding(s[j])]
    /\ \A i \in 1 .. Layers : A[i] = LayerOf(n, i, A[i - 1], Len(s))

LEMMA ActsExist == ASSUME NEW n, NEW s PROVE Between(Acts(n, s), n, s)
<1> DEFINE Up(A, k) == /\ A[0] = [j \in 1 .. Len(s) |-> Embedding(s[j])]
                       /\ \A i \in 1 .. k : A[i] = LayerOf(n, i, A[i - 1], Len(s))
           S == {k \in 0 .. Layers : \E A : Up(A, k)}
<1>1. 0 \in S
  <2> DEFINE e == [j \in 1 .. Len(s) |-> Embedding(s[j])]
             B == [i \in {0} |-> e]
  <2>1. B[0] = e
    OBVIOUS
  <2>2. Up(B, 0)
    BY <2>1
  <2> HIDE DEF Up
  <2>3. QED
    BY <2>2, LayersArePositive
<1>2. ASSUME NEW k \in 0 .. Layers - 1, k \in S PROVE k + 1 \in S
  <2>1. PICK A : Up(A, k)
    BY <1>2
  <2> DEFINE new == LayerOf(n, k + 1, A[k], Len(s))
             B == [i \in 0 .. k + 1 |-> IF i = k + 1 THEN new ELSE A[i]]
  <2> HIDE DEF new
  <2>2. B[k + 1] = new /\ \A i \in 0 .. k : B[i] = A[i]
    OBVIOUS
  <2> HIDE DEF B
  <2>3. ASSUME NEW i \in 1 .. k + 1 PROVE B[i] = LayerOf(n, i, B[i - 1], Len(s))
    <3>1. CASE i = k + 1
      <4>1. i - 1 = k /\ k \in 0 .. k
        BY <3>1
      <4>2. B[i - 1] = A[k]
        BY <2>2, <4>1
      <4>3. QED
        BY <2>2, <3>1, <4>2 DEF new
    <3>2. CASE i \in 1 .. k
      <4>1. B[i] = A[i] /\ B[i - 1] = A[i - 1]
        BY <2>2, <3>2
      <4>2. QED
        BY <2>1, <3>2, <4>1
    <3>3. QED
      BY <3>1, <3>2
  <2>4. B[0] = A[0]
    BY <2>2
  <2>5. Up(B, k + 1)
    BY <2>1, <2>3, <2>4
  <2>6. k + 1 \in 0 .. Layers
    BY LayersArePositive
  <2> HIDE DEF Up
  <2>7. QED
    BY <2>5, <2>6
<1> HIDE DEF S
<1>3. 0 .. Layers \subseteq S
  BY <1>1, <1>2, BoundedInduction, LayersArePositive
<1>4. \E A : Up(A, Layers)
  BY <1>3, LayersArePositive DEF S
<1>5. PICK B : Between(B, n, s)
  BY <1>4 DEF Between
<1> DEFINE G(A) == [i \in 0 .. Layers |->
                       IF i = 0 THEN [j \in 1 .. Len(s) |-> Embedding(s[j])]
                                ELSE LayerOf(n, i, A[i - 1], Len(s))]
           C == [i \in 0 .. Layers |-> B[i]]
<1>6. C = G(C)
  <2>1. \A i \in 1 .. Layers : C[i - 1] = B[i - 1]
    BY LayersArePositive
  <2>2. ASSUME NEW i \in 0 .. Layers
        PROVE  B[i] = IF i = 0 THEN [j \in 1 .. Len(s) |-> Embedding(s[j])]
                               ELSE LayerOf(n, i, C[i - 1], Len(s))
    <3>1. CASE i = 0
      BY <1>5, <3>1 DEF Between
    <3>2. CASE i \in 1 .. Layers
      BY <1>5, <2>1, <3>2 DEF Between
    <3>3. QED
      BY <3>1, <3>2, LayersArePositive
  <2> HIDE DEF C
  <2>3. G(C) = [i \in 0 .. Layers |-> B[i]]
    BY <2>2
  <2>4. QED
    BY <2>3 DEF C
<1>7. Acts(n, s) = CHOOSE A : A = G(A)
  BY DEF Acts
<1> HIDE DEF C, G
<1>8. Acts(n, s) = G(Acts(n, s))
  BY <1>6, <1>7
<1>9. QED
  <2>1. \A i \in 0 .. Layers :
           Acts(n, s)[i] = IF i = 0 THEN [j \in 1 .. Len(s) |-> Embedding(s[j])]
                                    ELSE LayerOf(n, i, Acts(n, s)[i - 1], Len(s))
    BY <1>8 DEF G
  <2>2. QED
    BY <2>1, LayersArePositive DEF Between

-------------------------------------------------------------------------------
(* forward *)

\* The activations of this net on this text, and what its layers absorb.
A == Acts(net, text)
N == Len(text)
Fill(i) == Absorbed(net, i, A[i - 1], N)
Scored(i) == Scores(net, A[Layers][i])
Pair(i) == [logits |-> Scored(i), byte |-> text[i + 1]]

LEMMA ActsAre ==
    ASSUME text \in Seq(0 .. 255)
    PROVE  /\ N \in Nat
           /\ \A j \in 1 .. N : A[0][j] = Embedding(text[j])
           /\ \A i \in 1 .. Layers : A[i] = LayerOf(net, i, A[i - 1], N)
           /\ \A i \in 1 .. Layers : \A j \in 1 .. N :
                 A[i][j] = Out(net, i, A[i - 1][j], Output(i, First(Fill(i), j)))
           /\ \A i \in 1 .. Layers : \A j \in 1 .. N : Fill(i)[j] = In(net, i, A[i - 1][j])
           /\ \A i \in 0 .. Layers : A[i] = First(A[i], N)
<1>1. N \in Nat
  BY DEF N
<1>2. /\ A[0] = [j \in 1 .. N |-> Embedding(text[j])]
      /\ \A i \in 1 .. Layers : A[i] = LayerOf(net, i, A[i - 1], N)
  BY ActsExist DEF A, N, Between
<1>3. \A i \in 1 .. Layers : A[i] = First(A[i], N)
  BY <1>2 DEF LayerOf, First
<1>4. A[0] = First(A[0], N)
  BY <1>2 DEF First
<1>5. \A i \in 1 .. Layers : \A j \in 1 .. N :
         A[i][j] = Out(net, i, A[i - 1][j], Output(i, First(Fill(i), j)))
  BY <1>1, <1>2, LayerAt DEF Fill
<1>6. \A i \in 1 .. Layers : \A j \in 1 .. N : Fill(i)[j] = In(net, i, A[i - 1][j])
  BY DEF Fill, Absorbed
<1>7. \A i \in 0 .. Layers : i = 0 \/ i \in 1 .. Layers
  BY LayersArePositive
<1>8. QED
  BY <1>1, <1>2, <1>3, <1>4, <1>5, <1>6, <1>7

\* Where the program is.
TypeInv ==
    /\ phase \in {"forward", "readout", "loss", "predict", "observe"}
    /\ net \in Nets /\ text \in Seq(0 .. 255) /\ layer \in 1 .. Layers
    /\ phase \in {"readout", "loss", "predict"} => layer = 1

\* forward has computed what the network computes, up to where it is.
ForwardInv ==
    /\ phase = "forward" =>
          /\ t \in 1 .. N + 1 /\ acts = A[layer - 1]
          /\ W = First(Fill(layer), t - 1) /\ outs = First(A[layer], t - 1)
    /\ phase = "readout" => acts = A[Layers]
    /\ phase = "loss" => acts = [j \in 1 .. N |-> Scored(j)]
    /\ phase \in {"forward", "readout", "loss"} => trained = << >>
    /\ phase \in {"predict", "observe"} => trained = [i \in 1 .. N - 1 |-> Pair(i)]

\* What the layers do is the same in a block as it is spelled out in the adapters.
LEMMA SameBlock ==
    ASSUME net \in Nets
    PROVE  /\ \A a : Normed(a) = In(net, layer, a)
           /\ \A a, o : BlockOutput(a, o) = Out(net, layer, a, o)
           /\ Fed = In(net, layer, x)
           /\ \A o : Passed(o) = Out(net, layer, x, o)
           /\ Predicted = Scores(net, Latest)
BY DEF Nets, Predicted, Scores, Normed, In, BlockOutput, AfterMlp, Out, Fed, Passed, Mixed

LEMMA InitForward == Init => TypeInv /\ ForwardInv
<1> SUFFICES ASSUME Init PROVE TypeInv /\ ForwardInv
  OBVIOUS
<1>1. TypeInv
  BY TextsAreBytes, LayersArePositive DEF Init, TypeInv
<1>2. N \in Nat /\ A[0] = First(A[0], N) /\ \A j \in 1 .. N : A[0][j] = Embedding(text[j])
  BY <1>1, ActsAre, LayersArePositive DEF TypeInv
<1>3. acts = A[0]
  BY <1>2 DEF Init, First, N
<1>4. First(Fill(1), 0) = << >> /\ First(A[1], 0) = << >>
  BY DEF First
<1>5. QED
  BY <1>1, <1>2, <1>3, <1>4 DEF Init, ForwardInv, NoState

LEMMA NextType == TypeInv /\ [Next]_vars => TypeInv'
BY LayersArePositive
   DEF TypeInv, Next, ForwardStep, NextLayer, Logits, Loss, Predict, ObserveLayer, vars

LEMMA NextForward == TypeInv /\ ForwardInv /\ [Next]_vars => ForwardInv'
<1> SUFFICES ASSUME TypeInv, ForwardInv, [Next]_vars PROVE ForwardInv'
  OBVIOUS
<1>1. net' = net /\ text' = text
  BY DEF Next, ForwardStep, NextLayer, Logits, Loss, Predict, ObserveLayer, vars
<1>2. A' = A /\ N' = N
      /\ \A i : Fill(i)' = Fill(i) /\ Pair(i)' = Pair(i) /\ Scored(i)' = Scored(i)
  BY <1>1 DEF A, N, Fill, Pair, Scored
<1>3. /\ N \in Nat
      /\ \A i \in 1 .. Layers : \A j \in 1 .. N :
            A[i][j] = Out(net, i, A[i - 1][j], Output(i, First(Fill(i), j)))
      /\ \A i \in 1 .. Layers : \A j \in 1 .. N : Fill(i)[j] = In(net, i, A[i - 1][j])
      /\ \A i \in 0 .. Layers : A[i] = First(A[i], N)
  BY ActsAre DEF TypeInv
<1>4. CASE ForwardStep
  <2>1. /\ phase = "forward" /\ t <= N
        /\ W' = Append(W, Normed(acts[t]))
        /\ outs' = Append(outs, BlockOutput(acts[t], Output(layer, W')))
        /\ t' = t + 1 /\ phase' = phase /\ layer' = layer /\ acts' = acts
        /\ trained' = << >>
    BY <1>4 DEF ForwardStep, N, ForwardInv
  <2>2. /\ t \in 1 .. N /\ t - 1 \in Nat /\ (t - 1) + 1 = t /\ t' - 1 = t
        /\ acts = A[layer - 1] /\ layer \in 1 .. Layers
        /\ W = First(Fill(layer), t - 1) /\ outs = First(A[layer], t - 1)
    BY <1>3, <2>1 DEF TypeInv, ForwardInv
  <2>3. Normed(acts[t]) = Fill(layer)[t]
    BY <1>3, <2>2, SameBlock DEF TypeInv
  <2>4. W' = First(Fill(layer), t)
    BY <2>1, <2>2, <2>3, AppendNext
  <2>5. BlockOutput(acts[t], Output(layer, W')) = A[layer][t]
    BY <1>3, <2>2, <2>4, SameBlock DEF TypeInv
  <2>6. outs' = First(A[layer], t)
    BY <2>1, <2>2, <2>5, AppendNext
  <2>7. t' \in 1 .. N + 1
    BY <1>3, <2>1, <2>2
  <2>8. QED
    BY <1>2, <2>1, <2>2, <2>4, <2>6, <2>7 DEF ForwardInv
<1>5. CASE NextLayer
  <2>1. /\ phase = "forward" /\ t > N
        /\ acts' = outs /\ outs' = << >> /\ t' = 1 /\ W' = << >>
        /\ layer < Layers => layer' = layer + 1 /\ phase' = phase
        /\ ~ (layer < Layers) => layer' = 1 /\ phase' = "readout"
        /\ trained' = << >>
    BY <1>5 DEF NextLayer, N, NoState, ForwardInv
  <2>2. /\ t - 1 = N /\ layer \in 1 .. Layers /\ Layers \in Nat
        /\ outs = First(A[layer], t - 1)
    <3>1. t \in 1 .. N + 1 /\ outs = First(A[layer], t - 1)
      BY <2>1 DEF ForwardInv
    <3>2. QED
      BY <1>3, <2>1, <3>1, LayersArePositive DEF TypeInv
  <2>3. acts' = A[layer]
    BY <1>3, <2>1, <2>2
  <2>4. \A f : First(f, 0) = << >>
    BY DEF First
  <2>5. CASE layer < Layers
    <3>1. layer' - 1 = layer /\ t' - 1 = 0 /\ t' \in 1 .. N + 1
      BY <1>3, <2>1, <2>2, <2>5
    <3>2. QED
      BY <1>2, <2>1, <2>3, <2>4, <2>5, <3>1 DEF ForwardInv
  <2>6. CASE ~ (layer < Layers)
    <3>1. layer = Layers
      BY <2>2, <2>6
    <3>2. QED
      BY <1>2, <2>1, <2>3, <2>6, <3>1 DEF ForwardInv
  <2>7. QED
    BY <2>5, <2>6
<1>10. CASE Logits
  <2>1. /\ phase = "readout" /\ acts = A[Layers] /\ phase' = "loss" /\ trained' = << >>
        /\ acts' = [j \in DOMAIN acts |-> IF net = "plain" THEN Readout(acts[j])
                                          ELSE Readout(FinalNorm(acts[j]))]
    BY <1>10 DEF Logits, ForwardInv
  <2>2. A[Layers] = First(A[Layers], N)
    BY <1>3, LayersArePositive
  <2>3. DOMAIN acts = 1 .. N
    BY <2>1, <2>2 DEF First
  <2>4. acts' = [j \in 1 .. N |-> Scored(j)]
    BY <2>1, <2>3 DEF Scored, Scores
  <2>5. QED
    BY <1>2, <2>1, <2>4 DEF ForwardInv
<1>6. CASE Loss
  <2>1. trained' = [i \in 1 .. N - 1 |-> Pair(i)]
    <3>1. acts = [j \in 1 .. N |-> Scored(j)]
      BY <1>6 DEF Loss, ForwardInv
    <3>2. \A i \in 1 .. N - 1 : acts[i] = Scored(i)
      BY <1>3, <3>1
    <3>3. QED
      BY <1>6, <3>2 DEF Loss, LossPairs, Pair, N
  <2>2. QED
    BY <1>2, <1>6, <2>1 DEF Loss, ForwardInv
<1>7. CASE Predict \/ ObserveLayer
  BY <1>2, <1>7 DEF Predict, ObserveLayer, ForwardInv, forwardVars, TypeInv
<1>8. CASE UNCHANGED vars
  BY <1>2, <1>8 DEF vars, forwardVars, ForwardInv
<1>9. QED
  BY <1>4, <1>5, <1>6, <1>7, <1>8, <1>10 DEF Next

-------------------------------------------------------------------------------
(* The adapter *)

\* How many bytes layer i has absorbed: of the byte that is being observed, the
\* layers behind the one at work know nothing yet.
Absorbs(i) == IF phase = "observe" /\ i >= layer THEN Len(tested) - 1 ELSE Len(tested)

\* Every layer has absorbed the activations that forward gives it, and what goes
\* into the next one, or out of the last, is the activation between them.
AdapterInv ==
    /\ tested \in Seq({tested[p] : p \in DOMAIN tested}) /\ Len(tested) <= N
    /\ phase \in {"forward", "readout", "loss"} => tested = << >>
    /\ DOMAIN W_ = 1 .. Layers
    /\ \A i \in 1 .. Layers : W_[i] = First(Fill(i), Absorbs(i))
    /\ phase = "observe" => tested /= << >> /\ x = A[layer - 1][Len(tested)]
    /\ phase /= "observe" /\ tested /= << >> =>
          seen_ = TRUE /\ out_ = A[Layers][Len(tested)]
    /\ \A p \in 2 .. Len(tested) : tested[p] = Pair(p - 1)
    /\ tested = << >> => seen_ = FALSE
    /\ tested /= << >> => tested[1] = [logits |-> Scores(net, Zeros), byte |-> text[1]]

LEMMA InitAdapter == Init => AdapterInv
<1> SUFFICES ASSUME Init PROVE AdapterInv
  OBVIOUS
<1>1. tested = << >> /\ phase = "forward" /\ DOMAIN W_ = 1 .. Layers
      /\ \A i \in 1 .. Layers : W_[i] = << >>
  BY DEF Init, NoState
<1>2. N \in Nat
  BY TextsAreBytes DEF Init, N
<1>3. Len(tested) = 0 /\ tested \in Seq({tested[p] : p \in DOMAIN tested})
  BY <1>1
<1>4. \A i \in 1 .. Layers : Absorbs(i) = 0
  BY <1>1, <1>3 DEF Absorbs
<1>5. \A f : First(f, 0) = << >>
  BY DEF First
<1>6. seen_ = FALSE
  BY DEF Init
<1>7. QED
  BY <1>1, <1>2, <1>3, <1>4, <1>5, <1>6 DEF AdapterInv

LEMMA NextAdapter == TypeInv /\ AdapterInv /\ [Next]_vars => AdapterInv'
<1> SUFFICES ASSUME TypeInv, AdapterInv, [Next]_vars PROVE AdapterInv'
  OBVIOUS
<1>1. net' = net /\ text' = text
  BY DEF Next, ForwardStep, NextLayer, Logits, Loss, Predict, ObserveLayer, vars
<1>2. A' = A /\ N' = N
      /\ \A i : Fill(i)' = Fill(i) /\ Pair(i)' = Pair(i) /\ Scored(i)' = Scored(i)
  BY <1>1 DEF A, N, Fill, Pair, Scored
<1>3. /\ N \in Nat
      /\ \A j \in 1 .. N : A[0][j] = Embedding(text[j])
      /\ \A i \in 1 .. Layers : \A j \in 1 .. N :
            A[i][j] = Out(net, i, A[i - 1][j], Output(i, First(Fill(i), j)))
      /\ \A i \in 1 .. Layers : \A j \in 1 .. N : Fill(i)[j] = In(net, i, A[i - 1][j])
  BY ActsAre DEF TypeInv
<1>4. Len(tested) \in Nat /\ Layers \in Nat \ {0} /\ layer \in 1 .. Layers
  BY LayersArePositive DEF AdapterInv, TypeInv
<1>5. CASE Predict
  <2> DEFINE m == Len(tested)
             b == text[m + 1]
             pair == [logits |-> Predicted, byte |-> b]
  <2>1. /\ phase = "predict" /\ m < N /\ phase' = "observe"
        /\ tested' = Append(tested, pair) /\ x' = Embedding(b)
        /\ layer' = layer /\ W_' = W_
    BY <1>5 DEF Predict, N
  <2>2. layer = 1
    BY <2>1 DEF TypeInv
  <2> DEFINE R == {tested[p] : p \in DOMAIN tested} \cup {pair}
  <2>3. tested \in Seq(R) /\ pair \in R
    BY DEF AdapterInv
  <2> HIDE DEF R, pair
  <2>4. /\ Len(tested') = m + 1 /\ tested' \in Seq(R)
        /\ \A p \in 1 .. m : tested'[p] = tested[p]
        /\ tested'[m + 1] = pair
    BY <2>1, <2>3
  <2>5. tested' \in Seq({tested'[p] : p \in DOMAIN tested'}) /\ tested' /= << >>
    BY <1>4, <2>4
  <2>6. \A i \in 1 .. Layers : Absorbs(i)' = Absorbs(i)
    <3>1. TAKE i \in 1 .. Layers
    <3>2. i >= layer
      BY <2>2
    <3>3. Absorbs(i) = m
      BY <2>1 DEF Absorbs
    <3>4. Absorbs(i)' = (m + 1) - 1
      BY <2>1, <2>4, <3>2 DEF Absorbs
    <3>5. QED
      BY <1>4, <3>3, <3>4
  <2>7. x' = A[layer' - 1][Len(tested')]
    BY <1>3, <1>4, <2>1, <2>2, <2>4
  <2>8. ASSUME NEW p \in 2 .. m + 1 PROVE tested'[p] = Pair(p - 1)
    <3>1. CASE p = m + 1
      <4>1. tested /= << >> /\ p - 1 = m
        BY <1>4, <3>1
      <4>2. Predicted = Scored(m)
        BY <2>1, <4>1, SameBlock DEF AdapterInv, Latest, Scored, TypeInv
      <4>3. QED
        BY <2>4, <3>1, <4>1, <4>2 DEF Pair, pair
    <3>2. CASE p \in 2 .. m
      BY <2>4, <3>2 DEF AdapterInv
    <3>3. QED
      BY <1>4, <3>1, <3>2
  <2>9. m + 1 <= N
    BY <1>3, <1>4, <2>1
  <2>10. tested'[1] = [logits |-> Scores(net, Zeros), byte |-> text[1]]
    <3>1. CASE tested = << >>
      <4>1. m = 0 /\ Predicted = Scores(net, Zeros)
        BY <3>1, SameBlock DEF AdapterInv, Latest, TypeInv
      <4>2. QED
        BY <2>4, <4>1 DEF pair
    <3>2. CASE tested /= << >>
      <4>1. 1 \in 1 .. m
        BY <1>4, <3>2 DEF AdapterInv
      <4>2. QED
        BY <2>4, <3>2, <4>1 DEF AdapterInv
    <3>3. QED
      BY <3>1, <3>2
  <2> HIDE DEF m
  <2>11. QED
    BY <1>1, <1>2, <2>1, <2>4, <2>5, <2>6, <2>7, <2>8, <2>9, <2>10 DEF AdapterInv
<1>6. CASE ObserveLayer
  <2> DEFINE m == Len(tested)
  <2>1. /\ phase = "observe" /\ tested' = tested
        /\ W_' = [W_ EXCEPT ![layer] = Append(@, Fed)]
        /\ x' = Passed(Output(layer, W_'[layer]))
        /\ layer < Layers => layer' = layer + 1 /\ phase' = phase
        /\ ~ (layer < Layers) => /\ layer' = 1 /\ phase' = "predict"
                                 /\ out_' = x' /\ seen_' = TRUE
    BY <1>6 DEF ObserveLayer, Slot
  <2>2. /\ DOMAIN W_ = 1 .. Layers /\ m \in 1 .. N /\ x = A[layer - 1][m]
        /\ (m - 1) + 1 = m /\ m - 1 \in Nat
    BY <1>3, <1>4, <2>1 DEF AdapterInv
  <2>3. Absorbs(layer) = m - 1
    BY <1>4, <2>1 DEF Absorbs
  <2>4. Fed = Fill(layer)[m]
    BY <1>3, <1>4, <2>2, SameBlock DEF TypeInv
  <2>5. W_'[layer] = First(Fill(layer), m)
    <3>1. W_[layer] = First(Fill(layer), m - 1)
      BY <1>4, <2>3 DEF AdapterInv
    <3>2. W_'[layer] = Append(W_[layer], Fed)
      BY <1>4, <2>1, <2>2
    <3>3. QED
      BY <2>2, <2>4, <3>1, <3>2, AppendNext
  <2>6. x' = A[layer][m]
    BY <1>3, <1>4, <2>1, <2>2, <2>5, SameBlock DEF TypeInv
  <2>7. /\ DOMAIN W_' = 1 .. Layers
        /\ \A i \in 1 .. Layers : W_'[i] = First(Fill(i), Absorbs(i)')
    <3>1. DOMAIN W_' = 1 .. Layers /\ \A i \in 1 .. Layers : i /= layer => W_'[i] = W_[i]
      BY <2>1, <2>2
    <3>2. ASSUME NEW i \in 1 .. Layers, i = layer PROVE Absorbs(i)' = m
      BY <1>4, <2>1, <3>2 DEF Absorbs
    <3>3. ASSUME NEW i \in 1 .. Layers, i /= layer PROVE Absorbs(i)' = Absorbs(i)
      BY <1>4, <2>1, <3>3 DEF Absorbs
    <3>4. ASSUME NEW i \in 1 .. Layers PROVE W_'[i] = First(Fill(i), Absorbs(i)')
      <4>1. CASE i = layer
        BY <2>5, <3>2, <4>1
      <4>2. CASE i /= layer
        BY <3>1, <3>3, <4>2 DEF AdapterInv
      <4>3. QED
        BY <4>1, <4>2
    <3>5. QED
      BY <3>1, <3>4
  <2>8. tested /= << >>
    BY <2>1 DEF AdapterInv
  <2>9. CASE layer < Layers
    <3>1. layer' - 1 = layer /\ phase' = "observe"
      BY <1>4, <2>1, <2>9
    <3>2. QED
      BY <1>1, <1>2, <2>1, <2>6, <2>7, <2>8, <3>1 DEF AdapterInv
  <2>10. CASE ~ (layer < Layers)
    <3>1. layer = Layers /\ phase' = "predict" /\ out_' = x' /\ seen_' = TRUE
      BY <1>4, <2>1, <2>10
    <3>2. QED
      BY <1>1, <1>2, <2>1, <2>6, <2>7, <2>8, <3>1 DEF AdapterInv
  <2>11. QED
    BY <2>9, <2>10
<1>7. CASE ForwardStep \/ NextLayer \/ Logits \/ Loss
  <2>1. /\ UNCHANGED adapterVars /\ phase \in {"forward", "readout", "loss"}
        /\ phase' \in {"forward", "readout", "loss", "predict"}
    BY <1>7 DEF ForwardStep, NextLayer, Logits, Loss
  <2>2. tested = << >> /\ tested' = tested /\ W_' = W_ /\ seen_' = seen_
    BY <2>1 DEF adapterVars, AdapterInv
  <2>3. \A i : Absorbs(i)' = Absorbs(i)
    BY <2>1, <2>2 DEF Absorbs
  <2>4. QED
    BY <1>2, <2>1, <2>2, <2>3 DEF AdapterInv
<1>8. CASE UNCHANGED vars
  <2>1. /\ tested' = tested /\ W_' = W_ /\ x' = x /\ out_' = out_ /\ seen_' = seen_
        /\ phase' = phase /\ layer' = layer
    BY <1>8 DEF vars, adapterVars
  <2>2. \A i : Absorbs(i)' = Absorbs(i)
    BY <2>1 DEF Absorbs
  <2>3. QED
    BY <1>1, <1>2, <2>1, <2>2 DEF AdapterInv
<1>9. QED
  BY <1>5, <1>6, <1>7, <1>8 DEF Next

\* The adapter predicts every byte but the first with what forward predicts it
\* with, for every number of layers and every text.
THEOREM StreamMatchesForwardAlways == Spec => []StreamMatchesForward
<1>1. TypeInv /\ ForwardInv /\ AdapterInv => StreamMatchesForward
  <2> SUFFICES ASSUME TypeInv, ForwardInv, AdapterInv, NEW p \in 2 .. Len(tested)
               PROVE  tested[p] = trained[p - 1]
    BY DEF StreamMatchesForward
  <2>1. Len(tested) \in Nat /\ N \in Nat /\ Len(tested) <= N
    BY ActsAre DEF AdapterInv, TypeInv
  <2>2. p - 1 \in 1 .. N - 1
    BY <2>1
  <2>3. tested /= << >>
    BY <2>1
  <2>4. trained = [i \in 1 .. N - 1 |-> Pair(i)]
    BY <2>3 DEF AdapterInv, ForwardInv, TypeInv
  <2>5. tested[p] = Pair(p - 1)
    BY DEF AdapterInv
  <2>6. QED
    BY <2>2, <2>4, <2>5
<1>2. QED
  BY <1>1, InitForward, NextType, NextForward, InitAdapter, NextAdapter, PTL DEF Spec

-------------------------------------------------------------------------------
(* A prediction and the text it is made from *)

\* The beginning of a text gets the activations that it gets in the whole text.
LEMMA ActsOfBeginning ==
    ASSUME NEW n, NEW s \in Seq(0 .. 255), NEW m \in 1 .. Len(s)
    PROVE  \A i \in 0 .. Layers : \A j \in 1 .. m :
              Acts(n, SubSeq(s, 1, m))[i][j] = Acts(n, s)[i][j]
<1> DEFINE p == SubSeq(s, 1, m)
           B == Acts(n, p)
           C == Acts(n, s)
           S == {i \in 0 .. Layers : \A j \in 1 .. m : B[i][j] = C[i][j]}
<1>1. Len(p) = m /\ m \in Nat /\ Len(s) \in Nat /\ \A j \in 1 .. m : p[j] = s[j]
  OBVIOUS
<1>2. Between(B, n, p) /\ Between(C, n, s)
  BY ActsExist
<1> HIDE DEF p, B, C
<1>3. 0 \in S
  <2>1. \A j \in 1 .. m : B[0][j] = Embedding(p[j]) /\ C[0][j] = Embedding(s[j])
    BY <1>1, <1>2 DEF Between
  <2>2. QED
    BY <1>1, <2>1, LayersArePositive
<1>4. ASSUME NEW k \in 0 .. Layers - 1, k \in S PROVE k + 1 \in S
  <2>1. k + 1 \in 1 .. Layers /\ (k + 1) - 1 = k /\ k + 1 \in 0 .. Layers
    BY LayersArePositive
  <2>2. B[k + 1] = LayerOf(n, k + 1, B[k], m) /\ C[k + 1] = LayerOf(n, k + 1, C[k], Len(s))
    BY <1>1, <1>2, <2>1 DEF Between
  <2>3. ASSUME NEW j \in 1 .. m PROVE B[k + 1][j] = C[k + 1][j]
    <3> DEFINE b == First(Absorbed(n, k + 1, B[k], m), j)
               c == First(Absorbed(n, k + 1, C[k], Len(s)), j)
    <3>1. B[k][j] = C[k][j] /\ \A l \in 1 .. j : B[k][l] = C[k][l]
      BY <1>4
    <3>2. /\ b = [l \in 1 .. j |-> In(n, k + 1, B[k][l])]
          /\ c = [l \in 1 .. j |-> In(n, k + 1, C[k][l])]
      BY <1>1 DEF First, Absorbed
    <3>3. b = c
      BY <3>1, <3>2
    <3>4. /\ B[k + 1][j] = Out(n, k + 1, B[k][j], Output(k + 1, b))
          /\ C[k + 1][j] = Out(n, k + 1, C[k][j], Output(k + 1, c))
      BY <1>1, <2>2, LayerAt
    <3>5. QED
      BY <3>1, <3>3, <3>4
  <2>4. QED
    BY <2>1, <2>3
<1> HIDE DEF S
<1>5. 0 .. Layers \subseteq S
  BY <1>3, <1>4, BoundedInduction, LayersArePositive
<1>6. QED
  BY <1>5 DEF S, B, C, p

LEMMA PredictionIs ==
    ASSUME text \in Seq(0 .. 255), NEW m \in 1 .. N
    PROVE  Prediction(net, SubSeq(text, 1, m)) = Scored(m)
<1>1. /\ m \in 1 .. Len(text) /\ Len(SubSeq(text, 1, m)) = m
      /\ SubSeq(text, 1, m) /= << >>
  BY DEF N
<1>2. Acts(net, SubSeq(text, 1, m))[Layers][m] = Acts(net, text)[Layers][m]
  BY <1>1, ActsOfBeginning, LayersArePositive
<1>3. QED
  BY <1>1, <1>2 DEF Prediction, A, Scored

\* No prediction, in training or in testing, knows a byte that it is measured on,
\* for every number of layers and every text.
THEOREM NoPeekingAlways == Spec => []NoPeeking
<1>1. TypeInv /\ ForwardInv /\ AdapterInv => NoPeeking
  <2> SUFFICES ASSUME TypeInv, ForwardInv, AdapterInv PROVE NoPeeking
    OBVIOUS
  <2>1. text \in Seq(0 .. 255) /\ N \in Nat /\ Len(tested) \in Nat /\ Len(tested) <= N
    BY ActsAre DEF AdapterInv, TypeInv
  <2>2. ASSUME NEW p \in 1 .. Len(tested)
        PROVE  tested[p] = [logits |-> Prediction(net, SubSeq(text, 1, p - 1)),
                            byte |-> text[p]]
    <3>1. CASE p = 1
      <4>1. SubSeq(text, 1, 0) = << >>
        BY <2>1
      <4>2. QED
        BY <2>1, <3>1, <4>1 DEF AdapterInv, Prediction
    <3>2. CASE p \in 2 .. Len(tested)
      <4>1. p - 1 \in 1 .. N /\ (p - 1) + 1 = p
        BY <2>1, <3>2
      <4>2. tested[p] = Pair(p - 1)
        BY <3>2 DEF AdapterInv
      <4>3. QED
        BY <2>1, <4>1, <4>2, PredictionIs DEF Pair
    <3>3. QED
      BY <2>1, <3>1, <3>2
  <2>3. ASSUME NEW i \in 1 .. Len(trained)
        PROVE  trained[i] = [logits |-> Prediction(net, SubSeq(text, 1, i)),
                             byte |-> text[i + 1]]
    <3>1. CASE phase \in {"forward", "readout", "loss"}
      <4>1. Len(trained) = 0
        BY <3>1 DEF ForwardInv
      <4>2. QED
        BY <4>1
    <3>2. CASE phase \in {"predict", "observe"}
      <4> DEFINE R == {Pair(k) : k \in 1 .. N - 1}
      <4>1. trained = [k \in 1 .. N - 1 |-> Pair(k)]
        BY <3>2 DEF ForwardInv
      <4>2. i \in 1 .. N - 1
        <5>1. CASE N = 0
          <6>1. trained = << >>
            BY <4>1, <5>1
          <6>2. QED
            BY <6>1
        <5>2. CASE N > 0
          <6>1. trained \in Seq(R) /\ Len(trained) = N - 1
            BY <2>1, <4>1, <5>2
          <6>2. QED
            BY <6>1
        <5>3. QED
          BY <2>1, <5>1, <5>2
      <4>3. trained[i] = Pair(i) /\ i \in 1 .. N
        BY <2>1, <4>1, <4>2
      <4>4. QED
        BY <2>1, <4>3, PredictionIs DEF Pair
    <3>3. QED
      BY <3>1, <3>2 DEF TypeInv
  <2>4. QED
    BY <2>2, <2>3 DEF NoPeeking
<1>2. QED
  BY <1>1, InitForward, NextType, NextForward, InitAdapter, NextAdapter, PTL DEF Spec
================================================================================
