------------------------------ MODULE LaunchProofs ------------------------------
(***************************************************************************)
(* Proofs about the train_* programs and the corpus they open, for every   *)
(* list of command lines, every set of files and every number of launches. *)
(***************************************************************************)
EXTENDS Launch, NatSetProofs

-------------------------------------------------------------------------------
(* The corpus *)

\* What a corpus object holds goes with how far its constructor has come.
CorpusInv ==
    /\ object \in {"none", "opened", "sized", "ready", "thrown", "gone"}
    /\ size \in Nat
    /\ object /= "ready" => mapped = FALSE
    /\ object \in {"none", "thrown", "gone"} => fd = FALSE
    /\ object = "ready" => mapped = TRUE \/ size = 0

LEMMA InitCorpus == Init => CorpusInv
BY DEF Init, NoCorpus, CorpusInv

\* Whichever call of the constructor fails, or none.
LEMMA ConstructKeeps ==
    ASSUME CorpusInv, NEW bytes \in Nat, Construct(bytes)
    PROVE  CorpusInv'
<1>1. CASE Open
  BY <1>1 DEF Open, Throw, Closes, CorpusInv
<1>2. CASE Stat(bytes)
  BY <1>2 DEF Stat, Throw, Closes, CorpusInv
<1>3. CASE Map
  BY <1>3 DEF Map, Throw, Closes, CorpusInv
<1>4. QED
  BY <1>1, <1>2, <1>3 DEF Construct

LEMMA NextCorpus == CorpusInv /\ [Next]_vars => CorpusInv'
<1> SUFFICES ASSUME CorpusInv, [Next]_vars PROVE CorpusInv'
  OBVIOUS
<1>1. CASE OpenCorpus
  BY <1>1, ConstructKeeps, SizesAreNat DEF OpenCorpus
<1>2. CASE Return
  BY <1>2 DEF Return, Destroyed, CorpusInv, corpusVars
<1>3. CASE UNCHANGED corpusVars
  BY <1>3 DEF corpusVars, CorpusInv
<1>4. CASE object' = "none" /\ fd' = FALSE /\ mapped' = FALSE /\ size' = 0
  BY <1>4 DEF CorpusInv
<1>5. QED
  BY <1>1, <1>2, <1>3, <1>4
     DEF Next, Launch, TakeSwitch, TakeValue, RefuseLine, BuildModel, NoDevice, CorpusReady,
         CorpusThrew, RefuseCorpus, AcceptCorpus, Begin, RefuseResume, LoadThrew,
         DivideByZero, Train, Kill, Record, Refuse, EndAt, vars

LEMMA CorpusAlways == Spec => []CorpusInv
BY InitCorpus, NextCorpus, PTL DEF Spec

\* A corpus that was not built, or is gone, holds no descriptor and no mapping.
THEOREM NothingHeldAlways == Spec => []NothingHeld
<1>1. CorpusInv => NothingHeld
  BY DEF CorpusInv, NothingHeld
<1>2. QED
  BY <1>1, CorpusAlways, PTL

-------------------------------------------------------------------------------
(* The options *)

\* A value of its kind for every option of the program.
Typed(p, o) ==
    /\ p \in Progs
    /\ DOMAIN o = Switches(p) \cup Valued(p)
    /\ \A s \in Switches(p) : o[s] \in BOOLEAN
    /\ \A v \in Valued(p) \ Strings : o[v] \in Int
    /\ o["--seed"] \in 0 .. SeedRange - 1

\* The options of the three programs.
Numeric == {"--d", "--n-layers", "--layers", "--lambda", "--beta", "--seq-len", "--batch",
            "--steps", "--lr", "--eval-every", "--seed", "--block-len", "--ckpt-every"}
LEMMA ValuedIs ==
    /\ Valued("deltanet") = {"--d", "--seq-len", "--batch", "--steps", "--lr", "--eval-every",
                             "--seed", "--ckpt-every"} \cup Strings
                            \cup {"--n-layers", "--lambda", "--block-len"}
    /\ Valued("gru") = {"--d", "--seq-len", "--batch", "--steps", "--lr", "--eval-every",
                        "--seed", "--ckpt-every"} \cup Strings
                       \cup {"--layers", "--block-len"}
    /\ Valued("fw") = {"--d", "--seq-len", "--batch", "--steps", "--lr", "--eval-every",
                       "--seed", "--ckpt-every"} \cup Strings
                      \cup {"--beta", "--lambda"}
BY DEF Valued

\* No option is both a switch and one with a value.
LEMMA KindsApart ==
    ASSUME NEW p \in Progs
    PROVE  /\ Switches(p) \cap Valued(p) = {}
           /\ Valued(p) \ Strings \subseteq Numeric
BY ValuedIs DEF Progs, Switches, Strings, Numeric

\* The defaults are of their kinds.
LEMMA DefaultNumbers == \A o \in Numeric : DefaultNumber(o) \in Int
BY DEF DefaultNumber, Numeric

\* The seed is an option of every program, and a number.
LEMMA SeedIsNumber ==
    ASSUME NEW p \in Progs
    PROVE  "--seed" \in Valued(p) /\ "--seed" \notin Strings /\ "--seed" \notin Switches(p)
BY ValuedIs DEF Progs, Strings, Switches

LEMMA DefaultsTyped ==
    ASSUME NEW p \in Progs
    PROVE  Typed(p, [o \in Switches(p) \cup Valued(p) |-> Default(p, o)])
<1> DEFINE o == [k \in Switches(p) \cup Valued(p) |-> Default(p, k)]
<1>1. "--seed" \in Valued(p) /\ "--seed" \notin Strings /\ "--seed" \notin Switches(p)
  BY SeedIsNumber
<1>2. DefaultNumber("--seed") = 1
  BY DEF DefaultNumber
<1>3. o["--seed"] = 1
  BY <1>1, <1>2 DEF Default
<1>4. o["--seed"] \in 0 .. SeedRange - 1
  BY <1>3, SeedsAreMany
<1>5. QED
  BY <1>4, DefaultNumbers, KindsApart DEF Typed, Default

LEMMA SwitchTyped ==
    ASSUME NEW p, NEW o, Typed(p, o), NEW s \in Switches(p)
    PROVE  Typed(p, [o EXCEPT ![s] = TRUE])
<1>1. s /= "--seed" /\ "--seed" \in DOMAIN o
  BY SeedIsNumber DEF Typed
<1>2. [o EXCEPT ![s] = TRUE]["--seed"] \in 0 .. SeedRange - 1
  BY <1>1 DEF Typed
<1>3. QED
  BY <1>2, KindsApart DEF Typed

LEMMA ValueTyped ==
    ASSUME NEW p, NEW o, Typed(p, o), NEW v \in Valued(p), NEW token
    PROVE  Typed(p, [o EXCEPT ![v] = Meaning(v, token)])
<1>1. Number(token).int \in Int /\ Number(token).real \in Int
      /\ Number(token).seed \in 0 .. SeedRange - 1
  BY NumeralsAreNumbers, SeedsAreMany DEF Number
<1>2. v \notin Strings => Meaning(v, token) \in Int
  BY <1>1, SeedsAreMany DEF Meaning
<1>3. Meaning("--seed", token) \in 0 .. SeedRange - 1
  BY <1>1 DEF Meaning, Strings, Reals
<1>4. "--seed" \in Valued(p)
  BY SeedIsNumber DEF Typed
<1>5. QED
  BY <1>2, <1>3, <1>4, KindsApart DEF Typed

-------------------------------------------------------------------------------
(* The stages of a launch *)

Stages == {"idle", "parse", "corpus", "guard", "resume", "train", "record", "return"}

\* From the guard on the corpus is built, and it is not empty.
StageInv ==
    /\ stage \in Stages
    /\ stage /= "idle" => Typed(prog, opts)
    /\ stage = "parse" => object = "none"
    /\ stage \in {"parse", "corpus", "guard", "resume"} => carried = None
    /\ stage \in {"corpus", "guard"} => ~ IsTask
    /\ stage = "corpus" => ~ Toy
    /\ stage = "guard" /\ ~ Toy => object = "ready"
    /\ stage \in {"resume", "train", "record"} /\ ~ IsTask /\ ~ Toy
         => object = "ready" /\ size /= 0

LEMMA InitStage == Init => StageInv
BY DEF Init, StageInv, Stages

\* No corpus is as empty as to have nothing and still pass the guard.
LEMMA EmptyIsTurnedDown ==
    ASSUME Typed(prog, opts), ~ Toy, size = 0
    PROVE  TurnedDown
<1>1. opts["--seq-len"] \in Int
  BY ValuedIs DEF Typed, Progs, Strings
<1>2. (opts["--seq-len"] + 1) % Word \in Nat
  BY <1>1, WordIsPositive
<1>3. (0 * 0) \div 100 = 0 /\ (0 * 90) \div 100 = 0
  OBVIOUS
<1>4. Split!TrainSpan.len = 0
  BY <1>3 DEF Split!TrainSpan, Split!Slice
<1>5. QED
  BY <1>2, <1>4 DEF TurnedDown, Split!TooSmall

LEMMA NextStage == StageInv /\ [Next]_vars => StageInv'
<1> SUFFICES ASSUME StageInv, [Next]_vars PROVE StageInv'
  OBVIOUS
<1> USE DEF StageInv, Stages
<1>1. ASSUME NEW l \in Launches, Launch(l) PROVE StageInv'
  <2>1. l.prog \in Progs
    BY LaunchesAreCommands
  <2>2. Typed(prog', opts')
    BY <1>1, <2>1, DefaultsTyped DEF Launch
  <2>3. Typed(prog, opts)'
    BY <2>2 DEF Typed
  <2>4. QED
    BY <1>1, <2>3 DEF Launch
<1>2. CASE TakeSwitch
  <2>1. Typed(prog', opts')
    BY <1>2, SwitchTyped DEF TakeSwitch, Parsing
  <2>2. Typed(prog, opts)'
    BY <2>1 DEF Typed
  <2>3. QED
    BY <1>2, <2>2 DEF TakeSwitch, Parsing, corpusVars
<1>3. CASE TakeValue
  <2>1. Typed(prog', opts')
    BY <1>3, ValueTyped DEF TakeValue, Parsing
  <2>2. Typed(prog, opts)'
    BY <2>1 DEF Typed
  <2>3. QED
    BY <1>3, <2>2 DEF TakeValue, Parsing, corpusVars
<1>4. CASE UNCHANGED <<prog, opts>>
  <2>1. Typed(prog, opts)' = Typed(prog, opts) /\ IsTask' = IsTask /\ Toy' = Toy
    BY <1>4 DEF Typed, IsTask, Task, Toy, Path
  <2>2. CASE stage' = "idle"
    BY <2>2
  <2>3. CASE BuildModel
    BY <2>1, <2>3 DEF BuildModel, corpusVars
  <2>4. CASE OpenCorpus
    BY <2>1, <2>4 DEF OpenCorpus, launchVars
  <2>5. CASE CorpusReady
    BY <2>1, <2>5 DEF CorpusReady, corpusVars
  <2>6. CASE AcceptCorpus
    <3>1. ~ Toy => size /= 0
      BY <2>6, EmptyIsTurnedDown DEF AcceptCorpus
    <3>2. QED
      BY <2>1, <2>6, <3>1 DEF AcceptCorpus, corpusVars
  <2>7. CASE RefuseCorpus \/ RefuseResume
    BY <2>1, <2>7 DEF RefuseCorpus, RefuseResume, Refuse
  <2>8. CASE Begin \/ Train
    BY <2>1, <2>8 DEF Begin, Train, corpusVars
  <2>9. CASE Record
    BY <2>1, <2>9 DEF Record
  <2>10. CASE UNCHANGED vars
    BY <2>1, <2>10 DEF vars, corpusVars, launchVars
  <2>11. QED
    BY <2>2, <2>3, <2>4, <2>5, <2>6, <2>7, <2>8, <2>9, <2>10, <1>1, <1>2, <1>3
       DEF Next, RefuseLine, NoDevice, CorpusThrew, LoadThrew, DivideByZero, Kill, Return,
           EndAt
<1>5. QED
  BY <1>1, <1>2, <1>3, <1>4
     DEF Next, RefuseLine, BuildModel, NoDevice, OpenCorpus, CorpusReady, CorpusThrew,
         RefuseCorpus, AcceptCorpus, Refuse, Begin, RefuseResume, LoadThrew, DivideByZero,
         Train, Kill, Record, Return, vars, launchVars

LEMMA StageAlways == Spec => []StageInv
BY InitStage, NextStage, PTL DEF Spec

\* A run has the bytes of its corpus as long as it trains and evaluates on them.
THEOREM SpanBackedAlways == Spec => []SpanBacked
<1>1. CorpusInv /\ StageInv => SpanBacked
  BY DEF CorpusInv, StageInv, SpanBacked
<1>2. QED
  BY <1>1, CorpusAlways, StageAlways, PTL

-------------------------------------------------------------------------------
(* Resuming *)

\* What is in a checkpoint directory was saved by a launch.
SavedInv ==
    \A d \in DOMAIN dirs : Typed(dirs[d].prog, dirs[d].opts)

LEMMA InitSaved == Init => SavedInv
BY DEF Init, SavedInv

LEMMA NextSaved == StageInv /\ SavedInv /\ [Next]_vars => SavedInv'
<1> SUFFICES ASSUME StageInv, SavedInv, [Next]_vars PROVE SavedInv'
  OBVIOUS
<1>1. CASE UNCHANGED dirs
  BY <1>1 DEF SavedInv
<1>2. ASSUME NEW n, SavedAt(n), stage = "train" PROVE SavedInv'
  <2>1. Typed(prog, opts)
    BY <1>2 DEF StageInv
  <2>2. \A d \in DOMAIN dirs' :
          dirs'[d] \in {[prog |-> prog, opts |-> opts, step |-> n]} \cup {dirs[e] : e \in DOMAIN dirs}
    BY <1>2 DEF SavedAt
  <2>3. QED
    BY <2>1, <2>2 DEF SavedInv
<1>3. CASE Train
  BY <1>1, <1>2, <1>3 DEF Train
<1>4. CASE Kill
  BY <1>1, <1>2, <1>4 DEF Kill
<1>5. QED
  BY <1>1, <1>3, <1>4
     DEF Next, Launch, TakeSwitch, TakeValue, RefuseLine, BuildModel, NoDevice, OpenCorpus,
         CorpusReady, CorpusThrew, RefuseCorpus, AcceptCorpus, Refuse, Begin, RefuseResume,
         LoadThrew, DivideByZero, Record, Return, vars, launchVars

LEMMA SavedAlways == Spec => []SavedInv
BY InitSaved, NextSaved, StageAlways, PTL DEF Spec

\* Six digits after the point tell two reals apart that differ by 10^-6.
LEMMA SixDigitsTell ==
    ASSUME NEW x \in Int, NEW y \in Int, SixDigits(x) = SixDigits(y)
    PROVE  Near(x, y)
BY DEF SixDigits, Near

\* An added map leaves the entries that were there, and adds its own.
LEMMA WithAdds ==
    ASSUME NEW f, NEW g
    PROVE  /\ DOMAIN With(f, g) = DOMAIN f \cup DOMAIN g
           /\ \A k \in DOMAIN f : With(f, g)[k] = f[k]
           /\ \A k \in DOMAIN g : k \notin DOMAIN f => With(f, g)[k] = g[k]
BY DEF With

\* Equal fingerprints come from equal configs, but for the last digit of reals.
LEMMA FingerprintsTell ==
    ASSUME NEW p, NEW q, NEW c, NEW e, Fingerprint(p, c) = Fingerprint(q, e)
    PROVE  /\ p = q /\ DOMAIN c = DOMAIN e
           /\ \A k \in DOMAIN c \ {"lambda", "beta"} : c[k] = e[k]
           /\ \A k \in DOMAIN c \cap {"lambda", "beta"} : SixDigits(c[k]) = SixDigits(e[k])
<1> DEFINE Digits(m) == [k \in DOMAIN m |->
                          IF k \in {"lambda", "beta"} THEN SixDigits(m[k]) ELSE m[k]]
<1>1. p = q /\ Digits(c) = Digits(e)
  BY DEF Fingerprint
<1>2. DOMAIN c = DOMAIN e
  BY <1>1
<1>3. \A k \in DOMAIN c : Digits(c)[k] = Digits(e)[k]
  BY <1>1
<1>4. QED
  BY <1>1, <1>2, <1>3

LEMMA ConfigIs ==
    ASSUME NEW o
    PROVE  /\ Config("deltanet", o) = DeltaNetConfig(o)
           /\ Config("gru", o) = GruConfig(o)
           /\ Config("fw", o) = FastWeightsConfig(o)
BY DEF Config

LEMMA ParamsIs ==
    ASSUME NEW o
    PROVE  /\ Params("deltanet", o) = DeltaNetParams(o)
           /\ Params("gru", o) = GruParams(o)
           /\ Params("fw", o) = FastWeightsParams
BY DEF Params

\* What the config of deltanet says of its options.
LEMMA DeltaNetKeys ==
    ASSUME NEW o, Typed("deltanet", o)
    PROVE  LET c == DeltaNetConfig(o) IN
           /\ DOMAIN c = {"d", "n_layers", "lambda", "use_gate", "use_delta", "learn_lambda",
                          "no_decay", "normalize_keys", "use_mlp"}
           /\ c["d"] = o["--d"] /\ c["n_layers"] = o["--n-layers"]
           /\ c["lambda"] = o["--lambda"]
           /\ c["use_gate"] = Not(o["--no-gate"])
           /\ c["use_delta"] = Not(o["--hebbian"])
           /\ c["learn_lambda"] = As01(o["--learn-lambda"])
           /\ c["no_decay"] = As01(o["--no-decay"])
           /\ c["normalize_keys"] = Not(o["--no-key-norm"])
           /\ c["use_mlp"] = Not(o["--no-mlp"])
<1> DEFINE f == [d |-> o["--d"], n_layers |-> o["--n-layers"], lambda |-> o["--lambda"]]
           g == SwitchConfig(o)
<1>1. DeltaNetConfig(o) = With(f, g)
  BY DEF DeltaNetConfig
<1>2. DOMAIN f = {"d", "n_layers", "lambda"}
      /\ f["d"] = o["--d"] /\ f["n_layers"] = o["--n-layers"] /\ f["lambda"] = o["--lambda"]
  OBVIOUS
<1>3. /\ DOMAIN g = {"use_gate", "use_delta", "learn_lambda", "no_decay",
                     "normalize_keys", "use_mlp"}
      /\ g["use_gate"] = Not(o["--no-gate"])
      /\ g["use_delta"] = Not(o["--hebbian"])
      /\ g["learn_lambda"] = As01(o["--learn-lambda"])
      /\ g["no_decay"] = As01(o["--no-decay"])
      /\ g["normalize_keys"] = Not(o["--no-key-norm"])
      /\ g["use_mlp"] = Not(o["--no-mlp"])
  BY DEF SwitchConfig
<1> HIDE DEF f, g
<1>4. /\ DOMAIN With(f, g) = DOMAIN f \cup DOMAIN g
      /\ \A k \in DOMAIN f : With(f, g)[k] = f[k]
      /\ \A k \in DOMAIN g : k \notin DOMAIN f => With(f, g)[k] = g[k]
  BY WithAdds
<1> HIDE DEF With
<1>5. /\ With(f, g)["d"] = o["--d"] /\ With(f, g)["n_layers"] = o["--n-layers"]
      /\ With(f, g)["lambda"] = o["--lambda"]
  BY <1>2, <1>4
<1>6. /\ With(f, g)["use_gate"] = g["use_gate"]
      /\ With(f, g)["use_delta"] = g["use_delta"]
      /\ With(f, g)["learn_lambda"] = g["learn_lambda"]
      /\ With(f, g)["no_decay"] = g["no_decay"]
      /\ With(f, g)["normalize_keys"] = g["normalize_keys"]
      /\ With(f, g)["use_mlp"] = g["use_mlp"]
  BY <1>2, <1>3, <1>4
<1>7. QED
  BY <1>1, <1>2, <1>3, <1>4, <1>5, <1>6

\* Two models with one fingerprint are the same model.
LEMMA FingerprintIsModel ==
    ASSUME NEW p, NEW o, Typed(p, o), NEW q, NEW r, Typed(q, r),
           Fingerprint(p, Config(p, o)) = Fingerprint(q, Config(q, r))
    PROVE  SameModel(p, o, q, r)
<1> DEFINE c == Config(p, o)
           e == Config(q, r)
<1>1. /\ p = q /\ p \in Progs
      /\ \A k \in DOMAIN c \ {"lambda", "beta"} : c[k] = e[k]
      /\ \A k \in DOMAIN c \cap {"lambda", "beta"} : SixDigits(c[k]) = SixDigits(e[k])
  BY FingerprintsTell DEF Typed
<1>2. CASE p = "deltanet"
  <2>1. c = DeltaNetConfig(o) /\ e = DeltaNetConfig(r)
    BY <1>1, <1>2, ConfigIs
  <2>2. \A a, b \in BOOLEAN : (Not(a) = Not(b) => a = b) /\ (As01(a) = As01(b) => a = b)
    BY DEF Not, As01
  <2>3. \A s \in {"--no-gate", "--hebbian", "--learn-lambda", "--no-decay", "--no-key-norm",
                  "--no-mlp"} : o[s] \in BOOLEAN /\ r[s] \in BOOLEAN
    BY <1>1, <1>2 DEF Typed, Switches
  <2>4. /\ o["--d"] = r["--d"] /\ o["--n-layers"] = r["--n-layers"]
        /\ SixDigits(o["--lambda"]) = SixDigits(r["--lambda"])
    BY <1>1, <1>2, <2>1, DeltaNetKeys
  <2>5. /\ o["--no-gate"] = r["--no-gate"] /\ o["--hebbian"] = r["--hebbian"]
        /\ o["--learn-lambda"] = r["--learn-lambda"] /\ o["--no-decay"] = r["--no-decay"]
        /\ o["--no-key-norm"] = r["--no-key-norm"] /\ o["--no-mlp"] = r["--no-mlp"]
    <3>1. /\ Not(o["--no-gate"]) = Not(r["--no-gate"])
          /\ Not(o["--hebbian"]) = Not(r["--hebbian"])
          /\ As01(o["--learn-lambda"]) = As01(r["--learn-lambda"])
          /\ As01(o["--no-decay"]) = As01(r["--no-decay"])
          /\ Not(o["--no-key-norm"]) = Not(r["--no-key-norm"])
          /\ Not(o["--no-mlp"]) = Not(r["--no-mlp"])
      BY <1>1, <1>2, <2>1, DeltaNetKeys
    <3>2. QED
      BY <2>2, <2>3, <3>1
  <2>6. Params(p, o) = Params(q, r)
    <3>1. MixParams(o) = MixParams(r)
      BY <2>5 DEF MixParams
    <3>2. BlockParams(o) = BlockParams(r)
      BY <2>5, <3>1 DEF BlockParams
    <3>3. DeltaNetParams(o) = DeltaNetParams(r)
      BY <2>4, <3>2 DEF DeltaNetParams
    <3>4. QED
      BY <1>1, <1>2, <3>3, ParamsIs
  <2>7. o["--lambda"] \in Int /\ r["--lambda"] \in Int
    BY <1>1, <1>2, ValuedIs DEF Typed, Strings
  <2>8. QED
    BY <1>1, <1>2, <2>4, <2>5, <2>6, <2>7, SixDigitsTell DEF SameModel
<1>3. CASE p = "gru"
  <2>1. c = GruConfig(o) /\ e = GruConfig(r)
    BY <1>1, <1>3, ConfigIs
  <2>2. o["--d"] = r["--d"] /\ o["--layers"] = r["--layers"]
    BY <1>1, <2>1 DEF GruConfig
  <2>3. Params(p, o) = Params(q, r)
    BY <1>1, <1>3, <2>2, ParamsIs DEF GruParams
  <2>4. QED
    BY <1>1, <1>3, <2>2, <2>3 DEF SameModel
<1>4. CASE p = "fw"
  <2>1. c = FastWeightsConfig(o) /\ e = FastWeightsConfig(r)
    BY <1>1, <1>4, ConfigIs
  <2>2. /\ o["--d"] = r["--d"] /\ SixDigits(o["--lambda"]) = SixDigits(r["--lambda"])
        /\ SixDigits(o["--beta"]) = SixDigits(r["--beta"])
    BY <1>1, <2>1 DEF FastWeightsConfig
  <2>3. Params(p, o) = Params(q, r)
    BY <1>1, <1>4, ParamsIs
  <2>4. /\ o["--lambda"] \in Int /\ r["--lambda"] \in Int
        /\ o["--beta"] \in Int /\ r["--beta"] \in Int
    BY <1>1, <1>4, ValuedIs DEF Typed, Strings
  <2>5. QED
    BY <1>1, <1>4, <2>2, <2>3, <2>4, SixDigitsTell DEF SameModel
<1>5. QED
  BY <1>1, <1>2, <1>3, <1>4 DEF Progs

LEMMA NextSameModel ==
    StageInv /\ SavedInv /\ ResumeSameModel /\ [Next]_vars => ResumeSameModel'
<1> SUFFICES ASSUME StageInv, SavedInv, ResumeSameModel, [Next]_vars, carried' /= None
             PROVE  SameModel(carried'.prog, carried'.opts, prog', opts')
  BY DEF ResumeSameModel
<1>1. CASE Begin
  <2>1. carried' = Latest /\ Resumes /\ Fits /\ UNCHANGED <<prog, opts>>
    BY <1>1 DEF Begin
  <2>2. Typed(prog, opts) /\ Typed(Latest.prog, Latest.opts)
    BY <1>1, <2>1 DEF Begin, StageInv, SavedInv, Resumes, Latest
  <2>3. QED
    BY <2>1, <2>2, FingerprintIsModel DEF Fits
<1>2. CASE UNCHANGED <<carried, prog, opts>>
  BY <1>2 DEF ResumeSameModel
<1>3. QED
  BY <1>1, <1>2
     DEF Next, StageInv, Launch, TakeSwitch, TakeValue, Parsing, RefuseLine, BuildModel,
         NoDevice, OpenCorpus, CorpusReady, CorpusThrew, RefuseCorpus, AcceptCorpus, Refuse,
         RefuseResume, LoadThrew, DivideByZero, Train, Kill, Record, Return, vars, launchVars

\* A run goes on only from weights that its own model has trained: equal
\* fingerprints leave no difference but in the seventh digit of a real.
THEOREM ResumeSameModelAlways == Spec => []ResumeSameModel
<1>1. Init => ResumeSameModel
  BY DEF Init, ResumeSameModel
<1>2. QED
  BY <1>1, NextSameModel, StageAlways, SavedAlways, PTL DEF Spec

-------------------------------------------------------------------------------
(* The command line *)

\* The first token is an option, and every other one that is no option's value.
LEMMA OptionsAre ==
    ASSUME NEW p, NEW line, Len(line) \in Nat
    PROVE  /\ OptionAt(p, line) \subseteq 1 .. Len(line)
           /\ \A i \in 1 .. Len(line) : i \in OptionAt(p, line)
                <=> (i = 1 \/ ~ (i - 1 \in OptionAt(p, line) /\ line[i - 1] \in Valued(p)))
<1> DEFINE n == Len(line)
           Starts(f, i) == i = 1 \/ ~ (f[i - 1] /\ line[i - 1] \in Valued(p))
           Reading(f, k) == f \in [1 .. k -> BOOLEAN] /\ \A i \in 1 .. k : f[i] = Starts(f, i)
           S == {k \in 0 .. n : \E f : Reading(f, k)}
<1>1. 0 \in S
  <2>1. Reading([i \in 1 .. 0 |-> TRUE], 0)
    OBVIOUS
  <2> HIDE DEF Reading
  <2>2. QED
    BY <2>1
<1>2. ASSUME NEW k \in 0 .. n - 1, k \in S PROVE k + 1 \in S
  <2>1. PICK f : Reading(f, k)
    BY <1>2
  <2> DEFINE b == Starts(f, k + 1)
             g == [i \in 1 .. k + 1 |-> IF i = k + 1 THEN b ELSE f[i]]
  <2>2. b \in BOOLEAN
    OBVIOUS
  <2> HIDE DEF b
  <2>3. \A i \in 1 .. k : g[i] = f[i]
    OBVIOUS
  <2>4. g[k + 1] = b
    OBVIOUS
  <2>5. g \in [1 .. k + 1 -> BOOLEAN]
    BY <2>1, <2>2
  <2> HIDE DEF g
  <2>6. \A i \in 1 .. k : Starts(g, i) = Starts(f, i)
    <3>1. TAKE i \in 1 .. k
    <3>2. CASE i = 1
      BY <3>2
    <3>3. CASE i /= 1
      <4>1. i - 1 \in 1 .. k
        BY <3>3
      <4>2. QED
        BY <2>3, <3>3, <4>1
    <3>4. QED
      BY <3>2, <3>3
  <2>7. Starts(g, k + 1) = b
    <3>1. CASE k = 0
      BY <3>1 DEF b
    <3>2. CASE k /= 0
      <4>1. k \in 1 .. k /\ (k + 1) - 1 = k
        BY <3>2
      <4>2. g[(k + 1) - 1] = f[(k + 1) - 1]
        BY <2>3, <4>1
      <4>3. QED
        BY <4>2 DEF b
    <3>3. QED
      BY <3>1, <3>2
  <2>8. \A i \in 1 .. k + 1 : g[i] = Starts(g, i)
    <3>1. TAKE i \in 1 .. k + 1
    <3>2. CASE i = k + 1
      BY <2>4, <2>7, <3>2
    <3>3. CASE i \in 1 .. k
      <4>1. f[i] = Starts(f, i)
        BY <2>1, <3>3
      <4>2. QED
        BY <2>3, <2>6, <3>3, <4>1
    <3>4. QED
      BY <3>2, <3>3
  <2>9. Reading(g, k + 1)
    BY <2>5, <2>8
  <2>10. QED
    BY <2>9
<1> HIDE DEF S
<1>3. 0 .. n \subseteq S
  BY <1>1, <1>2, BoundedInduction
<1>4. PICK f : Reading(f, n)
  BY <1>3 DEF S
<1>5. f = [i \in 1 .. n |-> Starts(f, i)]
  BY <1>4
<1> DEFINE opt == CHOOSE h : h = [i \in 1 .. n |-> Starts(h, i)]
<1>6. opt = [i \in 1 .. n |-> Starts(opt, i)]
  BY <1>5
<1>7. OptionAt(p, line) = {i \in 1 .. n : opt[i]}
  BY DEF OptionAt
<1> HIDE DEF opt
<1>8. \A i \in 1 .. n : opt[i] = Starts(opt, i)
  BY <1>6
<1>9. ASSUME NEW i \in 1 .. n
      PROVE  i \in OptionAt(p, line)
               <=> (i = 1 \/ ~ (i - 1 \in OptionAt(p, line) /\ line[i - 1] \in Valued(p)))
  <2>1. i \in OptionAt(p, line) <=> Starts(opt, i)
    BY <1>7, <1>8
  <2>2. CASE i = 1
    BY <2>1, <2>2
  <2>3. CASE i /= 1
    <3>1. i - 1 \in 1 .. n
      BY <2>3
    <3>2. i - 1 \in OptionAt(p, line) <=> opt[i - 1]
      BY <1>7, <3>1
    <3>3. QED
      BY <2>1, <3>2
  <2>4. QED
    BY <2>2, <2>3
<1>10. QED
  BY <1>7, <1>9

\* The number of tokens read so far.
Read == Len(argv) - Len(rest)
\* What an option is told up to there.
Before(p, line, o, n) == {i \in Given(p, line, o) : i <= n}
Said(p, line, o, at) ==
    IF at = {} THEN Default(p, o)
    ELSE Meaning(o, line[(CHOOSE i \in at : \A j \in at : j <= i) + 1])

\* main reads at an option, and every option has what it was told last.
LineInv ==
    stage /= "idle" =>
        /\ Len(argv) \in Nat
        /\ stage = "parse" =>
              /\ rest \in Seq(STRING) /\ Read \in Nat
              /\ \A j \in 1 .. Len(rest) : rest[j] = argv[Read + j]
              /\ rest /= << >> => Read + 1 \in OptionAt(prog, argv)
              /\ \A v \in Valued(prog) :
                    opts[v] = Said(prog, argv, v, Before(prog, argv, v, Read))
              /\ \A s \in Switches(prog) : opts[s] = (Before(prog, argv, s, Read) /= {})
        /\ stage /= "parse" =>
              /\ \A v \in Valued(prog) : opts[v] = Told(prog, argv, v)
              /\ \A s \in Switches(prog) : opts[s] = (Given(prog, argv, s) /= {})

LEMMA InitLine == Init => LineInv
BY DEF Init, LineInv

\* The last of some positions, all before the one that is added.
LEMMA LastSaid ==
    ASSUME NEW at \in SUBSET Nat, NEW i \in Nat, \A j \in at : j < i
    PROVE  \A p, line, o : Said(p, line, o, at \cup {i}) = Meaning(o, line[i + 1])
<1> DEFINE all == at \cup {i}
<1>1. \A j \in all : j <= i
  OBVIOUS
<1>2. \A k \in all : (\A j \in all : j <= k) => k = i
  BY <1>1
<1>3. (CHOOSE k \in all : \A j \in all : j <= k) = i
  BY <1>1, <1>2
<1>4. QED
  BY <1>3 DEF Said

LEMMA LaunchLine == ASSUME NEW l \in Launches, Launch(l) PROVE LineInv'
<1>1. l.argv \in Seq(STRING) /\ l.prog \in Progs
  BY LaunchesAreCommands
<1>2. /\ argv' = l.argv /\ rest' = l.argv /\ prog' = l.prog /\ stage' = "parse"
      /\ opts' = [o \in Switches(l.prog) \cup Valued(l.prog) |-> Default(l.prog, o)]
  BY DEF Launch
<1> DEFINE p == l.prog
           line == l.argv
<1>3. Len(line) \in Nat
  BY <1>1
<1>4. Read' = 0
  BY <1>2, <1>3 DEF Read
<1>5. \A o : Before(p, line, o, 0) = {}
  BY <1>3, OptionsAre DEF Before, Given
<1>6. \A v \in Valued(p) : opts'[v] = Said(p, line, v, Before(p, line, v, 0))
  BY <1>2, <1>5 DEF Said
<1>7. \A s \in Switches(p) : opts'[s] = (Before(p, line, s, 0) /= {})
  BY <1>2, <1>5 DEF Default
<1>8. line /= << >> => 0 + 1 \in OptionAt(p, line)
  BY <1>1, <1>3, OptionsAre
<1>9. \A j \in 1 .. Len(line) : line[j] = line[0 + j]
  OBVIOUS
<1> HIDE DEF p, line
<1>10. /\ Len(line) \in Nat /\ line \in Seq(STRING)
       /\ argv' = line /\ rest' = line /\ prog' = p
  BY <1>1, <1>2, <1>3 DEF p, line
<1>11. QED
  BY <1>2, <1>4, <1>6, <1>7, <1>8, <1>9, <1>10 DEF LineInv

\* After a switch, the next token is an option.
LEMMA SwitchLine == ASSUME StageInv, LineInv, TakeSwitch PROVE LineInv'
<1> DEFINE h == Head(rest)
           n == Read
<1>1. /\ stage = "parse" /\ rest /= << >> /\ h \in Switches(prog)
      /\ opts' = [opts EXCEPT ![h] = TRUE] /\ rest' = Tail(rest)
      /\ stage' = stage /\ prog' = prog /\ argv' = argv
  BY DEF TakeSwitch, Parsing
<1>2. /\ Len(argv) \in Nat /\ rest \in Seq(STRING) /\ n \in Nat
      /\ \A j \in 1 .. Len(rest) : rest[j] = argv[n + j]
      /\ n + 1 \in OptionAt(prog, argv)
      /\ \A v \in Valued(prog) : opts[v] = Said(prog, argv, v, Before(prog, argv, v, n))
      /\ \A s \in Switches(prog) : opts[s] = (Before(prog, argv, s, n) /= {})
  BY <1>1 DEF LineInv
<1>3. prog \in Progs /\ DOMAIN opts = Switches(prog) \cup Valued(prog)
  BY <1>1 DEF StageInv, Typed
<1>4. Len(rest) \in Nat \ {0} /\ Len(rest') = Len(rest) - 1 /\ Read' = n + 1
  BY <1>1, <1>2 DEF Read
<1>5. h = argv[n + 1]
  BY <1>1, <1>2, <1>4
<1>6. \A j \in 1 .. Len(rest') : rest'[j] = argv[(n + 1) + j]
  <2>1. TAKE j \in 1 .. Len(rest')
  <2>2. rest'[j] = rest[j + 1] /\ j + 1 \in 1 .. Len(rest)
    BY <1>1, <1>2, <1>4
  <2>3. n + (j + 1) = (n + 1) + j
    BY <1>2, <1>4
  <2>4. QED
    BY <1>2, <2>2, <2>3
<1>7. h \notin Valued(prog)
  BY <1>1, <1>3, KindsApart
<1>8. rest' /= << >> => (n + 1) + 1 \in OptionAt(prog, argv)
  <2>1. SUFFICES ASSUME rest' /= << >> PROVE (n + 1) + 1 \in OptionAt(prog, argv)
    OBVIOUS
  <2>2. Len(rest') \in Nat \ {0}
    BY <1>1, <1>2, <1>4, <2>1
  <2>3. (n + 1) + 1 \in 1 .. Len(argv)
    BY <1>2, <1>4, <2>2 DEF Read
  <2>4. ((n + 1) + 1) - 1 = n + 1
    BY <1>2
  <2>5. QED
    BY <1>2, <1>5, <1>7, <2>3, <2>4, OptionsAre
<1>9. /\ \A o : o /= h => Before(prog, argv, o, n + 1) = Before(prog, argv, o, n)
      /\ n + 1 \in Before(prog, argv, h, n + 1)
  <2>1. OptionAt(prog, argv) \subseteq Nat
    BY <1>2, OptionsAre
  <2>2. \A i \in Nat : i <= n + 1 <=> (i <= n \/ i = n + 1)
    BY <1>2
  <2>3. QED
    BY <1>2, <1>5, <2>1, <2>2 DEF Before, Given
<1>10. \A v \in Valued(prog) : opts'[v] = Said(prog, argv, v, Before(prog, argv, v, n + 1))
  BY <1>1, <1>2, <1>3, <1>7, <1>9
<1>11. \A s \in Switches(prog) : opts'[s] = (Before(prog, argv, s, n + 1) /= {})
  BY <1>1, <1>2, <1>3, <1>9
<1>12. /\ rest' \in Seq(STRING) /\ n + 1 \in Nat
       /\ stage' = "parse" /\ prog' = prog /\ argv' = argv
  BY <1>1, <1>2
<1> HIDE DEF n, h
<1>13. QED
  BY <1>2, <1>4, <1>6, <1>8, <1>10, <1>11, <1>12 DEF LineInv

\* After an option with its value, the token after the value is an option.
LEMMA ValueLine == ASSUME StageInv, LineInv, TakeValue PROVE LineInv'
<1> DEFINE h == Head(rest)
           n == Read
<1>1. /\ stage = "parse" /\ rest /= << >> /\ h \in Valued(prog) /\ Len(rest) > 1
      /\ opts' = [opts EXCEPT ![h] = Meaning(h, rest[2])] /\ rest' = Tail(Tail(rest))
      /\ stage' = stage /\ prog' = prog /\ argv' = argv
  BY DEF TakeValue, Parsing
<1>2. /\ Len(argv) \in Nat /\ rest \in Seq(STRING) /\ n \in Nat
      /\ \A j \in 1 .. Len(rest) : rest[j] = argv[n + j]
      /\ n + 1 \in OptionAt(prog, argv)
      /\ \A v \in Valued(prog) : opts[v] = Said(prog, argv, v, Before(prog, argv, v, n))
      /\ \A s \in Switches(prog) : opts[s] = (Before(prog, argv, s, n) /= {})
  BY <1>1 DEF LineInv
<1>3. prog \in Progs /\ DOMAIN opts = Switches(prog) \cup Valued(prog)
  BY <1>1 DEF StageInv, Typed
<1>4. /\ Len(rest) \in Nat /\ Len(rest) >= 2 /\ Len(rest') = Len(rest) - 2
      /\ Read' = n + 2 /\ rest' \in Seq(STRING)
      /\ \A j \in 1 .. Len(rest') : rest'[j] = rest[j + 2]
  <2>1. Len(rest) \in Nat /\ Len(rest) >= 2
    BY <1>1, <1>2
  <2>2. /\ Tail(rest) \in Seq(STRING) /\ Len(Tail(rest)) = Len(rest) - 1
        /\ \A j \in 1 .. Len(rest) - 1 : Tail(rest)[j] = rest[j + 1]
    BY <1>1, <1>2, <2>1
  <2> DEFINE t == Tail(rest)
  <2> HIDE DEF t
  <2>3. t \in Seq(STRING) /\ Len(t) = Len(rest) - 1 /\ t /= << >>
    <3>1. t \in Seq(STRING) /\ Len(t) = Len(rest) - 1
      BY <2>2 DEF t
    <3>2. QED
      BY <2>1, <3>1
  <2>4. /\ Tail(t) \in Seq(STRING) /\ Len(Tail(t)) = Len(t) - 1
        /\ \A j \in 1 .. Len(t) - 1 : Tail(t)[j] = t[j + 1]
    BY <2>3
  <2>5. rest' = Tail(t)
    BY <1>1 DEF t
  <2>6. Len(rest') = Len(rest) - 2 /\ rest' \in Seq(STRING)
    BY <2>1, <2>3, <2>4, <2>5
  <2>7. \A j \in 1 .. Len(rest') : rest'[j] = rest[j + 2]
    <3>1. TAKE j \in 1 .. Len(rest')
    <3>2. rest'[j] = t[j + 1]
      BY <2>1, <2>3, <2>4, <2>5, <2>6
    <3>3. j + 1 \in 1 .. Len(rest) - 1 /\ (j + 1) + 1 = j + 2
      BY <2>1, <2>6
    <3>4. QED
      BY <2>2, <3>2, <3>3 DEF t
  <2>8. Read' = n + 2
    <3>1. argv' = argv /\ Len(argv) \in Nat
      BY <1>1, <1>2
    <3>2. QED
      BY <2>1, <2>6, <3>1 DEF Read
  <2>9. QED
    BY <2>1, <2>6, <2>7, <2>8
<1>5. h = argv[n + 1] /\ rest[2] = argv[n + 2]
  <2>1. 1 \in 1 .. Len(rest) /\ 2 \in 1 .. Len(rest)
    BY <1>4
  <2>2. h = rest[1]
    BY <1>1, <1>2
  <2>3. QED
    BY <1>2, <2>1, <2>2
<1>6. \A j \in 1 .. Len(rest') : rest'[j] = argv[(n + 2) + j]
  <2>1. TAKE j \in 1 .. Len(rest')
  <2>2. rest'[j] = rest[j + 2] /\ j + 2 \in 1 .. Len(rest)
    BY <1>4
  <2>3. n + (j + 2) = (n + 2) + j
    BY <1>2, <1>4
  <2>4. QED
    BY <1>2, <2>2, <2>3
<1>7. h \notin Switches(prog)
  BY <1>1, <1>3, KindsApart
<1>8. n + 2 \in 1 .. Len(argv) /\ n + 2 \notin OptionAt(prog, argv)
  <2>1. n + 2 \in 1 .. Len(argv) /\ (n + 2) - 1 = n + 1 /\ n + 2 /= 1
    BY <1>2, <1>4 DEF Read
  <2>2. QED
    BY <1>1, <1>2, <1>5, <2>1, OptionsAre
<1>9. rest' /= << >> => (n + 2) + 1 \in OptionAt(prog, argv)
  <2>1. SUFFICES ASSUME rest' /= << >> PROVE (n + 2) + 1 \in OptionAt(prog, argv)
    OBVIOUS
  <2>2. Len(rest') \in Nat \ {0}
    BY <1>1, <1>2, <1>4, <2>1
  <2>3. (n + 2) + 1 \in 1 .. Len(argv)
    BY <1>2, <1>4, <2>2 DEF Read
  <2>4. ((n + 2) + 1) - 1 = n + 2
    BY <1>2
  <2>5. QED
    BY <1>2, <1>8, <2>3, <2>4, OptionsAre
<1>10. /\ \A o : o /= h => Before(prog, argv, o, n + 2) = Before(prog, argv, o, n)
       /\ Before(prog, argv, h, n + 2) = Before(prog, argv, h, n) \cup {n + 1}
  <2>1. OptionAt(prog, argv) \subseteq Nat
    BY <1>2, OptionsAre
  <2>2. \A i \in Nat : i <= n + 2 <=> (i <= n \/ i = n + 1 \/ i = n + 2)
    BY <1>2
  <2>3. \A o : Before(prog, argv, o, n + 2)
               = Before(prog, argv, o, n) \cup {i \in {n + 1} : argv[i] = o}
    BY <1>2, <1>8, <2>1, <2>2 DEF Before, Given
  <2> HIDE DEF n, h
  <2>4. QED
    BY <1>5, <2>3
<1>11. Said(prog, argv, h, Before(prog, argv, h, n + 2)) = Meaning(h, argv[n + 2])
  <2>1. Before(prog, argv, h, n) \in SUBSET Nat
    BY <1>2, OptionsAre DEF Before, Given
  <2>2. \A j \in Before(prog, argv, h, n) : j < n + 1
    BY <1>2, <2>1 DEF Before
  <2>3. n + 1 \in Nat /\ (n + 1) + 1 = n + 2
    BY <1>2
  <2> HIDE DEF n, h
  <2>4. Said(prog, argv, h, Before(prog, argv, h, n) \cup {n + 1})
          = Meaning(h, argv[(n + 1) + 1])
    <3> DEFINE at == Before(prog, argv, h, n)
               i == n + 1
    <3>1. at \in SUBSET Nat /\ i \in Nat /\ \A j \in at : j < i
      BY <2>1, <2>2, <2>3
    <3> HIDE DEF at, i
    <3>2. \A p, line, o : Said(p, line, o, at \cup {i}) = Meaning(o, line[i + 1])
      BY <3>1, LastSaid, SMTT(30)
    <3>3. QED
      BY <3>2 DEF at, i
  <2>5. QED
    BY <1>10, <2>3, <2>4
<1>12. \A v \in Valued(prog) : opts'[v] = Said(prog, argv, v, Before(prog, argv, v, n + 2))
  BY <1>1, <1>2, <1>3, <1>5, <1>10, <1>11
<1>13. \A s \in Switches(prog) : opts'[s] = (Before(prog, argv, s, n + 2) /= {})
  BY <1>1, <1>2, <1>3, <1>7, <1>10
<1>14. /\ rest' \in Seq(STRING) /\ n + 2 \in Nat
       /\ stage' = "parse" /\ prog' = prog /\ argv' = argv
  BY <1>1, <1>2, <1>4
<1> HIDE DEF n, h
<1>15. QED
  BY <1>2, <1>4, <1>6, <1>9, <1>12, <1>13, <1>14 DEF LineInv

\* With nothing left, every option has what the whole line tells it.
LEMMA BuildLine == ASSUME StageInv, LineInv, BuildModel PROVE LineInv'
<1>1. /\ stage = "parse" /\ rest = << >> /\ stage' \in {"resume", "guard", "corpus"}
      /\ prog' = prog /\ argv' = argv /\ opts' = opts
  BY DEF BuildModel
<1>2. Len(argv) \in Nat /\ Read = Len(argv)
  BY <1>1 DEF LineInv, Read
<1>3. \A o : Before(prog, argv, o, Read) = Given(prog, argv, o)
  BY <1>2, OptionsAre DEF Before, Given
<1>4. \A o : Said(prog, argv, o, Given(prog, argv, o)) = Told(prog, argv, o)
  BY DEF Said, Told
<1>5. /\ \A v \in Valued(prog) : opts[v] = Told(prog, argv, v)
      /\ \A s \in Switches(prog) : opts[s] = (Given(prog, argv, s) /= {})
  BY <1>1, <1>3, <1>4 DEF LineInv
<1>6. QED
  BY <1>1, <1>2, <1>5 DEF LineInv

LEMMA NextLine == StageInv /\ LineInv /\ [Next]_vars => LineInv'
<1> SUFFICES ASSUME StageInv, LineInv, [Next]_vars PROVE LineInv'
  OBVIOUS
<1>1. CASE stage' = "idle"
  BY <1>1 DEF LineInv
<1>2. CASE UNCHANGED <<stage, prog, argv, rest, opts>>
  BY <1>2 DEF LineInv, Read
<1>3. CASE /\ stage \notin {"idle", "parse"} /\ stage' /= "parse"
           /\ UNCHANGED <<prog, argv, opts>>
  BY <1>3 DEF LineInv
<1>4. QED
  BY <1>1, <1>2, <1>3, LaunchLine, SwitchLine, ValueLine, BuildLine
     DEF Next, RefuseLine, NoDevice, OpenCorpus, CorpusReady, CorpusThrew, RefuseCorpus,
         AcceptCorpus, Refuse, Begin, RefuseResume, LoadThrew, DivideByZero, Train, Kill,
         Record, Return, EndAt, vars, launchVars

LEMMA LineAlways == Spec => []LineInv
BY InitLine, NextLine, StageAlways, PTL DEF Spec

-------------------------------------------------------------------------------
(* The record *)

\* What the config of the run says of its options.
LEMMA RunKeys ==
    /\ {"seq_len", "batch", "steps", "lr"} \subseteq DOMAIN RunConfig
    /\ RunConfig["seq_len"] = opts["--seq-len"] /\ RunConfig["batch"] = opts["--batch"]
    /\ RunConfig["steps"] = opts["--steps"] /\ RunConfig["lr"] = opts["--lr"]
    /\ Task = "parity" =>
          /\ "block_len" \in DOMAIN RunConfig
          /\ prog /= "fw" => RunConfig["block_len"] = opts["--block-len"]
<1> DEFINE f == [seq_len |-> opts["--seq-len"], batch |-> opts["--batch"],
                 steps |-> opts["--steps"], lr |-> opts["--lr"]]
           g == IF Task = "parity"
                THEN [block_len |-> IF prog = "fw" THEN 16 ELSE opts["--block-len"]]
                ELSE IF Task = "induction" THEN [dict_size |-> 16, key_len |-> 4] ELSE << >>
<1>1. RunConfig = With(f, g)
  BY DEF RunConfig
<1>2. DOMAIN f = {"seq_len", "batch", "steps", "lr"}
      /\ f["seq_len"] = opts["--seq-len"] /\ f["batch"] = opts["--batch"]
      /\ f["steps"] = opts["--steps"] /\ f["lr"] = opts["--lr"]
  OBVIOUS
<1>3. Task = "parity" => /\ DOMAIN g = {"block_len"}
                         /\ prog /= "fw" => g["block_len"] = opts["--block-len"]
  OBVIOUS
<1> HIDE DEF f, g
<1>4. /\ DOMAIN With(f, g) = DOMAIN f \cup DOMAIN g
      /\ \A k \in DOMAIN f : With(f, g)[k] = f[k]
      /\ \A k \in DOMAIN g : k \notin DOMAIN f => With(f, g)[k] = g[k]
  BY WithAdds
<1>5. QED
  BY <1>1, <1>2, <1>3, <1>4

\* Every option that has a key in the record is there as it was read.
LEMMA ConfigTells ==
    ASSUME NEW c, c = With(Config(prog, opts), RunConfig), Typed(prog, opts)
    PROVE  /\ \A k \in DOMAIN IntKeys :
                 IntKeys[k] \in Valued(prog) => k \in DOMAIN c /\ c[k] = opts[IntKeys[k]]
           /\ \A k \in DOMAIN RealsAt :
                 RealsAt[k] \in Valued(prog) => k \in DOMAIN c /\ c[k] = opts[RealsAt[k]]
           /\ Task = "parity" /\ "--block-len" \in Valued(prog) =>
                 "block_len" \in DOMAIN c /\ c["block_len"] = opts["--block-len"]
           /\ prog = "deltanet" =>
                 /\ \A k \in DOMAIN OffKeys : k \in DOMAIN c /\ c[k] = Not(opts[OffKeys[k]])
                 /\ \A k \in DOMAIN OnKeys : k \in DOMAIN c /\ c[k] = As01(opts[OnKeys[k]])
<1> DEFINE m == Config(prog, opts)
           Ours == {"seq_len", "batch", "steps", "lr"}
<1>1. prog \in Progs
  BY DEF Typed
<1>2. /\ DOMAIN c = DOMAIN m \cup DOMAIN RunConfig
      /\ \A k \in DOMAIN m : c[k] = m[k]
      /\ \A k \in DOMAIN RunConfig : k \notin DOMAIN m => c[k] = RunConfig[k]
  <2> DEFINE g == RunConfig
  <2>1. c = With(m, g)
    OBVIOUS
  <2> HIDE DEF m, g
  <2>2. /\ DOMAIN With(m, g) = DOMAIN m \cup DOMAIN g
        /\ \A k \in DOMAIN m : With(m, g)[k] = m[k]
        /\ \A k \in DOMAIN g : k \notin DOMAIN m => With(m, g)[k] = g[k]
    BY WithAdds
  <2>3. QED
    BY <2>1, <2>2 DEF g
<1>3. ASSUME (Ours \cup {"block_len"}) \cap DOMAIN m = {}
      PROVE  /\ Ours \subseteq DOMAIN c
             /\ c["seq_len"] = opts["--seq-len"] /\ c["batch"] = opts["--batch"]
             /\ c["steps"] = opts["--steps"] /\ c["lr"] = opts["--lr"]
             /\ Task = "parity" =>
                   /\ "block_len" \in DOMAIN c
                   /\ prog /= "fw" => c["block_len"] = opts["--block-len"]
  BY <1>2, <1>3, RunKeys
<1>4. /\ DOMAIN IntKeys = {"d", "n_layers", "layers", "seq_len", "batch", "steps"}
      /\ IntKeys["d"] = "--d" /\ IntKeys["n_layers"] = "--n-layers"
      /\ IntKeys["layers"] = "--layers" /\ IntKeys["seq_len"] = "--seq-len"
      /\ IntKeys["batch"] = "--batch" /\ IntKeys["steps"] = "--steps"
  BY DEF IntKeys
<1>9. /\ DOMAIN RealsAt = {"lambda", "beta", "lr"} /\ RealsAt["lambda"] = "--lambda"
      /\ RealsAt["beta"] = "--beta" /\ RealsAt["lr"] = "--lr"
  BY DEF RealsAt
<1>5. CASE prog = "deltanet"
  <2>1. m = DeltaNetConfig(opts)
    BY <1>5, ConfigIs
  <2>2. Typed("deltanet", opts)
    BY <1>5
  <2>3. /\ DOMAIN m = {"d", "n_layers", "lambda", "use_gate", "use_delta", "learn_lambda",
                       "no_decay", "normalize_keys", "use_mlp"}
        /\ m["d"] = opts["--d"] /\ m["n_layers"] = opts["--n-layers"]
        /\ m["lambda"] = opts["--lambda"]
        /\ m["use_gate"] = Not(opts["--no-gate"])
        /\ m["use_delta"] = Not(opts["--hebbian"])
        /\ m["learn_lambda"] = As01(opts["--learn-lambda"])
        /\ m["no_decay"] = As01(opts["--no-decay"])
        /\ m["normalize_keys"] = Not(opts["--no-key-norm"])
        /\ m["use_mlp"] = Not(opts["--no-mlp"])
    BY <2>1, <2>2, DeltaNetKeys
  <2> HIDE DEF m
  <2>4. (Ours \cup {"block_len"}) \cap DOMAIN m = {} /\ DOMAIN m \subseteq DOMAIN c
    BY <1>2, <2>3
  <2>5. "--layers" \notin Valued(prog) /\ "--beta" \notin Valued(prog)
    BY <1>5, ValuedIs DEF Strings
  <2>6. /\ \A k \in DOMAIN IntKeys :
              IntKeys[k] \in Valued(prog) => k \in DOMAIN c /\ c[k] = opts[IntKeys[k]]
        /\ \A k \in DOMAIN RealsAt :
              RealsAt[k] \in Valued(prog) => k \in DOMAIN c /\ c[k] = opts[RealsAt[k]]
    BY <1>2, <1>3, <1>4, <1>9, <2>3, <2>4, <2>5
  <2>7. \A k \in DOMAIN OffKeys : k \in DOMAIN c /\ c[k] = Not(opts[OffKeys[k]])
    BY <1>2, <2>3, <2>4 DEF OffKeys
  <2>8. \A k \in DOMAIN OnKeys : k \in DOMAIN c /\ c[k] = As01(opts[OnKeys[k]])
    BY <1>2, <2>3, <2>4 DEF OnKeys
  <2>9. QED
    BY <1>3, <1>5, <2>4, <2>6, <2>7, <2>8
<1>6. CASE prog = "gru"
  <2>1. m = GruConfig(opts)
    BY <1>6, ConfigIs
  <2>2. DOMAIN m = {"d", "layers"} /\ m["d"] = opts["--d"] /\ m["layers"] = opts["--layers"]
    BY <2>1 DEF GruConfig
  <2> HIDE DEF m
  <2>3. (Ours \cup {"block_len"}) \cap DOMAIN m = {} /\ DOMAIN m \subseteq DOMAIN c
    BY <1>2, <2>2
  <2>4. /\ "--n-layers" \notin Valued(prog) /\ "--beta" \notin Valued(prog)
        /\ "--lambda" \notin Valued(prog)
    BY <1>6, ValuedIs DEF Strings
  <2>5. QED
    BY <1>2, <1>3, <1>4, <1>6, <1>9, <2>2, <2>3, <2>4
<1>7. CASE prog = "fw"
  <2>1. m = FastWeightsConfig(opts)
    BY <1>7, ConfigIs
  <2>2. /\ DOMAIN m = {"d", "beta", "lambda"} /\ m["d"] = opts["--d"]
        /\ m["beta"] = opts["--beta"] /\ m["lambda"] = opts["--lambda"]
    BY <2>1 DEF FastWeightsConfig
  <2> HIDE DEF m
  <2>3. (Ours \cup {"block_len"}) \cap DOMAIN m = {} /\ DOMAIN m \subseteq DOMAIN c
    BY <1>2, <2>2
  <2>4. /\ "--n-layers" \notin Valued(prog) /\ "--layers" \notin Valued(prog)
        /\ "--block-len" \notin Valued(prog)
    BY <1>7, ValuedIs DEF Strings
  <2>5. QED
    BY <1>2, <1>3, <1>4, <1>7, <1>9, <2>2, <2>3, <2>4
<1>8. QED
  BY <1>1, <1>5, <1>6, <1>7 DEF Progs

-------------------------------------------------------------------------------
(* The task *)

\* The marks that escapes are made of, and one character as json_escape writes it.
Marks == {"quote", "backslash", "newline", "return", "tab", "control", "n", "r", "t", "u",
          "malformed"}
Enc(ch) == IF ch \in DOMAIN Escape THEN Escaped(ch) ELSE <<ch>>

LEMMA EscapeTells ==
    /\ "backslash" \in DOMAIN Escape
    /\ \A c, e \in DOMAIN Escape : Escape[c] = Escape[e] => c = e
    /\ \A c \in DOMAIN Escape : c \in Marks /\ Escape[c] \in Marks
    /\ \A c \in DOMAIN Escape : (CHOOSE e \in DOMAIN Escape : Escape[e] = Escape[c]) = c
<1>1. DOMAIN Escape = {"quote", "backslash", "newline", "return", "tab", "control"}
  BY DEF Escape
<1>2. /\ Escape["quote"] = "quote" /\ Escape["backslash"] = "backslash"
      /\ Escape["newline"] = "n" /\ Escape["return"] = "r"
      /\ Escape["tab"] = "t" /\ Escape["control"] = "u"
  BY DEF Escape
<1>3. \A c, e \in DOMAIN Escape : Escape[c] = Escape[e] => c = e
  BY <1>1, <1>2
<1>4. ASSUME NEW c \in DOMAIN Escape
      PROVE  (CHOOSE e \in DOMAIN Escape : Escape[e] = Escape[c]) = c
  <2> DEFINE e == CHOOSE e \in DOMAIN Escape : Escape[e] = Escape[c]
  <2>1. e \in DOMAIN Escape /\ Escape[e] = Escape[c]
    OBVIOUS
  <2> HIDE DEF e
  <2>2. e = c
    BY <1>3, <2>1
  <2>3. QED
    BY <2>2 DEF e
<1>5. \A c \in DOMAIN Escape : c \in Marks /\ Escape[c] \in Marks
  BY <1>1, <1>2 DEF Marks
<1>6. \A c \in DOMAIN Escape : (CHOOSE e \in DOMAIN Escape : Escape[e] = Escape[c]) = c
  BY <1>4
<1>7. "backslash" \in DOMAIN Escape
  BY <1>1
<1>8. QED
  BY <1>3, <1>5, <1>6, <1>7

\* The written task, from its characters one after the other.
LEMMA WrittenIs ==
    ASSUME NEW token, NEW X, Marks \subseteq X, Chars(token) \in Seq(X)
    PROVE  \E out \in [0 .. Len(Chars(token)) -> Seq(X)] :
              /\ out[0] = << >>
              /\ \A k \in 1 .. Len(Chars(token)) : out[k] = out[k - 1] \o Enc(Chars(token)[k])
              /\ Written(token) = out[Len(Chars(token))]
<1> DEFINE s == Chars(token)
           n == Len(s)
           V == Seq(X)
           G == [kt \in (1 .. n) \X V |-> kt[2] \o Enc(s[kt[1]])]
<1>1. n \in Nat /\ << >> \in V
  OBVIOUS
<1>2. ASSUME NEW k \in 1 .. n, NEW t \in V PROVE t \o Enc(s[k]) \in V
  <2>1. s[k] \in X
    OBVIOUS
  <2>2. Enc(s[k]) \in Seq(X)
    <3>1. CASE s[k] \in DOMAIN Escape
      <4>1. "backslash" \in X /\ Escape[s[k]] \in X
        BY <3>1, EscapeTells
      <4>2. QED
        BY <3>1, <4>1 DEF Enc, Escaped
    <3>2. CASE s[k] \notin DOMAIN Escape
      BY <2>1, <3>2 DEF Enc
    <3>3. QED
      BY <3>1, <3>2
  <2>3. QED
    BY <2>2
<1>3. G \in [(1 .. n) \X V -> V]
  BY <1>2
<1> HIDE DEF V
<1>4. \E f : Unfolds(f, n, V, << >>, G)
  <2> DEFINE v == << >>
  <2>1. v \in V
    BY <1>1
  <2> HIDE DEF G, n, v
  <2>2. \E f : Unfolds(f, n, V, v, G)
    BY <1>1, <1>3, <2>1, RecursionExists
  <2>3. QED
    BY <2>2 DEF v
<1>5. PICK f : Unfolds(f, n, V, << >>, G)
  BY <1>4
<1>6. \A i \in 1 .. n : f[i] = f[i - 1] \o Enc(s[i])
  <2>1. TAKE i \in 1 .. n
  <2>2. f[i] = G[<<i, f[i - 1]>>] /\ f[i - 1] \in V
    <3> HIDE DEF G, n
    <3>1. i - 1 \in 0 .. n
      BY <1>1
    <3>2. QED
      BY <1>5, <3>1 DEF Unfolds
  <2>3. QED
    BY <2>2
<1> HIDE DEF G
<1> DEFINE R(h) == h = [k \in 0 .. n |-> IF k = 0 THEN << >>
                          ELSE h[k - 1] \o (IF s[k] \in DOMAIN Escape THEN Escaped(s[k]) ELSE <<s[k]>>)]
<1>7. R(f)
  <2>1. f = [k \in 0 .. n |-> f[k]] /\ f[0] = << >>
    BY <1>5 DEF Unfolds
  <2>2. \A k \in 0 .. n : f[k] = IF k = 0 THEN << >>
          ELSE f[k - 1] \o (IF s[k] \in DOMAIN Escape THEN Escaped(s[k]) ELSE <<s[k]>>)
    BY <1>1, <1>6, <2>1 DEF Enc
  <2> HIDE DEF n, s
  <2>3. QED
    BY <2>1, <2>2
<1> DEFINE out == CHOOSE h : R(h)
<1>8. R(out)
  BY <1>7
<1>9. Written(token) = out[n]
  BY DEF Written
<1> HIDE DEF out
<1>10. /\ out[0] = << >>
       /\ \A k \in 1 .. n : out[k] = out[k - 1] \o Enc(s[k])
  BY <1>1, <1>8 DEF Enc
<1>11. out \in [0 .. n -> V]
  <2> DEFINE S == {k \in 0 .. n : out[k] \in V}
  <2>1. 0 \in S
    BY <1>1, <1>10
  <2>2. \A k \in 0 .. n - 1 : k \in S => k + 1 \in S
    <3>1. TAKE k \in 0 .. n - 1
    <3>2. HAVE k \in S
    <3>3. k + 1 \in 1 .. n /\ (k + 1) - 1 = k
      BY <1>1
    <3>4. out[k + 1] = out[k] \o Enc(s[k + 1])
      BY <1>10, <3>3
    <3>5. out[k + 1] \in V
      BY <1>2, <3>2, <3>3, <3>4
    <3>6. QED
      BY <1>1, <3>3, <3>5
  <2>3. 0 .. n \subseteq S
    <3> HIDE DEF S, n
    <3>1. QED
      BY <1>1, <2>1, <2>2, BoundedInduction
  <2>4. QED
    BY <1>8, <2>3
<1>12. QED
  BY <1>9, <1>10, <1>11 DEF V

\* The decoded text, from the characters of the string one after the other.
LEMMA DecodedIs ==
    ASSUME NEW X, Marks \subseteq X, NEW s \in Seq(X)
    PROVE  \E text :
              /\ Decoded(s) = text[1] /\ text[Len(s) + 1] = << >>
              /\ \A i \in 1 .. Len(s) : text[i] =
                   IF s[i] \notin DOMAIN Escape THEN <<s[i]>> \o text[i + 1]
                   ELSE IF s[i] = "backslash" /\ i < Len(s)
                           /\ \E c \in DOMAIN Escape : Escape[c] = s[i + 1]
                   THEN <<CHOOSE c \in DOMAIN Escape : Escape[c] = s[i + 1]>> \o text[i + 2]
                   ELSE <<"malformed">>
<1> DEFINE L == Len(s)
           Esc(i) == s[i] = "backslash" /\ i < L /\ \E c \in DOMAIN Escape : Escape[c] = s[i + 1]
           Of(i) == CHOOSE c \in DOMAIN Escape : Escape[c] = s[i + 1]
           At(i, one, two) == IF s[i] \notin DOMAIN Escape THEN <<s[i]>> \o one
                              ELSE IF Esc(i) THEN <<Of(i)>> \o two
                              ELSE <<"malformed">>
           V == Seq(X) \X Seq(X)
           G == [kp \in (1 .. L) \X V |-> <<At(L + 1 - kp[1], kp[2][1], kp[2][2]), kp[2][1]>>]
           v == << << >>, << >> >>
<1>1. L \in Nat /\ v \in V
  <2> DEFINE e == << >>
             W == Seq(X)
  <2>1. e \in W /\ L \in Nat
    OBVIOUS
  <2> HIDE DEF e, W, L
  <2>2. <<e, e>> \in W \X W
    BY <2>1
  <2>3. QED
    BY <2>1, <2>2 DEF e, W
<1>2. ASSUME NEW i \in 1 .. L, NEW one \in Seq(X), NEW two \in Seq(X)
      PROVE  At(i, one, two) \in Seq(X)
  <2>1. s[i] \in X
    OBVIOUS
  <2>2. Esc(i) => Of(i) \in X
    BY EscapeTells
  <2>3. "malformed" \in X
    BY DEF Marks
  <2> HIDE DEF Esc, Of, L
  <2>4. <<s[i]>> \o one \in Seq(X)
    BY <2>1
  <2>5. Esc(i) => <<Of(i)>> \o two \in Seq(X)
    BY <2>2
  <2>6. QED
    BY <2>3, <2>4, <2>5
<1> HIDE DEF At, L
<1>3. G \in [(1 .. L) \X V -> V]
  <2>1. ASSUME NEW kp \in (1 .. L) \X V
        PROVE  <<At(L + 1 - kp[1], kp[2][1], kp[2][2]), kp[2][1]>> \in V
    <3>1. L + 1 - kp[1] \in 1 .. L
      BY <1>1
    <3>2. QED
      BY <1>2, <3>1
  <2>2. QED
    BY <2>1
<1>4. \E f : Unfolds(f, L, V, v, G)
  <2> HIDE DEF G, V, v
  <2>1. QED
    BY <1>1, <1>3, RecursionExists
<1>5. PICK f : Unfolds(f, L, V, v, G)
  BY <1>4
<1>6. /\ f[0] = << << >>, << >> >>
      /\ \A k \in 1 .. L : f[k] = <<At(L + 1 - k, f[k - 1][1], f[k - 1][2]), f[k - 1][1]>>
  <2>1. f[0] = v
    BY <1>5 DEF Unfolds
  <2>2. ASSUME NEW k \in 1 .. L
        PROVE  f[k] = <<At(L + 1 - k, f[k - 1][1], f[k - 1][2]), f[k - 1][1]>>
    <3>1. f[k] = G[<<k, f[k - 1]>>] /\ f[k - 1] \in V
      <4> HIDE DEF G, V, v
      <4>1. k - 1 \in 0 .. L
        BY <1>1
      <4>2. QED
        BY <1>5, <4>1 DEF Unfolds
    <3>2. QED
      BY <3>1
  <2>3. QED
    BY <2>1, <2>2
<1> HIDE DEF G, V, v
<1> DEFINE g == [i \in 1 .. L + 2 |-> IF i > L THEN << >> ELSE f[L + 1 - i][1]]
<1>7. ASSUME NEW i \in 1 .. L PROVE g[i] = At(i, g[i + 1], g[i + 2])
  <2>1. g[i] = f[L + 1 - i][1]
    BY <1>1
  <2>2. g[i + 1] = f[L - i][1]
    <3>1. CASE i = L
      <4>1. L - i = 0 /\ i + 1 \in 1 .. L + 2 /\ i + 1 > L
        BY <1>1, <3>1
      <4>2. f[0][1] = << >> /\ g[i + 1] = << >>
        BY <1>6, <4>1
      <4>3. QED
        BY <4>1, <4>2
    <3>2. CASE i < L
      <4>1. i + 1 \in 1 .. L + 2 /\ ~ (i + 1 > L) /\ L + 1 - (i + 1) = L - i
        BY <1>1, <3>2
      <4>2. QED
        BY <4>1
    <3>3. QED
      BY <1>1, <3>1, <3>2
  <2>3. g[i + 2] = f[L - i][2]
    <3>1. CASE i = L
      <4>1. L - i = 0 /\ i + 2 \in 1 .. L + 2 /\ i + 2 > L
        BY <1>1, <3>1
      <4>2. f[0][2] = << >> /\ g[i + 2] = << >>
        BY <1>6, <4>1
      <4>3. QED
        BY <4>1, <4>2
    <3>2. CASE i < L
      <4>1. L - i \in 1 .. L /\ L - i - 1 \in 0 .. L
        BY <1>1, <3>2
      <4>2. f[L - i][2] = f[L - i - 1][1]
        BY <1>6, <4>1
      <4>3. CASE i + 2 > L
        BY <1>1, <1>6, <3>2, <4>2, <4>3
      <4>4. CASE i + 2 <= L
        BY <1>1, <4>2, <4>4
      <4>5. QED
        BY <1>1, <4>3, <4>4
    <3>3. QED
      BY <1>1, <3>1, <3>2
  <2>4. L + 1 - i \in 1 .. L /\ (L + 1 - i) - 1 = L - i /\ L + 1 - (L + 1 - i) = i
    BY <1>1
  <2>5. f[L + 1 - i][1] = At(i, f[L - i][1], f[L - i][2])
    BY <1>6, <2>4
  <2>6. QED
    BY <2>1, <2>2, <2>3, <2>5
<1> DEFINE R(h) == h = [i \in 1 .. L + 2 |-> IF i > L THEN << >> ELSE At(i, h[i + 1], h[i + 2])]
<1>8. R(g)
  <2>1. \A i \in 1 .. L + 2 : ~ (i > L) => i \in 1 .. L
    BY <1>1
  <2>2. \A i \in 1 .. L + 2 : g[i] = IF i > L THEN << >> ELSE At(i, g[i + 1], g[i + 2])
    BY <1>7, <2>1
  <2>3. g = [i \in 1 .. L + 2 |-> g[i]]
    OBVIOUS
  <2> HIDE DEF g
  <2>4. QED
    BY <2>2, <2>3
<1> DEFINE text == CHOOSE h : R(h)
<1>9. R(text)
  BY <1>8
<1>10. Decoded(s) = text[1]
  BY DEF Decoded, At, L
<1> HIDE DEF text
<1>11. text[L + 1] = << >>
  BY <1>1, <1>9
<1>12. \A i \in 1 .. L : text[i] = At(i, text[i + 1], text[i + 2])
  BY <1>1, <1>9
<1>13. QED
  BY <1>10, <1>11, <1>12 DEF At, L

\* A reader of the string has back every character that was escaped into it.
LEMMA DecodedWritten ==
    ASSUME NEW token, NEW X, Marks \subseteq X, Chars(token) \in Seq(X)
    PROVE  Decoded(Written(token)) = Chars(token)
<1> DEFINE chars == Chars(token)
           n == Len(chars)
           s == Written(token)
<1>1. n \in Nat /\ \A k \in 1 .. n : chars[k] \in X
  OBVIOUS
<1> HIDE DEF chars, n
<1>2. PICK out \in [0 .. n -> Seq(X)] :
         /\ out[0] = << >> /\ s = out[n]
         /\ \A k \in 1 .. n : out[k] = out[k - 1] \o Enc(chars[k])
  BY WrittenIs DEF chars, n
<1>3. s \in Seq(X) /\ Len(s) \in Nat
  <2>1. n \in 0 .. n
    BY <1>1
  <2>2. s \in Seq(X)
    BY <1>2, <2>1
  <2>3. QED
    BY <2>2
<1> HIDE DEF s
<1>4. PICK text :
        /\ Decoded(s) = text[1] /\ text[Len(s) + 1] = << >>
        /\ \A i \in 1 .. Len(s) : text[i] =
             IF s[i] \notin DOMAIN Escape THEN <<s[i]>> \o text[i + 1]
             ELSE IF s[i] = "backslash" /\ i < Len(s)
                     /\ \E c \in DOMAIN Escape : Escape[c] = s[i + 1]
             THEN <<CHOOSE c \in DOMAIN Escape : Escape[c] = s[i + 1]>> \o text[i + 2]
             ELSE <<"malformed">>
  BY <1>3, DecodedIs
<1> DEFINE Starts(k) == /\ Len(out[k]) <= Len(s)
                        /\ \A j \in 1 .. Len(out[k]) : s[j] = out[k][j]
           Rest(k) == text[Len(out[k]) + 1]
           Follows(k) == /\ Rest(k) \in Seq(X) /\ Len(Rest(k)) = n - k
                         /\ \A j \in 1 .. n - k : Rest(k)[j] = chars[k + j]
           S == {m \in 0 .. n : Starts(n - m) /\ Follows(n - m)}
<1>5. Starts(n) /\ Follows(n)
  BY <1>1, <1>2, <1>3, <1>4
<1>6. ASSUME NEW k \in 1 .. n, Starts(k), Follows(k)
      PROVE  Starts(k - 1) /\ Follows(k - 1)
  <2> DEFINE w == out[k - 1]
             a == Len(w)
             ch == chars[k]
             e == Enc(ch)
             t == text[Len(out[k]) + 1]
  <2>1. out[k] = w \o e /\ w \in Seq(X) /\ a \in Nat /\ ch \in X
    <3>1. k - 1 \in 0 .. n
      BY <1>1
    <3>2. w \in Seq(X)
      BY <1>2, <3>1
    <3>3. out[k] = w \o e
      BY <1>2
    <3>4. ch \in X
      BY <1>1
    <3> HIDE DEF w, e, ch
    <3>5. QED
      BY <3>2, <3>3, <3>4
  <2>2. e \in Seq(X)
    <3>1. CASE ch \in DOMAIN Escape
      <4>1. "backslash" \in X /\ Escape[ch] \in X
        BY <3>1, EscapeTells
      <4>2. QED
        BY <3>1, <4>1 DEF Enc, Escaped
    <3>2. CASE ch \notin DOMAIN Escape
      BY <2>1, <3>2 DEF Enc
    <3>3. QED
      BY <3>1, <3>2
  <2>3. /\ t \in Seq(X) /\ Len(t) = n - k
        /\ \A j \in 1 .. n - k : t[j] = chars[k + j]
    BY <1>6
  <2> HIDE DEF w, e, ch
  <2>4. /\ Len(out[k]) = a + Len(e) /\ Len(e) \in Nat
        /\ \A j \in 1 .. a : out[k][j] = w[j]
        /\ \A j \in 1 .. Len(e) : out[k][a + j] = e[j]
    BY <2>1, <2>2
  <2>5. /\ a + Len(e) <= Len(s)
        /\ \A j \in 1 .. a : s[j] = w[j]
        /\ \A j \in 1 .. Len(e) : s[a + j] = e[j]
    <3>1. \A j \in 1 .. Len(out[k]) : s[j] = out[k][j]
      BY <1>6
    <3>2. Len(out[k]) <= Len(s)
      BY <1>6
    <3> HIDE DEF a
    <3>3. ASSUME NEW j \in 1 .. a PROVE s[j] = w[j]
      <4>1. j \in 1 .. Len(out[k])
        BY <2>1, <2>4
      <4>2. QED
        BY <2>4, <3>1, <4>1
    <3>4. ASSUME NEW j \in 1 .. Len(e) PROVE s[a + j] = e[j]
      <4>1. a + j \in 1 .. Len(out[k])
        BY <2>1, <2>4
      <4>2. QED
        BY <2>4, <3>1, <4>1
    <3>5. QED
      BY <2>4, <3>2, <3>3, <3>4
  <2>6. Starts(k - 1)
    BY <1>3, <2>1, <2>4, <2>5 DEF w
  <2>7. text[a + 1] = <<ch>> \o t
    <3> HIDE DEF a, t
    <3>1. CASE ch \notin DOMAIN Escape
      <4>1. e = <<ch>> /\ Len(e) = 1 /\ e[1] = ch
        BY <3>1 DEF e, Enc
      <4>2. s[a + 1] = ch /\ a + 1 \in 1 .. Len(s)
        BY <1>3, <2>1, <2>5, <4>1
      <4>3. text[a + 1] = <<ch>> \o text[(a + 1) + 1]
        BY <1>4, <3>1, <4>2
      <4>4. t = text[(a + 1) + 1]
        BY <2>1, <2>4, <4>1 DEF t
      <4>5. QED
        BY <4>3, <4>4
    <3>2. CASE ch \in DOMAIN Escape
      <4>1. e = <<"backslash", Escape[ch]>> /\ Len(e) = 2 /\ e[1] = "backslash" /\ e[2] = Escape[ch]
        BY <3>2 DEF e, Enc, Escaped
      <4>2. /\ s[a + 1] = "backslash" /\ s[(a + 1) + 1] = Escape[ch]
            /\ a + 1 \in 1 .. Len(s) /\ a + 1 < Len(s)
        <5>1. s[a + 1] = e[1] /\ s[a + 2] = e[2] /\ a + 2 <= Len(s)
          BY <2>5, <4>1
        <5>2. a + 2 = (a + 1) + 1
          BY <2>1
        <5>3. QED
          BY <1>3, <2>1, <4>1, <5>1, <5>2
      <4>3. (CHOOSE c \in DOMAIN Escape : Escape[c] = s[(a + 1) + 1]) = ch
        BY <3>2, <4>2, EscapeTells
      <4>4. \E c \in DOMAIN Escape : Escape[c] = s[(a + 1) + 1]
        BY <3>2, <4>2
      <4>5. s[a + 1] \in DOMAIN Escape
        BY <4>2, EscapeTells
      <4>6. text[a + 1] = <<CHOOSE c \in DOMAIN Escape : Escape[c] = s[(a + 1) + 1]>>
                            \o text[(a + 1) + 2]
        BY <1>4, <4>2, <4>4, <4>5
      <4>7. t = text[(a + 1) + 2]
        BY <2>1, <2>4, <4>1 DEF t
      <4>8. QED
        BY <4>3, <4>6, <4>7
    <3>3. QED
      BY <3>1, <3>2
  <2>8. Follows(k - 1)
    <3> HIDE DEF a, t
    <3> DEFINE u == text[a + 1]
    <3>1. n - (k - 1) = (n - k) + 1 /\ n - k \in Nat
      BY <1>1
    <3>2. /\ u \in Seq(X) /\ Len(u) = (n - k) + 1 /\ u[1] = ch
          /\ \A j \in 1 .. n - k : u[1 + j] = t[j]
      BY <2>1, <2>3, <2>7, <3>1
    <3>3. ASSUME NEW j \in 1 .. (n - k) + 1 PROVE u[j] = chars[(k - 1) + j]
      <4>1. CASE j = 1
        BY <1>1, <3>2, <4>1 DEF ch
      <4>2. CASE j /= 1
        <5>1. j - 1 \in 1 .. n - k /\ 1 + (j - 1) = j /\ k + (j - 1) = (k - 1) + j
          BY <3>1, <4>2
        <5>2. QED
          BY <2>3, <3>2, <5>1
      <4>3. QED
        BY <4>1, <4>2
    <3>4. Rest(k - 1) = u
      BY DEF a, w
    <3> HIDE DEF u, Rest
    <3>5. QED
      BY <3>1, <3>2, <3>3, <3>4
  <2>9. QED
    BY <2>6, <2>8
<1> HIDE DEF Starts, Follows
<1>7. 0 \in S
  BY <1>1, <1>5
<1>8. ASSUME NEW m \in 0 .. n - 1, m \in S PROVE m + 1 \in S
  <2>1. n - m \in 1 .. n /\ (n - m) - 1 = n - (m + 1) /\ m + 1 \in 0 .. n
    BY <1>1
  <2>2. QED
    BY <1>6, <1>8, <2>1
<1>9. 0 .. n \subseteq S
  <2> HIDE DEF S
  <2>1. QED
    BY <1>1, <1>7, <1>8, BoundedInduction
<1>10. Follows(0)
  <2>1. n \in S /\ n - n = 0
    <3> HIDE DEF S
    <3>1. n \in 0 .. n /\ n - n = 0
      BY <1>1
    <3>2. QED
      BY <1>9, <3>1
  <2>2. QED
    BY <2>1
<1>11. /\ text[1] \in Seq(X) /\ Len(text[1]) = n
       /\ \A j \in 1 .. n : text[1][j] = chars[j]
  <2>1. Rest(0) = text[1]
    BY <1>2
  <2>2. n - 0 = n /\ \A j \in 1 .. n : 0 + j = j
    BY <1>1
  <2> HIDE DEF Rest
  <2>3. QED
    BY <1>10, <2>1, <2>2 DEF Follows
<1>12. chars \in Seq(X) /\ Len(chars) = n
  BY DEF chars, n
<1>13. text[1] = chars
  BY <1>11, <1>12
<1>14. QED
  BY <1>4, <1>13 DEF chars, s

\* What is printed is what was there, but for the digits of long reals.
LEMMA PrintedKeeps ==
    ASSUME NEW c, NEW k \in DOMAIN c
    PROVE  /\ k \notin RealKeys => Printed(c)[k] = c[k]
           /\ c[k] > -Precision /\ c[k] < Precision => Printed(c)[k] = c[k]
BY DEF Printed, Kept

\* A seed is read back from the long it is written as.
LEMMA SeedReadBack ==
    ASSUME NEW n \in 0 .. SeedRange - 1
    PROVE  Unsigned(Signed(n)) = n
BY SeedsAreMany DEF Unsigned, Signed

\* A record as Record writes it says what the command line said.
LEMMA RecordTells ==
    ASSUME StageInv, LineInv, stage = "record", NEW r, r = Entry
    PROVE  TellsArgs(r)
<1> DEFINE m == With(Config(prog, opts), RunConfig)
           c == Printed(m)
<1>1. /\ r.prog = prog /\ r.argv = argv /\ r.seed = Signed(opts["--seed"])
      /\ r.config = c /\ r.task = Written(Task) /\ r.corpus = CorpusName
  BY DEF Entry
<1>2. /\ Typed(prog, opts)
      /\ \A v \in Valued(prog) : opts[v] = Told(prog, argv, v)
      /\ \A s \in Switches(prog) : opts[s] = (Given(prog, argv, s) /= {})
  BY DEF StageInv, LineInv
<1>3. /\ \A k \in DOMAIN IntKeys :
            IntKeys[k] \in Valued(prog) => k \in DOMAIN m /\ m[k] = opts[IntKeys[k]]
      /\ \A k \in DOMAIN RealsAt :
            RealsAt[k] \in Valued(prog) => k \in DOMAIN m /\ m[k] = opts[RealsAt[k]]
      /\ Task = "parity" /\ "--block-len" \in Valued(prog) =>
            "block_len" \in DOMAIN m /\ m["block_len"] = opts["--block-len"]
      /\ prog = "deltanet" =>
            /\ \A k \in DOMAIN OffKeys : k \in DOMAIN m /\ m[k] = Not(opts[OffKeys[k]])
            /\ \A k \in DOMAIN OnKeys : k \in DOMAIN m /\ m[k] = As01(opts[OnKeys[k]])
  BY <1>2, ConfigTells
<1> HIDE DEF m
<1>10. \A k \in DOMAIN m :
         /\ k \notin RealKeys => c[k] = m[k]
         /\ m[k] > -Precision /\ m[k] < Precision => c[k] = m[k]
  BY PrintedKeeps
<1>11. /\ DOMAIN IntKeys \cap RealKeys = {} /\ DOMAIN OffKeys \cap RealKeys = {}
       /\ DOMAIN OnKeys \cap RealKeys = {} /\ "block_len" \notin RealKeys
  BY DEF IntKeys, OffKeys, OnKeys, RealKeys
<1> HIDE DEF c
<1>12. \A k \in DOMAIN IntKeys :
          IntKeys[k] \in Valued(prog) => c[k] = Told(prog, argv, IntKeys[k])
  BY <1>2, <1>3, <1>10, <1>11
<1>4. \A k \in DOMAIN RealsAt :
         LET x == Told(prog, argv, RealsAt[k]) IN
         RealsAt[k] \in Valued(prog) /\ x > -Precision /\ x < Precision => c[k] = x
  BY <1>2, <1>3, <1>10
<1>5. ASSUME prog = "deltanet"
      PROVE  /\ \A k \in DOMAIN OffKeys :
                   c[k] = IF Given(prog, argv, OffKeys[k]) = {} THEN 1 ELSE 0
             /\ \A k \in DOMAIN OnKeys :
                   c[k] = IF Given(prog, argv, OnKeys[k]) = {} THEN 0 ELSE 1
  <2>1. /\ \A k \in DOMAIN OffKeys : OffKeys[k] \in Switches(prog)
        /\ \A k \in DOMAIN OnKeys : OnKeys[k] \in Switches(prog)
    BY <1>5 DEF OffKeys, OnKeys, Switches
  <2>2. \A b : Not(b /= {}) = (IF b = {} THEN 1 ELSE 0) /\ As01(b /= {}) = (IF b = {} THEN 0 ELSE 1)
    BY DEF Not, As01
  <2>3. /\ \A k \in DOMAIN OffKeys : c[k] = Not(opts[OffKeys[k]])
        /\ \A k \in DOMAIN OnKeys : c[k] = As01(opts[OnKeys[k]])
    BY <1>3, <1>5, <1>10, <1>11
  <2>4. QED
    BY <1>2, <2>1, <2>2, <2>3
<1>6. {"--seed", "--task", "--corpus"} \subseteq Valued(prog)
  BY <1>2, ValuedIs DEF Typed, Progs, Strings
<1>7. Task = Told(prog, argv, "--task") /\ Path = Told(prog, argv, "--corpus")
  BY <1>2, <1>6 DEF Task, Path
<1>13. Unsigned(r.seed) = Told(prog, argv, "--seed")
  BY <1>1, <1>2, <1>6, SeedReadBack DEF Typed
<1>14. Task = "parity" /\ "--block-len" \in Valued(prog) =>
          c["block_len"] = Told(prog, argv, "--block-len")
  BY <1>2, <1>3, <1>10, <1>11
<1>15. CorpusName = "toy-val" <=> Task \notin {"parity", "induction"} /\ Path = "toy"
  BY DEF CorpusName, Toy
<1>8. Decoded(Written(Task)) = Chars(Task)
  <2> DEFINE X == STRING \cup Marks \cup {Task}
  <2>1. Chars(Task) \in Seq(X)
    <3>1. CASE Task \in DOMAIN Spelled
      BY <3>1, SpelledAreTexts DEF Chars
    <3>2. CASE Task \notin DOMAIN Spelled
      BY <3>2 DEF Chars
    <3>3. QED
      BY <3>1, <3>2
  <2>2. Marks \subseteq X
    OBVIOUS
  <2> HIDE DEF X
  <2>3. QED
    BY <2>1, <2>2, DecodedWritten
<1>9. QED
  BY <1>1, <1>4, <1>5, <1>7, <1>8, <1>12, <1>13, <1>14, <1>15 DEF TellsArgs

LogInv == (\E R : log \in Seq(R)) /\ RecordTellsArgs

LEMMA InitLog == Init => LogInv
<1> SUFFICES ASSUME Init PROVE LogInv
  OBVIOUS
<1>1. log = << >> /\ << >> \in Seq({})
  BY DEF Init
<1>2. QED
  BY <1>1 DEF LogInv, RecordTellsArgs

LEMMA NextLog == StageInv /\ LineInv /\ LogInv /\ [Next]_vars => LogInv'
<1> SUFFICES ASSUME StageInv, LineInv, LogInv, [Next]_vars PROVE LogInv'
  OBVIOUS
<1>1. CASE Record
  <2> DEFINE r == Entry
  <2>1. stage = "record" /\ log' = Append(log, r)
    BY <1>1 DEF Record
  <2>2. TellsArgs(r)
    BY <2>1, RecordTells
  <2> HIDE DEF r
  <2>3. PICK R : log \in Seq(R)
    BY DEF LogInv
  <2>4. log \in Seq(R \cup {r})
    BY <2>3
  <2>5. /\ log' \in Seq(R \cup {r}) /\ Len(log') = Len(log) + 1
        /\ \A i \in 1 .. Len(log) : log'[i] = log[i]
        /\ log'[Len(log) + 1] = r
    BY <2>1, <2>4
  <2>6. \A i \in DOMAIN log' : TellsArgs(log'[i])
    <3>1. TAKE i \in DOMAIN log'
    <3>2. Len(log) \in Nat /\ DOMAIN log = 1 .. Len(log) /\ DOMAIN log' = 1 .. Len(log')
      BY <2>4, <2>5
    <3>3. i = Len(log) + 1 \/ i \in 1 .. Len(log)
      BY <2>5, <3>2
    <3>4. QED
      BY <2>2, <2>5, <3>2, <3>3 DEF LogInv, RecordTellsArgs
  <2>7. QED
    BY <2>5, <2>6 DEF LogInv, RecordTellsArgs
<1>2. CASE UNCHANGED log
  BY <1>2 DEF LogInv, RecordTellsArgs
<1>3. QED
  BY <1>1, <1>2
     DEF Next, Launch, TakeSwitch, TakeValue, RefuseLine, BuildModel, NoDevice, OpenCorpus,
         CorpusReady, CorpusThrew, RefuseCorpus, AcceptCorpus, Refuse, Begin, RefuseResume,
         LoadThrew, DivideByZero, Train, Kill, Return, vars, launchVars

\* Every record of results.jsonl says what its command line said of the options
\* that have a field: the last of each, or its default, the task to the letter,
\* and reals as far as ten digits go.
THEOREM RecordTellsArgsAlways == Spec => []RecordTellsArgs
<1>1. LogInv => RecordTellsArgs
  BY DEF LogInv
<1>2. QED
  BY <1>1, InitLog, NextLog, StageAlways, LineAlways, PTL DEF Spec
===============================================================================
