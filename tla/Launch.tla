-------------------------------- MODULE Launch --------------------------------
(***************************************************************************)
(* The train_* programs around the training itself, launched one after the *)
(* other on one --ckpt-dir: main reads the command line token by token and *)
(* builds the model; run_experiment opens the corpus, compares a resume    *)
(* with the checkpoint it finds, trains, and appends its record.  A token  *)
(* is a string; what atoi, atof and strtoull make of it is given by        *)
(* Numerals, where reals count in units of 10^-7.  Training is one step    *)
(* here: Runner has it in detail.                                          *)
(***************************************************************************)
EXTENDS Corpus, Sequences

CONSTANTS
    Launches,    \* [prog, argv]: the command lines considered
    MaxLaunches, \* bound: launches in a behaviour
    Numerals,    \* token -> [int, real, seed]; every other token is read as 0
    Spelled,     \* token -> its characters, where these matter
    FileSizes,   \* path -> bytes
    ToyBytes,    \* the size of toy_corpus
    Word,        \* 2^w, the range of size_t
    SeedRange,   \* 2^64, the range of uint64_t
    Precision,   \* 10^10: reals of so many units, or more, have over ten digits
    None         \* no checkpoint

Progs == {"deltanet", "gru", "fw"}

ASSUME LaunchesAreCommands ==
    \A l \in Launches : l.prog \in Progs /\ l.argv \in Seq(STRING)
ASSUME NumeralsAreNumbers ==
    \A t \in DOMAIN Numerals :
        /\ Numerals[t].int \in Int /\ Numerals[t].real \in Int
        /\ Numerals[t].seed \in 0 .. SeedRange - 1
ASSUME SpelledAreTexts == \A t \in DOMAIN Spelled : Spelled[t] \in Seq(STRING)
ASSUME WordIsPositive == Word \in Nat \ {0}
ASSUME SeedsAreMany == SeedRange \in Nat /\ SeedRange > 1
ASSUME PrecisionIsNat == Precision \in Nat
ASSUME SizesAreNat == ToyBytes \in Nat /\ \A path \in DOMAIN FileSizes : FileSizes[path] \in Nat

VARIABLES
    stage,    \* "idle", "parse", "corpus", "guard", "resume", "train",
              \* "record", or "return": leaving run_experiment
    prog,     \* the program
    argv,     \* its command line
    rest,     \* what it has not read yet
    opts,     \* what it has read: a value for every option
    carried,  \* the checkpoint it resumed from, or None
    code,     \* how it ended: 0, 2, or thrown, trapped, killed as 134, 136, 137
    dirs,     \* the checkpoints: a function of the --ckpt-dir
    log,      \* the records
    count     \* launches so far

launchVars == <<stage, prog, argv, rest, opts, carried, code, dirs, log, count>>
vars == <<launchVars, corpusVars>>

-------------------------------------------------------------------------------
(* Options *)

Switches(p) == {"--resume"} \cup
    IF p = "deltanet" THEN {"--no-gate", "--hebbian", "--learn-lambda", "--no-decay",
                            "--no-key-norm", "--no-mlp"} ELSE {}
Reals == {"--lambda", "--beta", "--lr"}
Strings == {"--corpus", "--task", "--device", "--ckpt-dir", "--out"}
Valued(p) ==
    {"--d", "--seq-len", "--batch", "--steps", "--lr", "--eval-every", "--seed",
     "--ckpt-every"} \cup Strings \cup
    CASE p = "deltanet" -> {"--n-layers", "--lambda", "--block-len"}
      [] p = "gru"      -> {"--layers", "--block-len"}
      [] p = "fw"       -> {"--beta", "--lambda"}

DefaultNumber(o) ==
    CASE o = "--d"           -> 128
      [] o = "--n-layers"    -> 4
      [] o = "--layers"      -> 1
      [] o = "--lambda"      -> 9900000
      [] o = "--beta"        -> 10000000
      [] o = "--seq-len"     -> 256
      [] o = "--batch"       -> 32
      [] o = "--steps"       -> 50000
      [] o = "--lr"          -> 10000
      [] o = "--eval-every"  -> 1000
      [] o = "--seed"        -> 1
      [] o = "--block-len"   -> 16
      [] o = "--ckpt-every"  -> 0
DefaultString(o) ==
    CASE o = "--corpus"      -> "data/enwik8"
      [] o = "--task"        -> "enwik8"
      [] o = "--device"      -> "cpu"
      [] o = "--ckpt-dir"    -> ""
      [] o = "--out"         -> "runs/results.jsonl"
Default(p, o) == IF o \in Switches(p) THEN FALSE
                 ELSE IF o \in Strings THEN DefaultString(o) ELSE DefaultNumber(o)

\* atoi, atof and strtoull make 0 of what is no number.
Number(token) == IF token \in DOMAIN Numerals THEN Numerals[token]
                 ELSE [int |-> 0, real |-> 0, seed |-> 0]
Chars(token) == IF token \in DOMAIN Spelled THEN Spelled[token] ELSE <<token>>
Meaning(o, token) == IF o \in Strings THEN token
                     ELSE IF o \in Reals THEN Number(token).real
                     ELSE IF o = "--seed" THEN Number(token).seed ELSE Number(token).int
-------------------------------------------------------------------------------
(* What is built and recorded from them *)

\* A map with the entries of another added to it.
With(f, g) == [k \in DOMAIN f \cup DOMAIN g |-> IF k \in DOMAIN f THEN f[k] ELSE g[k]]

Not(switch) == IF switch THEN 0 ELSE 1
As01(switch) == IF switch THEN 1 ELSE 0

\* The structural config: the map of main, which is the fingerprint with the
\* name of the architecture before it, and goes into the record.
AsGiven(o) ==      \* mutant
    [use_gate |-> As01(o["--no-gate"]), use_delta |-> As01(o["--hebbian"]),
     learn_lambda |-> As01(o["--learn-lambda"]), no_decay |-> As01(o["--no-decay"]),
     normalize_keys |-> As01(o["--no-key-norm"]), use_mlp |-> As01(o["--no-mlp"])]
AllButGate(o) ==   \* mutant
    [use_delta |-> Not(o["--hebbian"]),
     learn_lambda |-> As01(o["--learn-lambda"]), no_decay |-> As01(o["--no-decay"]),
     normalize_keys |-> Not(o["--no-key-norm"]), use_mlp |-> Not(o["--no-mlp"])]
SwitchConfig(o) ==
    [use_gate |-> Not(o["--no-gate"]), use_delta |-> Not(o["--hebbian"]),
     learn_lambda |-> As01(o["--learn-lambda"]), no_decay |-> As01(o["--no-decay"]),
     normalize_keys |-> Not(o["--no-key-norm"]), use_mlp |-> Not(o["--no-mlp"])]
DeltaNetConfig(o) == With([d |-> o["--d"], n_layers |-> o["--n-layers"],
                           lambda |-> o["--lambda"]], SwitchConfig(o))
GruConfig(o) == [d |-> o["--d"], layers |-> o["--layers"]]
FastWeightsConfig(o) == [d |-> o["--d"], beta |-> o["--beta"], lambda |-> o["--lambda"]]
Config(p, o) == CASE p = "deltanet" -> DeltaNetConfig(o)
                  [] p = "gru"      -> GruConfig(o)
                  [] p = "fw"       -> FastWeightsConfig(o)

\* std::to_string writes six digits after the point.
SixDigits(x) == (x + 5) \div 10
Fingerprint(p, c) ==
    [arch |-> p,
     config |-> [k \in DOMAIN c |-> IF k \in {"lambda", "beta"} THEN SixDigits(c[k]) ELSE c[k]]]

Task == opts["--task"]
IsTask == Task \in {"parity", "induction"}
Path == opts["--corpus"]
Toy == Path = "toy"

\* The parameters that the constructors of the model register: layer and name.
MixParams(o) == {"wk", "wv", "wq", "wbeta", "wo"}
                \cup IF o["--learn-lambda"] THEN {"lambda_logit"} ELSE {}
BlockParams(o) == {"ln1"} \cup MixParams(o)
                  \cup IF o["--no-mlp"] THEN {} ELSE {"ln2", "fc1", "fc2"}
DeltaNetParams(o) == {0} \X {"emb", "ln_f", "readout"}
                     \cup (1 .. o["--n-layers"]) \X BlockParams(o)
GruParams(o) == {0} \X {"emb", "readout"} \cup (1 .. o["--layers"]) \X {"rnn"}
FastWeightsParams == {0} \X {"emb", "wk", "wv", "wq", "readout"}
Params(p, o) == CASE p = "deltanet" -> DeltaNetParams(o)
                  [] p = "gru"      -> GruParams(o)
                  [] p = "fw"       -> FastWeightsParams

\* torch::load throws on an archive without a parameter of the model, and Adam's
\* on the state of more parameters than it has; parameters of another shape are
\* replaced.
CkptOn == opts["--ckpt-dir"] /= ""
Latest == dirs[opts["--ckpt-dir"]]
LoadThrows == Params(prog, opts) /= Params(Latest.prog, Latest.opts)

-------------------------------------------------------------------------------
(* main: the command line *)

Init ==
    /\ NoCorpus
    /\ stage = "idle" /\ prog = "fw" /\ argv = << >> /\ rest = << >> /\ opts = << >>
    /\ carried = None /\ code = 0 /\ dirs = << >> /\ log = << >> /\ count = 0

Launch(l) ==
    /\ stage = "idle" /\ count < MaxLaunches
    /\ stage' = "parse" /\ count' = count + 1 /\ code' = 0 /\ carried' = None
    /\ prog' = l.prog /\ argv' = l.argv /\ rest' = l.argv
    /\ opts' = [o \in Switches(l.prog) \cup Valued(l.prog) |-> Default(l.prog, o)]
    /\ object' = "none" /\ fd' = FALSE /\ mapped' = FALSE /\ size' = 0
    /\ UNCHANGED <<dirs, log>>

\* The process is gone, and what it held with it.
EndAt(c) == stage' = "idle" /\ code' = c
            /\ object' = "none" /\ fd' = FALSE /\ mapped' = FALSE /\ size' = 0

Parsing == stage = "parse" /\ rest /= << >>

TakeSwitch ==
    /\ Parsing /\ Head(rest) \in Switches(prog)
    /\ opts' = [opts EXCEPT ![Head(rest)] = TRUE]
    /\ rest' = Tail(rest)
    /\ UNCHANGED <<stage, prog, argv, carried, code, dirs, log, count, corpusVars>>

\* The next token is the value, even if it looks like an option.
TakeValue ==
    /\ Parsing /\ Head(rest) \in Valued(prog) /\ Len(rest) > 1
    /\ opts' = [opts EXCEPT ![Head(rest)] = Meaning(Head(rest), rest[2])]
    /\ rest' = Tail(Tail(rest))
    /\ UNCHANGED <<stage, prog, argv, carried, code, dirs, log, count, corpusVars>>

RefuseLine ==
    /\ Parsing
    /\ \/ Head(rest) \notin Switches(prog) \cup Valued(prog)
       \/ Head(rest) \in Valued(prog) /\ Len(rest) = 1
    /\ EndAt(2)
    /\ UNCHANGED <<prog, argv, rest, opts, carried, dirs, log, count>>

\* The model is moved to the device, which may not be there.
NoDevice ==
    /\ stage = "parse" /\ rest = << >> /\ opts["--device"] = "cuda"
    /\ EndAt(134)
    /\ UNCHANGED <<prog, argv, rest, opts, carried, dirs, log, count>>

BuildModel ==
    /\ stage = "parse" /\ rest = << >>
    /\ stage' = IF IsTask THEN "resume" ELSE IF Toy THEN "guard" ELSE "corpus"
    /\ UNCHANGED <<prog, argv, rest, opts, carried, code, dirs, log, count, corpusVars>>

-------------------------------------------------------------------------------
(* run_experiment *)

OpenCorpus ==
    /\ stage = "corpus" /\ object \notin {"ready", "thrown"}
    /\ Construct(IF Path \in DOMAIN FileSizes THEN FileSizes[Path] ELSE 0)
    /\ object = "none" /\ Path \notin DOMAIN FileSizes => object' = "thrown"
    /\ UNCHANGED launchVars

CorpusReady ==
    /\ stage = "corpus" /\ object = "ready"
    /\ stage' = "guard"
    /\ UNCHANGED <<prog, argv, rest, opts, carried, code, dirs, log, count, corpusVars>>

\* Nothing catches the exception.
CorpusThrew ==
    /\ stage = "corpus" /\ object = "thrown"
    /\ EndAt(134)
    /\ UNCHANGED <<prog, argv, rest, opts, carried, dirs, log, count>>

Refuse(c) == /\ stage' = "return" /\ code' = c
             /\ UNCHANGED <<prog, argv, rest, opts, carried, dirs, log, count, corpusVars>>

\* The guard converts --seq-len + 1 to a size_t.
Split == INSTANCE Sampling WITH
    Lengths <- {}, SeqLens <- {}, Drawn <- 1, phase <- "start",
    len <- IF Toy THEN ToyBytes ELSE size, T <- ((opts["--seq-len"] + 1) % Word) - 1,
    left <- 0, held <- {}, seen <- {}, judged <- {}

Unguarded == FALSE      \* mutant
TurnedDown == Split!TooSmall

RefuseCorpus == stage = "guard" /\ TurnedDown /\ Refuse(2)

AcceptCorpus ==
    /\ stage = "guard" /\ ~ TurnedDown
    /\ stage' = "resume"
    /\ UNCHANGED <<prog, argv, rest, opts, carried, code, dirs, log, count, corpusVars>>

Resumes == opts["--resume"] /\ CkptOn /\ opts["--ckpt-dir"] \in DOMAIN dirs
Fits == Fingerprint(Latest.prog, Config(Latest.prog, Latest.opts))
          = Fingerprint(prog, Config(prog, opts))

Begin ==
    /\ stage = "resume" /\ (Resumes => ~ LoadThrows /\ Fits)
    /\ stage' = "train"
    /\ carried' = IF Resumes THEN Latest ELSE None
    /\ UNCHANGED <<prog, argv, rest, opts, code, dirs, log, count, corpusVars>>

RefuseResume == stage = "resume" /\ Resumes /\ ~ LoadThrows /\ ~ Fits /\ Refuse(2)

LoadThrew ==
    /\ stage = "resume" /\ Resumes /\ LoadThrows
    /\ EndAt(134)
    /\ UNCHANGED <<prog, argv, rest, opts, carried, dirs, log, count>>

Steps == IF carried = None THEN 1 .. opts["--steps"]
         ELSE carried.step + 1 .. opts["--steps"]
Period == IF opts["--ckpt-every"] > 0 THEN opts["--ckpt-every"] ELSE opts["--eval-every"]

\* The integer division of the first step by --eval-every traps.
DivideByZero ==
    /\ stage = "train" /\ Steps /= {} /\ opts["--eval-every"] = 0
    /\ EndAt(136)
    /\ UNCHANGED <<prog, argv, rest, opts, carried, dirs, log, count>>

Evaluates == Steps = {} \/ opts["--eval-every"] /= 0
SavedAt(n) == dirs' = [d \in DOMAIN dirs \cup {opts["--ckpt-dir"]} |->
    IF d = opts["--ckpt-dir"] THEN [prog |-> prog, opts |-> opts, step |-> n] ELSE dirs[d]]

Train ==
    /\ stage = "train" /\ Evaluates
    /\ stage' = "record"
    /\ IF CkptOn /\ Steps /= {} THEN SavedAt(opts["--steps"]) ELSE UNCHANGED dirs
    /\ UNCHANGED <<prog, argv, rest, opts, carried, code, log, count, corpusVars>>

\* Killed in training, with the checkpoint of some step there or none new.
Kill ==
    /\ stage = "train" /\ Evaluates
    /\ \/ \E n \in Steps : CkptOn /\ n % Period = 0 /\ SavedAt(n)
       \/ UNCHANGED dirs
    /\ EndAt(137)
    /\ UNCHANGED <<prog, argv, rest, opts, carried, log, count>>

-------------------------------------------------------------------------------
(* The record *)

\* json_escape, character by character; only the task is a string of the user's.
Escape == [quote |-> "quote", backslash |-> "backslash", newline |-> "n",
           return |-> "r", tab |-> "t", control |-> "u"]
Escaped(ch) == <<"backslash", Escape[ch]>>
Written(token) ==
    LET out[n \in 0 .. Len(Chars(token))] ==
            IF n = 0 THEN << >>
            ELSE LET ch == Chars(token)[n] IN
                 out[n - 1] \o (IF ch \in DOMAIN Escape THEN Escaped(ch) ELSE <<ch>>)
    IN out[Len(Chars(token))]

RunConfig ==
    With([seq_len |-> opts["--seq-len"], batch |-> opts["--batch"],
          steps |-> opts["--steps"], lr |-> opts["--lr"]],
         IF Task = "parity"
         THEN [block_len |-> IF prog = "fw" THEN 16 ELSE opts["--block-len"]]
         ELSE IF Task = "induction" THEN [dict_size |-> 16, key_len |-> 4] ELSE << >>)

\* "%.10g" rounds a real to ten digits.
Unit[n \in Nat] == IF n < Precision THEN 1 ELSE 10 * Unit[n \div 10]
Kept(x) ==
    IF x > -Precision /\ x < Precision THEN x
    ELSE LET u == Unit[IF x < 0 THEN -x ELSE x] IN ((x + (u \div 2)) \div u) * u
RealKeys == {"lambda", "beta", "lr"}
Printed(c) == [k \in DOMAIN c |-> IF k \in RealKeys THEN Kept(c[k]) ELSE c[k]]

\* The seed is a uint64_t and the field a long.
Signed(n) == IF n < SeedRange \div 2 THEN n ELSE n - SeedRange

\* Whatever file it is, its name is not recorded.
CorpusName == IF Task = "parity" THEN "parity-test"
              ELSE IF Task = "induction" THEN "induction-test"
              ELSE IF Toy THEN "toy-val" ELSE "enwik8-val"

Entry == [prog |-> prog, argv |-> argv, seed |-> Signed(opts["--seed"]),
          config |-> Printed(With(Config(prog, opts), RunConfig)),
          task |-> Written(Task), corpus |-> CorpusName]

Record ==
    /\ stage = "record"
    /\ log' = Append(log, Entry)
    /\ stage' = "return" /\ code' = 0
    /\ UNCHANGED <<prog, argv, rest, opts, carried, dirs, count, corpusVars>>

\* run_experiment returns, and the corpus it owns is destroyed.
Return ==
    /\ stage = "return"
    /\ stage' = "idle"
    /\ IF object = "ready" THEN Destroyed ELSE UNCHANGED corpusVars
    /\ UNCHANGED <<prog, argv, rest, opts, carried, code, dirs, log, count>>

Next ==
    \/ \E l \in Launches : Launch(l)
    \/ TakeSwitch \/ TakeValue \/ RefuseLine \/ BuildModel \/ NoDevice
    \/ OpenCorpus \/ CorpusReady \/ CorpusThrew \/ RefuseCorpus \/ AcceptCorpus
    \/ Begin \/ RefuseResume \/ LoadThrew \/ DivideByZero \/ Train \/ Kill
    \/ Record \/ Return

Spec == Init /\ [][Next]_vars

-------------------------------------------------------------------------------
(* Properties *)

\* The reference reading of a command line: where its options are, and what the
\* last of them says.
OptionAt(p, line) ==
    LET opt[i \in 1 .. Len(line)] ==
            i = 1 \/ ~ (opt[i - 1] /\ line[i - 1] \in Valued(p))
    IN {i \in 1 .. Len(line) : opt[i]}
Given(p, line, o) == {i \in OptionAt(p, line) : line[i] = o}
Told(p, line, o) ==
    LET at == Given(p, line, o) IN
    IF at = {} THEN Default(p, o)
    ELSE Meaning(o, line[(CHOOSE i \in at : \A j \in at : j <= i) + 1])

\* ... and of a JSON string: no control character as it is, no backslash alone.
Decoded(s) ==
    LET Plain(i) == s[i] \notin DOMAIN Escape
        text[i \in 1 .. Len(s) + 2] ==
            IF i > Len(s) THEN << >>
            ELSE IF Plain(i) THEN <<s[i]>> \o text[i + 1]
            ELSE IF s[i] = "backslash" /\ i < Len(s) /\ \E c \in DOMAIN Escape : Escape[c] = s[i + 1]
            THEN <<CHOOSE c \in DOMAIN Escape : Escape[c] = s[i + 1]>> \o text[i + 2]
            ELSE <<"malformed">>
    IN text[1]

IntKeys == [d |-> "--d", n_layers |-> "--n-layers", layers |-> "--layers",
            seq_len |-> "--seq-len", batch |-> "--batch", steps |-> "--steps"]
RealsAt == [lambda |-> "--lambda", beta |-> "--beta", lr |-> "--lr"]
OffKeys == [use_gate |-> "--no-gate", use_delta |-> "--hebbian",
            normalize_keys |-> "--no-key-norm", use_mlp |-> "--no-mlp"]
OnKeys == [learn_lambda |-> "--learn-lambda", no_decay |-> "--no-decay"]

\* What a reader makes of a seed that is written as a long.
Unsigned(n) == IF n < 0 THEN n + SeedRange ELSE n

\* What a record should say of its command line.
TellsArgs(r) ==
    LET p == r.prog  line == r.argv  c == r.config
        task == Told(p, line, "--task") IN
    /\ \A k \in DOMAIN IntKeys :
          IntKeys[k] \in Valued(p) => c[k] = Told(p, line, IntKeys[k])
    /\ \A k \in DOMAIN RealsAt :
          LET x == Told(p, line, RealsAt[k]) IN
          RealsAt[k] \in Valued(p) /\ x > -Precision /\ x < Precision => c[k] = x
    /\ p = "deltanet" =>
          /\ \A k \in DOMAIN OffKeys : c[k] = IF Given(p, line, OffKeys[k]) = {} THEN 1 ELSE 0
          /\ \A k \in DOMAIN OnKeys : c[k] = IF Given(p, line, OnKeys[k]) = {} THEN 0 ELSE 1
    /\ task = "parity" /\ "--block-len" \in Valued(p) =>
          c["block_len"] = Told(p, line, "--block-len")
    /\ Unsigned(r.seed) = Told(p, line, "--seed")
    /\ Decoded(r.task) = Chars(task)
    /\ r.corpus = "toy-val"
          <=> task \notin {"parity", "induction"} /\ Told(p, line, "--corpus") = "toy"

\* "results.jsonl records exactly which ablation produced each number": of the
\* options that have a field, which are those of the model, the task and its
\* block length, --seq-len, --batch, --steps, --lr and the seed, a reader of the
\* line finds what the command line said, the last of each or the default.  The
\* task is there to the letter, a real if it has no more than ten digits, and of
\* --corpus no more than whether it was the toy.
RecordTellsArgs == \A n \in DOMAIN log : TellsArgs(log[n])

\* The weights of one model mean the same in the other: they are the same
\* parameters, and the recurrence that uses them differs in nothing but what
\* is less than 10^-6.
Near(x, y) == x - y \in -9 .. 9
SameModel(p, o, q, r) ==
    /\ p = q /\ Params(p, o) = Params(q, r) /\ o["--d"] = r["--d"]
    /\ p = "deltanet" =>
          /\ \A s \in {"--no-gate", "--hebbian", "--no-key-norm", "--no-decay"} : o[s] = r[s]
          /\ o["--no-decay"] \/ Near(o["--lambda"], r["--lambda"])
    /\ p = "fw" => Near(o["--lambda"], r["--lambda"]) /\ Near(o["--beta"], r["--beta"])

\* "A resume cannot cross configs": a run goes on only from weights that its own
\* model, with these switches, has trained.
ResumeSameModel ==
    carried /= None => SameModel(carried.prog, carried.opts, prog, opts)

\* What is trained and evaluated on is there as long as it is used: the bytes of
\* a corpus file stay mapped, and an empty file, which is not mapped, is never
\* sliced.
SpanBacked ==
    stage \in {"resume", "train", "record"} /\ ~ IsTask /\ ~ Toy => mapped /\ size > 0
===============================================================================
