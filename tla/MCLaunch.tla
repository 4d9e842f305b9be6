------------------------------- MODULE MCLaunch -------------------------------
(***************************************************************************)
(* Command lines of the kind the documents show, varied in what can go     *)
(* wrong with them, on one checkpoint directory.                           *)
(***************************************************************************)
EXTENDS Launch, TLC

\* Numbers are small, reals count in units of 10^-7; seeds from 8 on are
\* negative in the record, and eight digits of a real are kept there.
As(int, real) == [int |-> int, real |-> real, seed |-> int % SeedRange]
MCNumerals ==
    [t \in {"1", "2", "3", "8"} |-> CASE t = "1" -> As(1, 10000000)
                                      [] t = "2" -> As(2, 20000000)
                                      [] t = "3" -> As(3, 30000000)
                                      [] t = "8" -> As(8, 80000000)]
    @@ ("-5" :> As(-5, -50000000))
    @@ ("0.9999999" :> As(0, 9999999))
    @@ ("0.9" :> As(0, 9000000))
    @@ ("12.3456789" :> As(12, 123456789))

\* A task whose name has every kind of character that JSON escapes.
MCSpelled == ("odd" :> <<"plain", "quote", "backslash", "newline", "return", "tab", "control", "plain">>)

\* 40 and 60 bytes are too few and just enough for --seq-len 1.
MCFileSizes == ("data/enwik8" :> 100) @@ ("empty" :> 0) @@ ("short" :> 40) @@ ("enough" :> 60)

Dir == <<"--ckpt-dir", "dir">>
Brief == <<"--task", "parity", "--steps", "2", "--eval-every", "1">>
In(p, line) == [prog |-> p, argv |-> line]

\* A run in the directory, and its restart with one change of the model or none.
ModelOptions ==
    {<< >>, <<"--no-gate">>, <<"--hebbian">>, <<"--learn-lambda">>, <<"--no-decay">>,
     <<"--no-key-norm">>, <<"--no-mlp">>, <<"--no-mlp", "--no-decay">>,
     <<"--d", "8">>, <<"--n-layers", "2">>, <<"--lambda", "1">>,
     <<"--lambda", "0.9999999">>, <<"--lambda", "0.9">>}
Ablations == {In("deltanet", Dir \o Brief \o m \o r) :
                 m \in ModelOptions, r \in {<< >>, <<"--resume">>}}
Others == {In("fw", Dir \o Brief \o m \o <<"--resume">>) :
              m \in {<< >>, <<"--beta", "1">>, <<"--beta", "2">>, <<"--lambda", "1">>}}
          \cup {In("gru", Dir \o Brief \o m \o <<"--resume">>) :
                   m \in {<< >>, <<"--layers", "2">>}}

\* Lines with something odd about them.
Lines ==
    {<<"--steps">>, <<"--resume">>, <<"--dict-size", "8">>,
     <<"--task", "parity", "--eval-every", "--resume">>,
     <<"--task", "induction", "--steps", "1", "--steps", "3", "--eval-every", "2", "--block-len", "8">>,
     <<"--task", "parity", "--block-len", "8", "--steps", "2", "--block-len", "2">>,
     <<"--task", "odd", "--seq-len", "1", "--steps", "1", "--seed", "8", "--lr", "12.3456789">>,
     <<"--corpus", "toy", "--seq-len", "8", "--steps", "junk">>,
     <<"--corpus", "toy", "--seq-len", "8", "--batch", "2", "--steps", "1", "--seed", "-5", "--lr", "0.9">>,
     <<"--corpus", "missing">>, <<"--corpus", "empty", "--seq-len", "1">>,
     <<"--corpus", "empty", "--seq-len", "-5">>, <<"--corpus", "enough", "--seq-len", "-5">>,
     <<"--corpus", "short", "--seq-len", "1">>, <<"--corpus", "enough", "--seq-len", "1", "--steps", "1">>,
     <<"--task", "parity", "--device", "cuda", "--steps", "1", "--ckpt-dir", "--resume">>,
     <<"--task", "parity", "--steps", "3", "--eval-every", "2", "--ckpt-every", "1", "--ckpt-dir", "dir", "--resume">>}
Odd == {In(p, line) : p \in {"deltanet", "gru", "fw"}, line \in Lines}

MCLaunches == Ablations \cup Others \cup Odd
===============================================================================
