------------------------------ MODULE Checkpoint ------------------------------
(***************************************************************************)
(* A checkpoint set of arch/common/checkpoint.hpp: the five files that     *)
(* save_checkpoint writes under one prefix, each through its own .tmp file *)
(* and rename, and what load_checkpoint makes of them.                     *)
(*                                                                         *)
(* A file holds the snapshot of the program state it was written from, and *)
(* load_checkpoint takes from each file the part that file stores, so a    *)
(* set whose files come from different saves is loaded as the mixture it   *)
(* is.  A file can also be Absent, or Short: std::ofstream errors are not  *)
(* looked at, so a disk that fills up leaves a cut text file which the     *)
(* rename then installs (torch::save throws instead).                      *)
(***************************************************************************)
EXTENDS Integers

CONSTANTS
    Absent,        \* the file does not exist
    Short,         \* the file exists and its text is cut
    ShortWrites,   \* the text files that a full disk may cut
    Incompatible   \* <<a, b>>: archives of structure a do not load into b

ASSUME SentinelsDiffer == Absent /= Short
ASSUME OnlyTextIsCut == ShortWrites \subseteq {"mt", "meta"}

Prefixes == {"latest", "best"}
Files == {"model", "opt", "rng", "mt", "meta"}
FileCount == 5

(***************************************************************************)
(* The order in which save_checkpoint writes the files; .meta is last.     *)
(***************************************************************************)
MetaFirst(k) == <<"meta", "model", "opt", "rng", "mt">>[k]   \* mutant
FileAt(k) == <<"model", "opt", "rng", "mt", "meta">>[k]

\* A position of the batch stream that no run of the program is at.
Stray == -1

NoFiles == [f \in Files |-> Absent]

\* checkpoint_exists: the presence of .meta stands for the whole set.
HasSet(set) == set["meta"] /= Absent

\* The files were not all written by one save (or one of them is cut).
Torn(set) == \E f, g \in Files : set[f] /= set[g]

(***************************************************************************)
(* torch::load throws on an archive that is missing.  Of another structure *)
(* it throws if the model has a parameter that the archive lacks, and if   *)
(* it has fewer, since Adam compares their numbers; where only shapes or   *)
(* switches differ it loads, and the fingerprints are left to tell.        *)
(***************************************************************************)
LoadThrows(set, fp) ==
    \/ \E f \in {"model", "opt", "rng"} : set[f] = Absent
    \/ \E f \in {"model", "opt"} : <<set[f].fp, fp>> \in Incompatible

\* `f >> rng`: a missing file leaves the engine as it was seeded, a cut one
\* leaves it with part of a state.
MtNotRestored(set) == 0   \* mutant
LoadedMt(set) == IF set["mt"] = Absent THEN 0
                 ELSE IF set["mt"] = Short THEN Stray ELSE set["mt"].mt

\* What load_checkpoint leaves in the model, the optimizer and the engine.
Loaded(set) == [model |-> set["model"].model,
                opt   |-> set["opt"].opt,
                mt    |-> LoadedMt(set)]

\* The fingerprint is the last field of .meta, so a cut .meta has not got it.
AnyFingerprint(set, fp) == set["meta"] /= Short   \* mutant
SameFingerprint(set, fp) == /\ set["meta"] /= Short
                            /\ set["meta"].fp = fp
===============================================================================
