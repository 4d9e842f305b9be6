----------------------------- MODULE RunnerProofs -----------------------------
(***************************************************************************)
(* Proofs about the runner, for every set of draws, every --steps, every   *)
(* evaluation and checkpoint period, every landscape of losses and every   *)
(* set of commands.                                                        *)
(***************************************************************************)
EXTENDS RunnerProps, TLAPS

-------------------------------------------------------------------------------
(* The parts of the inductive invariants *)

\* The .tmp file of a save in progress holds what the process is saving, or,
\* for a text file, what a full disk left of it.
TmpInv ==
    /\ ~ Saving => tmp = Absent /\ w = 1
    /\ Saving => tmp \in {Absent, Short, Snapshot}
    /\ tmp = Short => FileAt(w) \in ShortWrites

\* The files before the one being written are there.
WrittenInv ==
    Saving => \A k \in 1 .. w - 1 : disk[pc][FileAt(k)] /= Absent

\* What `latest` holds is a point of an uninterrupted run.
ExactSnapshot(x) ==
    \E i \in Inits : /\ x.model = <<i, x.step>> /\ x.opt = <<i, x.step>>
                     /\ x.mt = x.step
LatestExact ==
    ~ torn => \A f \in Files : Readable(disk["latest"][f])
                                  => ExactSnapshot(disk["latest"][f])

\* Under resuming commands: the loss of the weights in best.model, the best
\* loss in memory and the one in latest.meta come in this order, except while
\* the file for a new best is not in place yet.
BestOnDisk == disk["best"]["model"]
BestChain ==
    /\ pc /= "off" /\ ~ (pc = "best" /\ w = 1) /\ BestOnDisk /= Absent
         => score[BestOnDisk.model] <= best
    /\ pc /= "off" /\ Readable(LatestMeta) => best <= LatestMeta.best
    /\ Readable(LatestMeta) /\ BestOnDisk /= Absent
         => score[BestOnDisk.model] <= LatestMeta.best
    /\ pc = "best" => score[mem.model] = best

\* Under resuming commands: a process is past the step, and of the structure,
\* of the `latest` set it started from or has saved.
Succession ==
    pc /= "off" /\ Readable(LatestMeta)
      => LatestMeta.step < step /\ LatestMeta.fp = cmd.fp

-------------------------------------------------------------------------------
(* The operators of a checkpoint set *)

FileValues == Snapshots \cup {Absent, Short}
FileSets == {set \in [Files -> FileValues] :
               \A f \in {"model", "opt", "rng"} : set[f] /= Short}

\* The k-th file that a save writes is one of the five files.
LEMMA FileAtIsFile == \A k \in 1 .. FileCount : FileAt(k) \in Files
BY DEF FileAt, Files, FileCount

\* A full disk can cut only the two text files.
LEMMA ArchivesNotCut ==
    \A f \in {"model", "opt", "rng"} : f \notin ShortWrites
BY OnlyTextIsCut

\* A load that does not throw leaves memory that has its type.
LEMMA LoadedTyped ==
    ASSUME NEW set \in FileSets, NEW fp, ~ LoadThrows(set, fp)
    PROVE  Loaded(set) \in [model : Points, opt : Points, mt : Stray .. MaxStep]
<1>1. set["model"] \in Snapshots /\ set["opt"] \in Snapshots
  BY DEF LoadThrows, FileSets, FileValues, Files
<1>2. LoadedMt(set) \in Stray .. MaxStep
  <2>1. set["mt"] \in FileValues
    BY DEF FileSets, Files
  <2>2. QED
    BY <2>1, StepBound DEF LoadedMt, FileValues, Snapshots, Stray
<1>3. QED
  BY <1>1, <1>2 DEF Loaded, Snapshots

\* A readable .meta has a step and a best loss in range.
LEMMA AcceptedMetaTyped ==
    ASSUME NEW set \in FileSets, NEW fp, HasSet(set), SameFingerprint(set, fp)
    PROVE  set["meta"] \in Snapshots
BY DEF HasSet, SameFingerprint, FileSets, FileValues, Files

\* What a save writes is a snapshot.
LEMMA SnapshotTyped == TypeOK /\ Saving => Snapshot \in Snapshots
<1> SUFFICES ASSUME TypeOK, Saving PROVE Snapshot \in Snapshots
  OBVIOUS
<1>1. cmd \in Commands /\ cmd.fp \in Fingerprints
  BY DEF TypeOK, Saving, Prefixes, Fingerprints
<1>2. step \in 0 .. MaxStep
  BY StepBound DEF TypeOK, Saving, Prefixes
<1>3. QED
  BY <1>1, <1>2 DEF TypeOK, Snapshot, Snapshots

\* Training keeps the memory in its type.
LEMMA TrainedTyped ==
    ASSUME TypeOK, NEW m \in Trained(mem)
    PROVE  m \in [model : Points, opt : Points, mt : Stray .. MaxStep]
<1>1. CASE OnTrack(mem)
  <2>1. mem.mt + 1 \in 0 .. MaxStep /\ mem.model[1] \in Lines
    BY <1>1, StepBound DEF OnTrack, TypeOK, Points, Stray
  <2>2. m = [model |-> <<mem.model[1], mem.mt + 1>>,
             opt |-> <<mem.model[1], mem.mt + 1>>, mt |-> mem.mt + 1]
    BY <1>1 DEF Trained
  <2>3. <<mem.model[1], mem.mt + 1>> \in Points /\ mem.mt + 1 \in Stray .. MaxStep
    BY <2>1, StepBound DEF Points, Stray
  <2>4. QED
    BY <2>2, <2>3
<1>2. CASE ~ OnTrack(mem)
  <2>1. PICK p \in {Off} \X Strays : m = [model |-> p, opt |-> p, mt |-> Stray]
    BY <1>2 DEF Trained
  <2>2. p \in Points
    BY StraysAreSteps DEF Points, Lines
  <2>3. Stray \in Stray .. MaxStep
    BY StepBound DEF Stray
  <2>4. QED
    BY <2>1, <2>2, <2>3
<1>3. QED
  BY <1>1, <1>2

-------------------------------------------------------------------------------
(* Type correctness *)

\* A process that ends leaves nothing behind but the files.
LEMMA StopTyped ==
    ASSUME NEW o \in {"ok", "aborted", "killed"}, TypeOK, Stop(o),
           UNCHANGED <<disk, score, torn>>,
           record' \in [steps : 0 .. MaxStep, model : Points] \cup {NoRecord}
    PROVE  TypeOK'
<1>1. Blank \in [model : Points, opt : Points, mt : Stray .. MaxStep]
  BY StepBound DEF Blank, Points, Lines, Stray
<1>2. step' \in 1 .. MaxStep + 1 /\ best' \in Losses /\ w' \in 1 .. FileCount
  BY StepBound, LossBound DEF Stop, Losses, FileCount
<1>3. QED
  BY <1>1, <1>2 DEF Stop, TypeOK

\* Going on after an evaluation keeps the loop counter within one of the last
\* step.
LEMMA AfterEvalTyped ==
    ASSUME TypeOK, step <= MaxStep, AfterEval(step)
    PROVE  /\ pc' \in {"loop", "latest"}
           /\ step' \in 1 .. MaxStep + 1
           /\ pc' = "latest" => step' <= MaxStep
BY StepBound DEF AfterEval, NextStep, TypeOK

LEMMA InitTyped == Init => TypeOK
<1> SUFFICES ASSUME Init PROVE TypeOK
  OBVIOUS
<1>1. Blank \in [model : Points, opt : Points, mt : Stray .. MaxStep]
  BY StepBound DEF Blank, Points, Lines, Stray
<1>2. step \in 1 .. MaxStep + 1 /\ best \in Losses /\ w \in 1 .. FileCount
  BY StepBound, LossBound DEF Init, Losses, FileCount
<1>3. disk \in [Prefixes -> [Files -> FileValues]]
  BY DEF Init, NoFiles, FileValues
<1>4. \A s \in Prefixes : \A f \in {"model", "opt", "rng"} : disk[s][f] /= Short
  BY SentinelsDiffer DEF Init, NoFiles, Files
<1>5. QED
  BY <1>1, <1>2, <1>3, <1>4, LandscapesAreScores, NoCommandIsNone
     DEF Init, TypeOK, FileValues

LEMMA NextTyped == TypeOK /\ TmpInv /\ [Next]_vars => TypeOK'
<1> SUFFICES ASSUME TypeOK, TmpInv, [Next]_vars PROVE TypeOK'
  OBVIOUS
<1>0. disk["latest"] \in FileSets /\ disk["best"] \in FileSets
  BY DEF TypeOK, FileSets, FileValues, Prefixes
<1>1. ASSUME NEW c \in Commands, FreshStart(c) PROVE TypeOK'
  <2>1. PICK i \in Inits :
           mem' = [model |-> <<i, 0>>, opt |-> <<i, 0>>, mt |-> 0]
    BY <1>1 DEF FreshStart
  <2>2. mem' \in [model : Points, opt : Points, mt : Stray .. MaxStep]
    BY <2>1, StepBound DEF Points, Lines, Stray
  <2>3. step' \in 1 .. MaxStep + 1 /\ best' \in Losses
    BY <1>1, StepBound, LossBound DEF FreshStart, Losses
  <2>4. QED
    BY <1>1, <2>2, <2>3, NoCommandIsNone DEF FreshStart, TypeOK
<1>2. ASSUME NEW c \in Commands, ResumeStart(c) PROVE TypeOK'
  <2>1. disk["latest"]["meta"] \in Snapshots
    BY <1>0, <1>2, AcceptedMetaTyped DEF ResumeStart, Resumes
  <2>2. mem' \in [model : Points, opt : Points, mt : Stray .. MaxStep]
    BY <1>0, <1>2, LoadedTyped DEF ResumeStart
  <2>3. step' \in 1 .. MaxStep + 1 /\ best' \in Losses
    BY <1>2, <2>1, StepBound DEF ResumeStart, StartStep, CarriedBest, Snapshots
  <2>4. torn' \in BOOLEAN
    BY <1>2 DEF ResumeStart, TypeOK
  <2>5. QED
    BY <1>2, <2>2, <2>3, <2>4, NoCommandIsNone DEF ResumeStart, TypeOK
<1>3. ASSUME NEW c \in Commands, RejectResume(c) PROVE TypeOK'
  BY <1>3 DEF RejectResume, TypeOK
<1>4. ASSUME NEW c \in Commands, AbortResume(c) PROVE TypeOK'
  BY <1>4 DEF AbortResume, TypeOK
<1>5. CASE Train
  <2>1. cmd \in Commands /\ step <= MaxStep
    BY <1>5, CommandsAreTyped, StepBound DEF Train, InLoop, TypeOK
  <2>2. mem' \in [model : Points, opt : Points, mt : Stray .. MaxStep]
    BY <1>5, TrainedTyped DEF Train
  <2>3. score[mem'.model] \in Losses
    BY <2>2 DEF TypeOK
  <2>4. best' \in Losses
    BY <1>5, <2>3 DEF Train, TypeOK
  <2>5. /\ pc' \in {"loop", "best", "latest"}
        /\ step' \in 1 .. MaxStep + 1
        /\ pc' \in {"best", "latest"} => step' <= MaxStep
    <3>1. CASE pc' = "best" /\ step' = step
      BY <2>1, <3>1 DEF TypeOK
    <3>2. CASE AfterEval(step)
      BY <2>1, <3>2, AfterEvalTyped
    <3>3. QED
      BY <1>5, <3>1, <3>2 DEF Train
  <2>6. QED
    BY <1>5, <2>1, <2>2, <2>4, <2>5, NoCommandIsNone DEF Train, TypeOK
<1>6. CASE WriteTmp
  <2>1. tmp' \in Snapshots \cup {Absent, Short}
    BY <1>6, SnapshotTyped DEF WriteTmp
  <2>2. QED
    BY <1>6, <2>1 DEF WriteTmp, TypeOK
<1>7. CASE Install
  <2> DEFINE f == FileAt(w)
  <2>1. f \in Files /\ pc \in Prefixes
    BY <1>7, FileAtIsFile DEF TypeOK, Install, Saving
  <2>2. disk' \in [Prefixes -> [Files -> Snapshots \cup {Absent, Short}]]
    BY <1>7, <2>1 DEF Install, TypeOK
  <2>3. f \in {"model", "opt", "rng"} => tmp /= Short
    BY <1>7, <2>1, ArchivesNotCut DEF TmpInv, Install
  <2>4. \A s \in Prefixes : \A g \in {"model", "opt", "rng"} : disk'[s][g] /= Short
    BY <1>7, <2>1, <2>3 DEF Install, TypeOK
  <2>5. /\ pc' \in {"loop", "best", "latest"}
        /\ step' \in 1 .. MaxStep + 1
        /\ pc' \in {"best", "latest"} => step' <= MaxStep
        /\ w' \in 1 .. FileCount
    <3>1. CASE w < FileCount /\ w' = w + 1 /\ UNCHANGED <<pc, step>>
      BY <2>1, <3>1 DEF TypeOK, FileCount, Prefixes
    <3>2. CASE w = FileCount /\ w' = 1 /\ AfterSave
      <4>1. step <= MaxStep
        BY <2>1 DEF TypeOK, Prefixes
      <4>2. CASE AfterEval(step)
        BY <3>2, <4>1, <4>2, AfterEvalTyped DEF FileCount
      <4>3. CASE pc' = "loop" /\ step' = NextStep(step)
        BY <3>2, <4>1, <4>3, StepBound DEF FileCount, NextStep, TypeOK
      <4>4. QED
        BY <3>2, <4>2, <4>3 DEF AfterSave
    <3>3. QED
      BY <1>7, <3>1, <3>2 DEF Install
  <2>6. QED
    BY <1>7, <2>1, <2>2, <2>4, <2>5 DEF Install, TypeOK, Prefixes
<1>8. CASE LoadBest
  <2>1. Loaded(disk["best"]) \in [model : Points, opt : Points, mt : Stray .. MaxStep]
    BY <1>0, <1>8, LoadedTyped DEF LoadBest, AllButStream
  <2>2. mem' \in [model : Points, opt : Points, mt : Stray .. MaxStep]
    BY <1>8, <2>1 DEF LoadBest, AllButStream, TypeOK
  <2>3. QED
    BY <1>8, <2>2 DEF LoadBest, AllButStream, Done, TypeOK
<1>9. CASE KeepCurrent
  BY <1>9 DEF KeepCurrent, Done, TypeOK
<1>10. CASE AbortRestore \/ AbortTest
  BY <1>10, StopTyped DEF AbortRestore, AbortTest, TypeOK
<1>11. CASE Report
  <2>1. cmd \in Commands
    BY <1>11 DEF Report, TypeOK
  <2>2. record' \in [steps : 0 .. MaxStep, model : Points]
    BY <1>11, <2>1, CommandsAreTyped DEF Report, TypeOK
  <2>3. QED
    BY <1>11, <2>2, StopTyped DEF Report
<1>12. CASE Crash
  BY <1>12, StopTyped DEF Crash, TypeOK
<1>13. CASE Migrate
  <2>1. disk' \in [Prefixes -> [Files -> Snapshots \cup {Absent, Short}]]
    BY <1>13 DEF Migrate, NoFiles, TypeOK
  <2>2. \A s \in Prefixes : \A f \in {"model", "opt", "rng"} : disk'[s][f] /= Short
    BY <1>13, SentinelsDiffer DEF Migrate, NoFiles, TypeOK, Files, Prefixes
  <2>3. QED
    BY <1>13, <2>1, <2>2 DEF Migrate, TypeOK
<1>14. CASE UNCHANGED vars
  BY <1>14 DEF vars, TypeOK
<1>15. QED
  BY <1>1, <1>2, <1>3, <1>4, <1>5, <1>6, <1>7, <1>8, <1>9, <1>10, <1>11, <1>12,
     <1>13, <1>14 DEF Next, Start, Process

LEMMA InitTmp == Init => TmpInv
BY SentinelsDiffer DEF Init, TmpInv, Saving, Prefixes

\* Only a save touches the .tmp file, and nothing it saves changes meanwhile.
LEMMA NextTmp == TypeOK /\ TmpInv /\ [Next]_vars => TmpInv'
<1> SUFFICES ASSUME TypeOK, TmpInv, [Next]_vars PROVE TmpInv'
  OBVIOUS
<1>1. ASSUME NEW c \in Commands, Start(c) PROVE TmpInv'
  BY <1>1 DEF Start, FreshStart, ResumeStart, RejectResume, AbortResume,
              TmpInv, Saving, Prefixes, Snapshot
<1>2. CASE Train
  <2>1. tmp' = Absent /\ w' = 1
    BY <1>2 DEF Train, TmpInv, Saving, Prefixes
  <2>2. QED
    BY <2>1, SentinelsDiffer DEF TmpInv
<1>3. CASE WriteTmp
  BY <1>3, SentinelsAreNoSnapshots, SnapshotTyped
     DEF WriteTmp, TmpInv, Saving, Snapshot
<1>4. CASE Install
  <2>1. tmp' = Absent /\ (~ Saving' => w' = 1)
    BY <1>4 DEF Install, AfterSave, AfterEval, Saving
  <2>2. QED
    BY <2>1, SentinelsDiffer DEF TmpInv
<1>5. CASE LoadBest \/ KeepCurrent
  BY <1>5 DEF LoadBest, AllButStream, KeepCurrent, Done, TmpInv, Saving, Prefixes, Snapshot
<1>6. CASE AbortRestore \/ AbortTest \/ Report \/ Crash
  BY <1>6, SentinelsDiffer
     DEF AbortRestore, AbortTest, Report, Crash, Stop, TmpInv, Saving, Prefixes
<1>7. CASE Migrate
  BY <1>7 DEF Migrate, TmpInv, Saving, Snapshot
<1>8. CASE UNCHANGED vars
  BY <1>8 DEF vars, TmpInv, Saving, Snapshot
<1>9. QED
  BY <1>1, <1>2, <1>3, <1>4, <1>5, <1>6, <1>7, <1>8 DEF Next, Process

LEMMA TmpAndTypes == Spec => [](TypeOK /\ TmpInv)
BY InitTyped, InitTmp, NextTyped, NextTmp, PTL DEF Spec

\* Every variable keeps its type, whatever the commands, crashes and losses.
THEOREM TypeCorrect == Spec => []TypeOK
BY TmpAndTypes, PTL

-------------------------------------------------------------------------------
(* The files of a set *)

\* What a save does not touch, no other step of a process touches: the files
\* change only where a file is installed or best.* is left behind.
LEMMA DiskSteps ==
    [Next]_vars /\ ~ Install /\ ~ Migrate => UNCHANGED disk
BY DEF Next, Start, FreshStart, ResumeStart, RejectResume, AbortResume,
       Process, Train, WriteTmp, LoadBest, AllButStream, KeepCurrent, AbortRestore, AbortTest, Report,
       Crash, vars

\* A step that is no part of a save starts one at its first file, or none.
LEMMA SaveSteps ==
    TmpInv /\ [Next]_vars /\ ~ Install /\ ~ WriteTmp =>
        \/ w' = 1
        \/ UNCHANGED <<pc, w>>
<1> SUFFICES ASSUME TmpInv, [Next]_vars, ~ Install, ~ WriteTmp
             PROVE  w' = 1 \/ UNCHANGED <<pc, w>>
  OBVIOUS
<1>1. ASSUME NEW c \in Commands, Start(c) PROVE w' = 1 \/ UNCHANGED <<pc, w>>
  BY <1>1 DEF Start, FreshStart, ResumeStart, RejectResume, AbortResume,
              TmpInv, Saving, Prefixes
<1>2. CASE Train \/ LoadBest \/ KeepCurrent
  BY <1>2 DEF Train, LoadBest, AllButStream, KeepCurrent, Done, TmpInv, Saving, Prefixes
<1>3. CASE AbortRestore \/ AbortTest \/ Report \/ Crash
  BY <1>3 DEF AbortRestore, AbortTest, Report, Crash, Stop
<1>4. CASE Migrate
  BY <1>4 DEF Migrate
<1>5. CASE UNCHANGED vars
  BY <1>5 DEF vars
<1>6. QED
  BY <1>1, <1>2, <1>3, <1>4, <1>5 DEF Next, Process

\* .meta is the last of the five.
LEMMA MetaIsLast ==
    /\ \A k \in 1 .. FileCount : FileAt(k) = "meta" <=> k = FileCount
    /\ \A f \in Files : \E k \in 1 .. FileCount : FileAt(k) = f
<1>1. 1 .. FileCount = {1, 2, 3, 4, 5}
  BY DEF FileCount
<1>2. QED
  BY <1>1 DEF FileAt, Files, FileCount

LEMMA NextSets ==
    TypeOK /\ TmpInv /\ MetaImpliesSet /\ WrittenInv /\ [Next]_vars
      => MetaImpliesSet' /\ WrittenInv'
<1> SUFFICES ASSUME TypeOK, TmpInv, MetaImpliesSet, WrittenInv, [Next]_vars
             PROVE  MetaImpliesSet' /\ WrittenInv'
  OBVIOUS
<1>1. CASE Install
  <2> DEFINE f == FileAt(w)
  <2>1. f \in Files /\ pc \in Prefixes /\ tmp /= Absent /\ w \in 1 .. FileCount
    BY <1>1, FileAtIsFile DEF TypeOK, Install, Saving
  <2>2. disk'[pc][f] = tmp
    BY <1>1, <2>1 DEF Install, TypeOK
  <2>3. \A s \in Prefixes : \A g \in Files :
           s /= pc \/ g /= f => disk'[s][g] = disk[s][g]
    BY <1>1, <2>1 DEF Install, TypeOK
  <2>4. \A k \in 1 .. w : disk'[pc][FileAt(k)] /= Absent
    <3> SUFFICES ASSUME NEW k \in 1 .. w PROVE disk'[pc][FileAt(k)] /= Absent
      OBVIOUS
    <3>1. CASE FileAt(k) = f
      BY <2>1, <2>2, <3>1
    <3>2. CASE FileAt(k) /= f
      <4>1. k \in 1 .. w - 1 /\ k \in 1 .. FileCount
        BY <2>1, <3>2 DEF FileCount
      <4>2. disk[pc][FileAt(k)] /= Absent
        BY <1>1, <4>1 DEF WrittenInv, Install
      <4>3. QED
        BY <2>1, <2>3, <3>2, <4>1, <4>2, FileAtIsFile
    <3>3. QED
      BY <3>1, <3>2
  <2>5. MetaImpliesSet'
    <3> SUFFICES ASSUME NEW s \in Prefixes, disk'[s]["meta"] /= Absent,
                        NEW g \in Files
                 PROVE  disk'[s][g] /= Absent
      BY DEF MetaImpliesSet, HasSet
    <3>1. CASE s = pc /\ w = FileCount
      <4>1. PICK k \in 1 .. FileCount : FileAt(k) = g
        BY MetaIsLast
      <4>2. QED
        BY <2>4, <3>1, <4>1
    <3>2. CASE s = pc /\ w /= FileCount
      <4>1. disk[s]["meta"] /= Absent
        BY <2>1, <2>3, <3>2, MetaIsLast DEF Files
      <4>2. disk[s][g] /= Absent
        BY <4>1 DEF MetaImpliesSet, HasSet
      <4>3. QED
        BY <2>1, <2>2, <2>3, <3>2, <4>2
    <3>3. CASE s /= pc
      BY <2>3, <3>3 DEF MetaImpliesSet, HasSet, Files
    <3>4. QED
      BY <3>1, <3>2, <3>3
  <2>6. WrittenInv'
    <3>1. CASE w < FileCount /\ w' = w + 1 /\ UNCHANGED <<pc, step>>
      BY <2>1, <2>4, <3>1 DEF WrittenInv
    <3>2. CASE w' = 1
      BY <3>2 DEF WrittenInv
    <3>3. QED
      BY <1>1, <3>1, <3>2 DEF Install
  <2>7. QED
    BY <2>5, <2>6
<1>2. CASE Migrate
  <2>1. pc' = "off"
    BY <1>2 DEF Migrate
  <2>2. WrittenInv'
    BY <2>1 DEF WrittenInv, Saving, Prefixes
  <2>3. MetaImpliesSet'
    BY <1>2 DEF Migrate, MetaImpliesSet, HasSet, NoFiles, TypeOK, Prefixes, Files
  <2>4. QED
    BY <2>2, <2>3
<1>3. CASE WriteTmp
  BY <1>3 DEF WriteTmp, MetaImpliesSet, HasSet, WrittenInv, Saving
<1>4. CASE ~ Install /\ ~ Migrate /\ ~ WriteTmp
  <2>1. UNCHANGED disk
    BY <1>4, DiskSteps
  <2>2. CASE w' = 1
    BY <2>1, <2>2 DEF MetaImpliesSet, HasSet, WrittenInv
  <2>3. CASE UNCHANGED <<pc, w>>
    BY <2>1, <2>3 DEF MetaImpliesSet, HasSet, WrittenInv, Saving
  <2>4. QED
    BY <1>4, <2>2, <2>3, SaveSteps
<1>5. QED
  BY <1>1, <1>2, <1>3, <1>4

\* Wherever a crash falls in a save, a set whose .meta exists has all its
\* files, cut or of another save as they may be.
THEOREM MetaImpliesSetAlways == Spec => []MetaImpliesSet
<1>1. Init => MetaImpliesSet /\ WrittenInv
  BY DEF Init, MetaImpliesSet, HasSet, WrittenInv, Saving, Prefixes, NoFiles, Files
<1>2. QED
  BY <1>1, NextSets, TmpAndTypes, PTL DEF Spec

-------------------------------------------------------------------------------
(* Exact resume *)

\* One more training step of an uninterrupted run is one.
LEMMA TrainedExact ==
    ASSUME NEW n \in 0 .. MaxStep, n < MaxStep, NEW m, AtPosition(m, n),
           NEW next \in Trained(m)
    PROVE  AtPosition(next, n + 1)
<1>1. PICK i \in Inits : m = [model |-> <<i, n>>, opt |-> <<i, n>>, mt |-> n]
  BY DEF AtPosition
<1>2. OnTrack(m)
  BY <1>1, OffIsNoDraw DEF OnTrack
<1>3. next = [model |-> <<i, n + 1>>, opt |-> <<i, n + 1>>, mt |-> n + 1]
  BY <1>1, <1>2 DEF Trained
<1>4. QED
  BY <1>3 DEF AtPosition

\* A whole set of one save that is a point of an uninterrupted run loads as
\* that point.
LEMMA LoadedExact ==
    ASSUME NEW set \in FileSets, ~ Torn(set), set["meta"] \in Snapshots,
           ExactSnapshot(set["meta"])
    PROVE  AtPosition(Loaded(set), set["meta"].step)
<1>1. \A f \in Files : set[f] = set["meta"]
  BY DEF Torn, Files
<1>2. set["meta"] /= Absent /\ set["meta"] /= Short
  BY SentinelsAreNoSnapshots
<1>3. PICK i \in Inits : /\ set["meta"].model = <<i, set["meta"].step>>
                         /\ set["meta"].opt = <<i, set["meta"].step>>
                         /\ set["meta"].mt = set["meta"].step
  BY DEF ExactSnapshot
<1>4. QED
  BY <1>1, <1>2, <1>3 DEF Loaded, LoadedMt, AtPosition, Files

\* A save of exact memory is an exact snapshot.
LEMMA SavedExact ==
    ASSUME AtPosition(mem, step)
    PROVE  ExactSnapshot(Snapshot)
BY DEF AtPosition, ExactSnapshot, Snapshot

LEMMA NextExact ==
    TypeOK /\ TmpInv /\ LatestExact /\ ExactResume /\ [Next]_vars
      => LatestExact' /\ ExactResume'
<1> SUFFICES ASSUME TypeOK, TmpInv, LatestExact, ExactResume, [Next]_vars, ~ torn'
             PROVE  /\ \A f \in Files : Readable(disk'["latest"][f])
                                          => ExactSnapshot(disk'["latest"][f])
                    /\ Working' => AtPosition(mem', Held')
  BY DEF LatestExact, ExactResume, Readable, ExactSnapshot, AtPosition, Held
<1>0. ~ torn /\ disk["latest"] \in FileSets
  <2>1. torn => torn'
    BY DEF Next, Start, FreshStart, ResumeStart, RejectResume, AbortResume,
           Process, Train, WriteTmp, Install, LoadBest, AllButStream, KeepCurrent,
           AbortRestore, AbortTest, Report, Crash, Migrate, vars
  <2>2. QED
    BY <2>1 DEF TypeOK, FileSets, FileValues, Prefixes
<1>1. Working => AtPosition(mem, Held)
  BY <1>0 DEF ExactResume, AtPosition, Held
<1>2. \A f \in Files : Readable(disk["latest"][f]) => ExactSnapshot(disk["latest"][f])
  BY <1>0 DEF LatestExact
<1>3. CASE Install
  <2>1. FileAt(w) \in Files /\ pc \in Prefixes /\ tmp \in {Absent, Short, Snapshot}
    BY <1>3, FileAtIsFile DEF Install, TypeOK, TmpInv, Saving
  <2>2. AtPosition(mem, step)
    BY <1>1, <2>1 DEF Working, Held, Prefixes
  <2>3. Readable(tmp) => ExactSnapshot(tmp)
    BY <2>1, <2>2, SavedExact DEF Readable
  <2>4. \A f \in Files : disk'["latest"][f] \in {disk["latest"][f], tmp}
    BY <1>3, <2>1 DEF Install, TypeOK, Prefixes
  <2>5. Held' = step
    <3>1. step \in Int
      BY DEF TypeOK
    <3>2. CASE w < FileCount /\ w' = w + 1 /\ UNCHANGED <<pc, step>>
      BY <2>1, <3>2 DEF Held, Prefixes
    <3>3. CASE AfterSave
      BY <3>1, <3>3 DEF AfterSave, AfterEval, NextStep, Held
    <3>4. QED
      BY <1>3, <3>2, <3>3 DEF Install
  <2>6. mem' = mem
    BY <1>3 DEF Install
  <2>7. QED
    BY <1>2, <2>2, <2>3, <2>4, <2>5, <2>6 DEF Readable
<1>4. CASE ~ Install
  <2>1. \A f \in Files : disk'["latest"][f] = disk["latest"][f]
    <3>1. CASE Migrate
      BY <3>1 DEF Migrate, TypeOK, Prefixes
    <3>2. CASE ~ Migrate
      BY <1>4, <3>2, DiskSteps
    <3>3. QED
      BY <3>1, <3>2
  <2>2. Working' => AtPosition(mem', Held')
    <3>1. ASSUME NEW c \in Commands, FreshStart(c)
          PROVE  AtPosition(mem', Held')
      <4>1. Held' = 0
        BY <3>1 DEF FreshStart, Held
      <4>2. QED
        BY <3>1, <4>1 DEF FreshStart, AtPosition
    <3>2. ASSUME NEW c \in Commands, ResumeStart(c)
          PROVE  AtPosition(mem', Held')
      <4> DEFINE meta == disk["latest"]["meta"]
      <4>1. meta \in Snapshots
        BY <1>0, <3>2, AcceptedMetaTyped DEF ResumeStart, Resumes
      <4>2. ExactSnapshot(meta)
        BY <1>2, <4>1, SentinelsAreNoSnapshots DEF Readable, Files
      <4>3. ~ Torn(disk["latest"])
        BY <3>2 DEF ResumeStart
      <4>4. AtPosition(Loaded(disk["latest"]), meta.step)
        BY <1>0, <4>1, <4>2, <4>3, LoadedExact
      <4>5. Held' = meta.step
        <5>1. meta.step \in Int
          BY <4>1 DEF Snapshots
        <5>2. QED
          BY <3>2, <5>1 DEF ResumeStart, StartStep, Held
      <4>6. QED
        BY <3>2, <4>4, <4>5 DEF ResumeStart
    <3>3. CASE Train
      <4>1. AtPosition(mem, step - 1) /\ step - 1 \in 0 .. MaxStep /\ step - 1 < MaxStep
        <5>1. cmd \in Commands /\ step <= cmd.steps
          BY <3>3 DEF Train, InLoop, TypeOK
        <5>2. QED
          BY <1>1, <3>3, <5>1, CommandsAreTyped, StepBound
             DEF Train, TypeOK, Working, Held
      <4>2. AtPosition(mem', step)
        <5>1. AtPosition(mem', (step - 1) + 1)
          BY <3>3, <4>1, TrainedExact DEF Train
        <5>2. QED
          BY <5>1 DEF TypeOK
      <4>3. Held' = step
        BY <3>3 DEF Train, AfterEval, NextStep, Held, TypeOK
      <4>4. QED
        BY <4>2, <4>3
    <3>4. ASSUME NEW c \in Commands, RejectResume(c) \/ AbortResume(c)
          PROVE  ~ Working'
      BY <3>4 DEF RejectResume, AbortResume, Working
    <3>5. CASE WriteTmp
      BY <1>1, <3>5 DEF WriteTmp, Working, Held
    <3>6. CASE LoadBest \/ KeepCurrent
      BY <3>6 DEF LoadBest, AllButStream, KeepCurrent, Working
    <3>7. CASE AbortRestore \/ AbortTest \/ Report \/ Crash
      BY <3>7 DEF AbortRestore, AbortTest, Report, Crash, Stop, Working
    <3>8. CASE Migrate \/ UNCHANGED vars
      BY <1>1, <3>8 DEF Migrate, vars, Working, Held
    <3>9. QED
      BY <1>4, <3>1, <3>2, <3>3, <3>4, <3>5, <3>6, <3>7, <3>8
         DEF Next, Start, Process
  <2>3. QED
    BY <1>2, <2>1, <2>2
<1>5. QED
  BY <1>3, <1>4

\* Killed and resumed anywhere, a process that has not met a torn set is where
\* the uninterrupted run is.
THEOREM ExactResumeAlways == Spec => []ExactResume
<1>1. Init => LatestExact /\ ExactResume
  BY DEF Init, LatestExact, ExactResume, Working, Readable, NoFiles, Files, Prefixes
<1>2. QED
  BY <1>1, NextExact, TmpAndTypes, PTL DEF Spec

-------------------------------------------------------------------------------
(* One run, always restarted with --resume *)

AllResume == \A c \in Commands : c.resume

\* Installing a file changes best.model or latest.meta only when it is that
\* file's turn, and then to what the process holds.
LEMMA InstalledFiles ==
    ASSUME TypeOK, TmpInv, Install
    PROVE  /\ pc = "best" /\ w = 1 => BestOnDisk' = Snapshot
           /\ ~ (pc = "best" /\ w = 1) => BestOnDisk' = BestOnDisk
           /\ pc = "latest" /\ w = FileCount => LatestMeta' \in {Short, Snapshot}
           /\ ~ (pc = "latest" /\ w = FileCount) => LatestMeta' = LatestMeta
<1>1. w \in 1 .. FileCount /\ FileAt(w) \in Files /\ pc \in Prefixes
  BY FileAtIsFile DEF TypeOK, Install, Saving
<1>2. disk' = [disk EXCEPT ![pc][FileAt(w)] = tmp] /\ tmp \in {Short, Snapshot}
  BY DEF Install, TmpInv
<1>3. (FileAt(w) = "model" <=> w = 1) /\ (FileAt(w) = "meta" <=> w = FileCount)
  <2>1. w \in {1, 2, 3, 4, 5}
    BY <1>1 DEF FileCount
  <2>2. QED
    BY <2>1 DEF FileAt, FileCount
<1>4. w = 1 => tmp = Snapshot
  BY <1>2, <1>3, ArchivesNotCut DEF TmpInv
<1>5. QED
  BY <1>1, <1>2, <1>3, <1>4 DEF BestOnDisk, LatestMeta, TypeOK, Prefixes, Files

\* A fresh start under resuming commands means that `latest` has no .meta.
LEMMA FreshHasNoLatest ==
    ASSUME AllResume, NEW c \in Commands, FreshStart(c)
    PROVE  LatestMeta = Absent
BY DEF AllResume, FreshStart, Resumes, HasSet, LatestMeta

\* best.model and latest.meta change only in Install and Migrate.
LEMMA KeptFiles ==
    ASSUME TypeOK, [Next]_vars, ~ Install
    PROVE  /\ LatestMeta' = LatestMeta
           /\ BestOnDisk' \in {BestOnDisk, Absent}
<1>1. CASE Migrate
  BY <1>1 DEF Migrate, TypeOK, Prefixes, BestOnDisk, LatestMeta, NoFiles, Files
<1>2. CASE ~ Migrate
  BY <1>2, DiskSteps DEF BestOnDisk, LatestMeta
<1>3. QED
  BY <1>1, <1>2

\* The weights on disk have losses.
LEMMA LossTyped ==
    ASSUME TypeOK
    PROVE  /\ BestOnDisk /= Absent => score[BestOnDisk.model] \in Losses
           /\ score[mem.model] \in Losses
           /\ Readable(LatestMeta) => LatestMeta \in Snapshots
BY DEF TypeOK, BestOnDisk, LatestMeta, Snapshots, Prefixes, Files, Readable

LEMMA NextChain ==
    ASSUME AllResume
    PROVE  TypeOK /\ TmpInv /\ BestChain /\ [Next]_vars => BestChain'
<1> SUFFICES ASSUME TypeOK, TmpInv, BestChain, [Next]_vars PROVE BestChain'
  OBVIOUS
<1>0. score' = score
  BY DEF Next, Start, FreshStart, ResumeStart, RejectResume, AbortResume,
         Process, Train, WriteTmp, Install, LoadBest, AllButStream, KeepCurrent,
         AbortRestore, AbortTest, Report, Crash, Migrate, vars
<1>1. ASSUME NEW c \in Commands, FreshStart(c) PROVE BestChain'
  <2>1. LatestMeta' = Absent /\ best' = Inf /\ BestOnDisk' = BestOnDisk /\ pc' = "loop"
    BY <1>1, FreshHasNoLatest DEF FreshStart, BestOnDisk, LatestMeta
  <2>2. QED
    BY <1>0, <2>1, LossTyped, LossBound DEF BestChain, Readable, Losses
<1>2. ASSUME NEW c \in Commands, ResumeStart(c) PROVE BestChain'
  <2>1. LatestMeta \in Snapshots /\ Readable(LatestMeta)
    <3>1. disk["latest"] \in FileSets
      BY DEF TypeOK, FileSets, FileValues, Prefixes
    <3>2. QED
      BY <1>2, <3>1, AcceptedMetaTyped, SentinelsAreNoSnapshots
         DEF ResumeStart, Resumes, Readable, LatestMeta
  <2>2. UNCHANGED disk /\ best' = LatestMeta.best /\ pc' = "loop"
    BY <1>2 DEF ResumeStart, CarriedBest, LatestMeta
  <2>3. LatestMeta.best \in Nat
    BY <2>1, LossBound DEF Snapshots, Losses
  <2>4. QED
    BY <1>0, <2>1, <2>2, <2>3 DEF BestChain, BestOnDisk, LatestMeta
<1>3. CASE Train
  <2>1. UNCHANGED disk /\ w' = 1 /\ pc = "loop"
    BY <1>3 DEF Train, TmpInv, Saving, Prefixes
  <2>2. \/ best' = best /\ pc' \in {"loop", "latest"}
        \/ best' = score[mem'.model] /\ best' < best /\ pc' = "best"
    BY <1>3 DEF Train, AfterEval, Improved
  <2>3. best \in Int /\ best' \in Int /\ (Readable(LatestMeta) => LatestMeta.best \in Int)
    <3>1. TypeOK'
      BY NextTyped
    <3>2. QED
      BY <3>1, LossTyped DEF TypeOK, Losses, Snapshots
  <2>4. QED
    BY <1>0, <2>1, <2>2, <2>3 DEF BestChain, BestOnDisk, LatestMeta, Readable
<1>4. CASE WriteTmp
  BY <1>4 DEF WriteTmp, BestChain, BestOnDisk, LatestMeta
<1>5. CASE Install
  <2>1. UNCHANGED <<best, mem>> /\ pc \in {"best", "latest"} /\ w \in 1 .. FileCount
    BY <1>5 DEF Install, Saving, Prefixes, TypeOK
  <2>2. pc' = "best" => pc = "best" /\ w' /= 1
    BY <1>5, <2>1 DEF Install, AfterSave, AfterEval, FileCount
  <2>3. Snapshot.best = best /\ Snapshot.model = mem.model /\ best \in Int
    BY DEF Snapshot, TypeOK, Losses
  <2>4. CASE pc = "best" /\ w = 1
    <3>1. BestOnDisk' = Snapshot /\ LatestMeta' = LatestMeta
      BY <1>5, <2>4, InstalledFiles
    <3>2. QED
      BY <1>0, <2>1, <2>2, <2>3, <2>4, <3>1 DEF BestChain
  <2>5. CASE pc = "latest" /\ w = FileCount
    <3>1. BestOnDisk' = BestOnDisk /\ LatestMeta' \in {Short, Snapshot}
      BY <1>5, <2>5, InstalledFiles
    <3>2. QED
      BY <1>0, <2>1, <2>2, <2>3, <2>5, <3>1 DEF BestChain, Readable
  <2>6. CASE ~ (pc = "best" /\ w = 1) /\ ~ (pc = "latest" /\ w = FileCount)
    <3>1. BestOnDisk' = BestOnDisk /\ LatestMeta' = LatestMeta
      BY <1>5, <2>6, InstalledFiles
    <3>2. QED
      BY <1>0, <2>1, <2>2, <2>6, <3>1 DEF BestChain, Readable
  <2>7. QED
    BY <2>4, <2>5, <2>6
<1>6. CASE LoadBest \/ KeepCurrent
  BY <1>0, <1>6 DEF LoadBest, AllButStream, KeepCurrent, Done, BestChain, BestOnDisk, LatestMeta
<1>7. CASE UNCHANGED vars
  BY <1>7 DEF vars, BestChain, BestOnDisk, LatestMeta
<1>8. CASE pc' = "off" /\ ~ Install
  BY <1>0, <1>8, KeptFiles DEF BestChain
<1>9. QED
  BY <1>1, <1>2, <1>3, <1>4, <1>5, <1>6, <1>7, <1>8
     DEF Next, Start, RejectResume, AbortResume, Process, AbortRestore, AbortTest, Report,
         Crash, Stop, Migrate, Install, Saving, Prefixes

LEMMA NextBestKept ==
    TypeOK /\ BestChain /\ BestKept /\ [Next]_vars => BestKept'
<1> SUFFICES ASSUME TypeOK, BestChain, BestKept, [Next]_vars,
                    pc' = "report", HasSet(disk'["best"])
             PROVE  score'[mem'.model] <= best'
  BY DEF BestKept
<1>1. CASE LoadBest
  <2>1. BestOnDisk /= Absent /\ mem'.model = BestOnDisk.model
    BY <1>1 DEF LoadBest, AllButStream, LoadThrows, Loaded, BestOnDisk, LatestMeta
  <2>2. QED
    BY <1>1, <2>1 DEF LoadBest, AllButStream, Done, BestChain
<1>2. CASE KeepCurrent
  <2>1. ~ (best < Inf)
    BY <1>2 DEF KeepCurrent, BestIsHere
  <2>2. QED
    BY <1>2, <2>1, LossTyped, LossBound DEF KeepCurrent, TypeOK, Losses
<1>3. CASE UNCHANGED <<pc, mem, best, score, disk>>
  BY <1>3 DEF BestKept
<1>4. QED
  BY <1>1, <1>2, <1>3
     DEF Next, Start, FreshStart, ResumeStart, RejectResume, AbortResume,
         Process, Train, AfterEval, WriteTmp, Install, AfterSave, AbortRestore,
         AbortTest, Report, Crash, Stop, Migrate, Saving, Prefixes, vars

LEMMA ChainAlways == ASSUME AllResume PROVE Spec => []BestChain
<1>1. Init => BestChain
  BY DEF Init, BestChain, BestOnDisk, LatestMeta, Readable, NoFiles, Files, Prefixes
<1>2. QED
  BY <1>1, NextChain, TmpAndTypes, PTL DEF Spec

\* The reported weights are never worse than the best loss a run remembers,
\* crashes, torn sets and full disks included, if it is always resumed.
THEOREM BestKeptAlways == ASSUME AllResume PROVE Spec => []BestKept
<1>1. Init => BestKept
  BY DEF Init, BestKept
<1>2. QED
  BY <1>1, NextBestKept, ChainAlways, TmpAndTypes, PTL DEF Spec

LEMMA NextSuccession ==
    ASSUME AllResume
    PROVE  TypeOK /\ TmpInv /\ Succession /\ [Next]_vars => Succession'
<1> SUFFICES ASSUME TypeOK, TmpInv, Succession, [Next]_vars,
                    pc' /= "off", Readable(LatestMeta')
             PROVE  LatestMeta'.step < step' /\ LatestMeta'.fp = cmd'.fp
  BY DEF Succession, Readable, LatestMeta
<1>1. ASSUME NEW c \in Commands, FreshStart(c) PROVE FALSE
  BY <1>1, FreshHasNoLatest DEF FreshStart, LatestMeta, Readable
<1>2. ASSUME NEW c \in Commands, ResumeStart(c)
      PROVE  LatestMeta'.step < step' /\ LatestMeta'.fp = cmd'.fp
  <2>1. LatestMeta' = LatestMeta /\ step' = LatestMeta.step + 1 /\ cmd' = c
        /\ LatestMeta.fp = c.fp
    BY <1>2 DEF ResumeStart, StartStep, SameFingerprint, LatestMeta
  <2>2. LatestMeta.step \in Int
    BY <2>1, LossTyped DEF Snapshots
  <2>3. QED
    BY <2>1, <2>2
<1>3. CASE Train
  <2>1. LatestMeta' = LatestMeta /\ cmd' = cmd /\ pc /= "off"
    BY <1>3 DEF Train, LatestMeta
  <2>2. step' \in {step, step + 1} /\ step \in Int
    BY <1>3 DEF Train, AfterEval, NextStep, TypeOK
  <2>3. LatestMeta.step < step /\ LatestMeta.fp = cmd.fp /\ LatestMeta.step \in Int
    BY <2>1, LossTyped DEF Succession, Snapshots
  <2>4. QED
    BY <2>1, <2>2, <2>3
<1>4. CASE Install
  <2>1. cmd' = cmd /\ pc /= "off" /\ step \in Int
    BY <1>4 DEF Install, Saving, Prefixes, TypeOK
  <2>2. step' \in {step, step + 1}
    BY <1>4 DEF Install, AfterSave, AfterEval, NextStep
  <2>3. CASE pc = "latest" /\ w = FileCount
    <3>1. LatestMeta' = Snapshot
      BY <1>4, <2>3, InstalledFiles DEF Readable
    <3>2. step' = step + 1
      BY <1>4, <2>3 DEF Install, AfterSave, NextStep, FileCount
    <3>3. QED
      BY <2>1, <3>1, <3>2 DEF Snapshot
  <2>4. CASE ~ (pc = "latest" /\ w = FileCount)
    <3>1. LatestMeta' = LatestMeta
      BY <1>4, <2>4, InstalledFiles
    <3>2. LatestMeta.step < step /\ LatestMeta.fp = cmd.fp /\ LatestMeta.step \in Int
      BY <2>1, <3>1, LossTyped DEF Succession, Snapshots
    <3>3. QED
      BY <2>1, <2>2, <3>1, <3>2
  <2>5. QED
    BY <2>3, <2>4
<1>5. CASE pc /= "off" /\ UNCHANGED <<disk, step, cmd>>
  BY <1>5 DEF Succession, LatestMeta
<1>6. QED
  BY <1>1, <1>2, <1>3, <1>4, <1>5
     DEF Next, Start, RejectResume, AbortResume, Process, WriteTmp, LoadBest,
         KeepCurrent, Done, AbortRestore, AbortTest, Report, Crash, Stop, Migrate, Saving,
         Prefixes, vars

LEMMA SuccessionAlways == ASSUME AllResume PROVE Spec => []Succession
<1>1. Init => Succession
  BY DEF Init, Succession
<1>2. QED
  BY <1>1, NextSuccession, TmpAndTypes, PTL DEF Spec

\* Where latest.meta is replaced by another readable one, it is by what the
\* process holds, which has come further.
LEMMA LatestAdvances ==
    ASSUME TypeOK, TmpInv, BestChain, Succession, [Next]_vars,
           Readable(LatestMeta), Readable(LatestMeta')
    PROVE  /\ LatestMeta'.step >= LatestMeta.step
           /\ LatestMeta'.best <= LatestMeta.best
           /\ LatestMeta'.fp = LatestMeta.fp
<1>0. LatestMeta.step \in Int /\ LatestMeta.best \in Int
  BY LossTyped, LossBound DEF Snapshots, Losses
<1>1. CASE Install
  <2>1. pc /= "off" /\ step \in Int /\ best \in Int
    BY <1>1, LossBound DEF Install, Saving, Prefixes, TypeOK, Losses
  <2>2. LatestMeta' = LatestMeta \/ LatestMeta' = Snapshot
    BY <1>1, InstalledFiles DEF Readable
  <2>3. LatestMeta.step < step /\ LatestMeta.fp = cmd.fp /\ best <= LatestMeta.best
    BY <2>1 DEF Succession, BestChain
  <2>4. QED
    BY <1>0, <2>1, <2>2, <2>3 DEF Snapshot
<1>2. CASE ~ Install
  BY <1>0, <1>2, KeptFiles
<1>3. QED
  BY <1>1, <1>2

\* The saved progress of a run that is always resumed never goes back ...
THEOREM ProgressKeptAlways == ASSUME AllResume PROVE Spec => ProgressKept
<1>1. TypeOK /\ TmpInv /\ BestChain /\ Succession /\ [Next]_vars
        => [Readable(LatestMeta) /\ Readable(LatestMeta')
              => LatestMeta'.step >= LatestMeta.step]_disk
  BY LatestAdvances
<1>2. QED
  BY <1>1, TmpAndTypes, ChainAlways, SuccessionAlways, PTL DEF Spec, ProgressKept

\* ... nor does the best loss it carries get worse ...
THEOREM BestSoFarSurvivesAlways ==
    ASSUME AllResume PROVE Spec => BestSoFarSurvives
<1>1. TypeOK /\ TmpInv /\ BestChain /\ Succession /\ [Next]_vars
        => [Readable(LatestMeta) /\ Readable(LatestMeta')
              => LatestMeta'.best <= LatestMeta.best]_disk
  BY LatestAdvances
<1>2. QED
  BY <1>1, TmpAndTypes, ChainAlways, SuccessionAlways, PTL DEF Spec, BestSoFarSurvives

\* ... nor does its directory pass to another model structure.
THEOREM FingerprintStableAlways ==
    ASSUME AllResume PROVE Spec => FingerprintStable
<1>1. TypeOK /\ TmpInv /\ BestChain /\ Succession /\ [Next]_vars
        => [Readable(LatestMeta) /\ Readable(LatestMeta')
              => LatestMeta'.fp = LatestMeta.fp]_disk
  BY LatestAdvances
<1>2. QED
  BY <1>1, TmpAndTypes, ChainAlways, SuccessionAlways, PTL DEF Spec, FingerprintStable

-------------------------------------------------------------------------------
(* The work of a process *)

\* A process saves only while it has not passed its last step.
InTime == Saving => step <= cmd.steps

LEMMA NextInTime == TypeOK /\ InTime /\ [Next]_vars => InTime'
<1> SUFFICES ASSUME TypeOK, InTime, [Next]_vars, Saving'
             PROVE  step' <= cmd'.steps
  BY DEF InTime
<1>1. CASE Train
  BY <1>1 DEF Train, InLoop, AfterEval, Saving, Prefixes
<1>2. CASE Install
  <2>1. Saving /\ cmd' = cmd
    BY <1>2 DEF Install
  <2>2. step' = step
    BY <1>2 DEF Install, AfterSave, AfterEval, Saving, Prefixes
  <2>3. QED
    BY <2>1, <2>2 DEF InTime
<1>3. CASE WriteTmp \/ UNCHANGED vars
  BY <1>3 DEF WriteTmp, vars, InTime, Saving
<1>4. QED
  BY <1>1, <1>2, <1>3
     DEF Next, Start, FreshStart, ResumeStart, RejectResume, AbortResume,
         Process, LoadBest, KeepCurrent, AbortRestore, AbortTest, Report,
         Crash, Stop, Migrate, Saving, Prefixes

LEMMA InTimeAlways == Spec => []InTime
<1>1. Init => InTime
  BY DEF Init, InTime, Saving, Prefixes
<1>2. QED
  BY <1>1, NextInTime, TmpAndTypes, PTL DEF Spec

\* An iteration has its share of the work.
LEMMA LoopWorkIs ==
    ASSUME TypeOK, cmd \in Commands, NEW n \in 1 .. MaxStep + 1
    PROVE  /\ LoopWork(n) \in Nat /\ LoopWork(n) >= 2
           /\ n <= cmd.steps => LoopWork(n) = RoundWork + LoopWork(n + 1)
BY CommandsAreTyped, StepBound DEF LoopWork, InLoop, RoundWork, SetWork, FileCount

\* The files that a save has still to write and rename.
LEMMA SetWorkIs ==
    ASSUME TypeOK
    PROVE  SetWorkLeft \in 1 .. SetWork
BY DEF TypeOK, SetWorkLeft, SetWork, FileCount

\* What is left of an iteration once its evaluation is dealt with: a `latest`
\* set, or nothing.
LEMMA AfterEvalWork ==
    ASSUME TypeOK, cmd \in Commands, step <= MaxStep, AfterEval(step),
           UNCHANGED cmd, w' = 1, tmp' = Absent
    PROVE  WorkLeft' \in {LoopWork(step + 1), LoopWork(step + 1) + SetWork}
<1>1. LoopWork(step + 1) \in Nat
  BY LoopWorkIs, StepBound DEF TypeOK
<1>2. QED
  BY <1>1 DEF AfterEval, NextStep, WorkLeft, LoopWork, InLoop, SetWorkLeft, SetWork, FileCount

LEMMA ProcessCounts ==
    ASSUME TypeOK, TmpInv, InTime, Process
    PROVE  WorkLeft \in Nat /\ WorkLeft' < WorkLeft
<1>0. FileCount = 5 /\ SetWork = 10 /\ RoundWork = 21
  BY DEF FileCount, SetWork, RoundWork
<1>1. CASE Train
  <2>1. cmd \in Commands /\ step \in 1 .. MaxStep + 1 /\ step <= MaxStep /\ step <= cmd.steps
    BY <1>1, CommandsAreTyped, StepBound DEF Train, InLoop, TypeOK
  <2>2. LoopWork(step) = 21 + LoopWork(step + 1) /\ LoopWork(step) \in Nat
        /\ LoopWork(step + 1) \in Nat
    BY <1>0, <2>1, LoopWorkIs, StepBound
  <2>3. WorkLeft = LoopWork(step)
    BY <1>1 DEF Train, WorkLeft
  <2>4. w' = 1 /\ tmp' = Absent /\ cmd' = cmd
    BY <1>1 DEF Train, TmpInv, Saving, Prefixes
  <2>5. CASE pc' = "best" /\ step' = step
    <3>1. WorkLeft' = LoopWork(step + 1) + 20
      BY <1>0, <2>2, <2>4, <2>5 DEF WorkLeft, LoopWork, InLoop, SetWorkLeft
    <3>2. QED
      BY <2>2, <2>3, <3>1
  <2>6. CASE AfterEval(step)
    <3>1. WorkLeft' \in {LoopWork(step + 1), LoopWork(step + 1) + 10}
      BY <1>0, <2>1, <2>4, <2>6, AfterEvalWork
    <3>2. QED
      BY <2>2, <2>3, <3>1
  <2>7. QED
    BY <1>1, <2>5, <2>6 DEF Train
<1>2. CASE WriteTmp
  <2>1. pc \in Prefixes /\ cmd \in Commands /\ step + 1 \in 1 .. MaxStep + 1
    BY <1>2, StepBound DEF WriteTmp, Saving, TypeOK, Prefixes
  <2>2. LoopWork(step + 1) \in Nat /\ SetWorkLeft \in 1 .. 10
    BY <1>0, <2>1, LoopWorkIs, SetWorkIs
  <2>3. SetWorkLeft' = SetWorkLeft - 1
    <3>1. tmp' /= Absent
      BY <1>2, SentinelsDiffer, SnapshotTyped, SentinelsAreNoSnapshots DEF WriteTmp
    <3>2. QED
      BY <1>2, <3>1 DEF WriteTmp, SetWorkLeft, TypeOK, FileCount
  <2>4. LoopWork(step + 1)' = LoopWork(step + 1) /\ pc' = pc
    BY <1>2 DEF WriteTmp, LoopWork, InLoop
  <2>5. WorkLeft = LoopWork(step + 1) + (IF pc = "best" THEN 10 ELSE 0) + SetWorkLeft
    BY <1>0, <2>1, <2>2 DEF WorkLeft, Prefixes
  <2>6. WorkLeft' = LoopWork(step + 1) + (IF pc = "best" THEN 10 ELSE 0) + SetWorkLeft'
    BY <1>0, <2>1, <2>2, <2>3, <2>4 DEF WorkLeft, Prefixes
  <2>7. QED
    BY <2>2, <2>3, <2>5, <2>6
<1>3. CASE Install
  <2>1. pc \in Prefixes /\ cmd \in Commands /\ step \in 1 .. MaxStep
        /\ step + 1 \in 1 .. MaxStep + 1 /\ w \in 1 .. 5
    BY <1>0, <1>3, StepBound DEF Install, Saving, TypeOK, Prefixes
  <2>2. LoopWork(step + 1) \in Nat /\ SetWorkLeft \in 1 .. 10
    BY <1>0, <2>1, LoopWorkIs, SetWorkIs
  <2>3. WorkLeft = LoopWork(step + 1) + (IF pc = "best" THEN 10 ELSE 0) + SetWorkLeft
    BY <1>0, <2>1, <2>2 DEF WorkLeft, Prefixes
  <2>4. CASE w < FileCount /\ w' = w + 1 /\ UNCHANGED <<pc, step>>
    <3>1. SetWorkLeft' = SetWorkLeft - 1
      BY <1>3, <2>1, <2>4 DEF Install, SetWorkLeft, FileCount
    <3>2. LoopWork(step + 1)' = LoopWork(step + 1)
      BY <1>3, <2>4 DEF Install, LoopWork, InLoop
    <3>3. WorkLeft' = LoopWork(step + 1) + (IF pc = "best" THEN 10 ELSE 0) + SetWorkLeft'
      BY <1>0, <2>1, <2>2, <2>4, <3>1, <3>2 DEF WorkLeft, Prefixes
    <3>4. QED
      BY <2>2, <2>3, <3>1, <3>3
  <2>5. CASE pc = "best" /\ w' = 1 /\ AfterEval(step)
    <3>1. tmp' = Absent /\ cmd' = cmd
      BY <1>3 DEF Install
    <3>2. WorkLeft' \in {LoopWork(step + 1), LoopWork(step + 1) + 10}
      BY <1>0, <2>1, <2>5, <3>1, AfterEvalWork
    <3>3. QED
      BY <2>2, <2>3, <2>5, <3>2
  <2>6. CASE pc = "latest" /\ pc' = "loop" /\ step' = step + 1
    <3>1. WorkLeft' = LoopWork(step + 1)
      BY <1>3, <2>6 DEF Install, WorkLeft, LoopWork, InLoop
    <3>2. QED
      BY <2>2, <2>3, <2>6, <3>1
  <2>7. QED
    BY <1>3, <2>1, <2>4, <2>5, <2>6 DEF Install, AfterSave, NextStep, Prefixes
<1>4. CASE LoadBest \/ KeepCurrent \/ AbortRestore
  <2>1. pc = "loop" /\ ~ InLoop(step)
    BY <1>4 DEF LoadBest, KeepCurrent, AbortRestore, Done
  <2>2. pc' \in {"report", "off"}
    BY <1>4 DEF LoadBest, KeepCurrent, AbortRestore, Stop
  <2>3. WorkLeft = 2
    BY <2>1 DEF WorkLeft, LoopWork
  <2>4. WorkLeft' \in {0, 1}
    BY <2>2 DEF WorkLeft
  <2>5. QED
    BY <2>3, <2>4
<1>5. CASE AbortTest \/ Report
  <2>1. pc = "report" /\ pc' = "off"
    BY <1>5 DEF AbortTest, Report, Stop
  <2>2. WorkLeft = 1 /\ WorkLeft' = 0
    BY <2>1 DEF WorkLeft
  <2>3. QED
    BY <2>2
<1>6. QED
  BY <1>1, <1>2, <1>3, <1>4, <1>5 DEF Process

\* However a process was started, it has only so many steps left, and each of
\* its steps takes one of them or more.
THEOREM EveryStepCountsAlways == Spec => EveryStepCounts
<1>1. TypeOK /\ TmpInv /\ InTime /\ [Next]_vars
        => [Process => WorkLeft \in Nat /\ WorkLeft' < WorkLeft]_vars
  BY ProcessCounts
<1>2. QED
  BY <1>1, TmpAndTypes, InTimeAlways, PTL DEF Spec, EveryStepCounts

-------------------------------------------------------------------------------
(* The work that a kill loses *)

\* Every checkpoint that was due before this step has been saved.
DueSaved ==
    Working /\ LatestMeta /= Short =>
        \A k \in 1 .. step - 1 : k % CkptPeriod = 0 => k <= SavedStep

\* Any number has a multiple of the period less than a period before it.
LEMMA LastMultiple ==
    ASSUME NEW p \in Nat \ {0}, NEW n \in Nat
    PROVE  \E k \in 0 .. n : k % p = 0 /\ n - k < p
<1> DEFINE k == p * (n \div p)
<1>1. n % p \in 0 .. p - 1 /\ n \div p \in Nat /\ n = k + (n % p)
  OBVIOUS
<1>2. k \in Nat
  BY <1>1
<1>3. k \in 0 .. n /\ n - k < p
  BY <1>1, <1>2
<1>4. k % p = 0
  BY <1>1, <1>2
<1>5. QED
  BY <1>3, <1>4

\* What latest.meta says is saved has its type.
LEMMA SavedTyped ==
    ASSUME TypeOK, LatestMeta /= Short
    PROVE  SavedStep \in 0 .. MaxStep
BY StepBound, LossTyped DEF SavedStep, Readable, Snapshots

LEMMA NextDueSaved == TypeOK /\ TmpInv /\ DueSaved /\ [Next]_vars => DueSaved'
<1> SUFFICES ASSUME TypeOK, TmpInv, DueSaved, [Next]_vars,
                    Working', LatestMeta' /= Short,
                    NEW k \in Nat \ {0}, k < step', k % CkptPeriod = 0
             PROVE  k <= SavedStep'
  <2>1. TypeOK /\ TmpInv /\ [Next]_vars => step' \in Nat
    BY NextTyped DEF TypeOK
  <2>2. QED
    BY <2>1 DEF DueSaved, CkptPeriod
<1>1. ASSUME NEW c \in Commands, FreshStart(c) PROVE FALSE
  <2>1. step' = 1
    BY <1>1 DEF FreshStart
  <2>2. QED
    BY <2>1
<1>2. ASSUME NEW c \in Commands, ResumeStart(c) PROVE k <= SavedStep'
  <2>1. LatestMeta' = LatestMeta /\ LatestMeta /= Absent /\ step' = LatestMeta.step + 1
    BY <1>2 DEF ResumeStart, Resumes, HasSet, StartStep, LatestMeta
  <2>2. SavedStep' = LatestMeta.step /\ LatestMeta.step \in Int
    BY <2>1, SavedTyped DEF SavedStep
  <2>3. QED
    BY <2>1, <2>2
<1>3. CASE Train
  <2>1. LatestMeta' = LatestMeta /\ Working /\ step \in Nat
    BY <1>3 DEF Train, LatestMeta, Working, TypeOK
  <2>2. SavedStep' = SavedStep
    BY <2>1 DEF SavedStep
  <2>3. k \in 1 .. step - 1
    <3>1. CASE step' = step
      BY <2>1, <3>1
    <3>2. CASE step' = step + 1 /\ ~ CkptDue(step)
      BY <2>1, <3>2 DEF CkptDue
    <3>3. QED
      BY <1>3, <3>1, <3>2 DEF Train, AfterEval, NextStep
  <2>4. QED
    BY <2>1, <2>2, <2>3 DEF DueSaved
<1>4. CASE Install
  <2>1. /\ Working /\ step \in Nat /\ step' \in Nat
        /\ step' = step \/ step' = step + 1
    BY <1>4, StepBound
       DEF Install, AfterSave, AfterEval, NextStep, Saving, Prefixes, Working, TypeOK
  <2>2. CASE pc = "latest" /\ w = FileCount
    <3>1. LatestMeta' = Snapshot
      BY <1>4, <2>2, InstalledFiles
    <3>2. Snapshot /= Absent
      BY <1>4, SnapshotTyped, SentinelsAreNoSnapshots DEF Install
    <3>3. SavedStep' = step
      BY <3>1, <3>2 DEF SavedStep, Snapshot
    <3>4. QED
      BY <2>1, <3>3
  <2>3. CASE ~ (pc = "latest" /\ w = FileCount)
    <3>1. LatestMeta' = LatestMeta
      BY <1>4, <2>3, InstalledFiles
    <3>2. step' = step \/ (step' = step + 1 /\ ~ CkptDue(step))
      BY <1>4, <2>3 DEF Install, AfterSave, AfterEval, NextStep, Saving, Prefixes
    <3>3. k \in 1 .. step - 1
      BY <2>1, <3>2 DEF CkptDue
    <3>4. SavedStep' = SavedStep
      BY <3>1 DEF SavedStep
    <3>5. QED
      BY <2>1, <3>1, <3>3, <3>4 DEF DueSaved
  <2>4. QED
    BY <2>2, <2>3
<1>5. CASE UNCHANGED <<pc, step, disk>>
  <2>1. Working /\ LatestMeta' = LatestMeta /\ k \in 1 .. step - 1
    BY <1>5 DEF Working, LatestMeta, TypeOK
  <2>2. SavedStep' = SavedStep
    BY <2>1 DEF SavedStep
  <2>3. QED
    BY <2>1, <2>2 DEF DueSaved
<1>6. QED
  BY <1>1, <1>2, <1>3, <1>4, <1>5
     DEF Next, Start, RejectResume, AbortResume, Process, WriteTmp, LoadBest,
         KeepCurrent, AbortRestore, AbortTest, Report, Crash, Stop, Migrate,
         Working, vars

LEMMA DueIsBounded == TypeOK /\ DueSaved => WorkBounded
<1> SUFFICES ASSUME TypeOK, DueSaved, Working, LatestMeta /= Short
             PROVE  Held - SavedStep <= CkptPeriod
  BY DEF WorkBounded
<1>1. CkptPeriod \in Nat \ {0}
  BY PeriodsAreNat DEF CkptPeriod
<1>2. step - 1 \in Nat /\ SavedStep \in Nat
  BY SavedTyped DEF TypeOK
<1>3. PICK k \in 0 .. step - 1 : k % CkptPeriod = 0 /\ (step - 1) - k < CkptPeriod
  BY <1>1, <1>2, LastMultiple
<1>4. k <= SavedStep
  BY <1>2, <1>3 DEF DueSaved
<1>5. Held \in {step - 1, step}
  BY DEF Held
<1>6. QED
  BY <1>1, <1>2, <1>3, <1>4, <1>5

\* Whatever was killed, resumed and started anew in the directory before, a process
\* is ahead of its latest.meta by one checkpoint period of training steps at most.
THEOREM WorkBoundedAlways == Spec => []WorkBounded
<1>1. Init => DueSaved
  BY DEF Init, DueSaved, Working
<1>2. QED
  BY <1>1, NextDueSaved, DueIsBounded, TmpAndTypes, PTL DEF Spec
===============================================================================
