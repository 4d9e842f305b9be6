----------------------------- MODULE ReportProofs -----------------------------
(***************************************************************************)
(* Proofs about a run that is always restarted with --resume: that it      *)
(* reports what the run that was never interrupted reports, that its best  *)
(* set is of its own structure, and that all of it amounts to the abstract *)
(* ResumableRun.                                                           *)
(***************************************************************************)
EXTENDS RunnerProofs

-------------------------------------------------------------------------------
(* The parts of the inductive invariants *)

\* A snapshot or a memory, which has the same fields, is not behind the step it
\* goes with: a torn set can put a process off its way only by files that are
\* newer than its .meta.
NotBehind(x, n) ==
    /\ x.model[1] = Off \/ x.model[2] >= n
    /\ x.opt[1] = Off \/ x.opt[2] >= n
    /\ x.mt = Stray \/ x.mt >= n

\* Under resuming commands: no file of `latest` is older than its .meta, and one
\* of the same step is of the same save.
NoOlderFile ==
    /\ Readable(LatestMeta) =>
         \A f \in Files : LET x == disk["latest"][f] IN
             Readable(x) => x = LatestMeta \/ x.step > LatestMeta.step
    /\ \A f \in Files : LET x == disk["latest"][f] IN Readable(x) => NotBehind(x, x.step)
    /\ Working => NotBehind(mem, Held)

\* The files before the one being written are of this save.
WrittenNow ==
    Saving => \A k \in 1 .. w - 1 : disk[pc][FileAt(k)] \in {Snapshot, Short}

\* Under resuming commands: once a best loss is remembered, in memory or in
\* latest.meta, the files of best.* are of the same structure; a save that is
\* under way has made them so as far as it has come.
OfStructure(set, fp, k) ==
    \A n \in 1 .. k : Readable(set[FileAt(n)]) => set[FileAt(n)].fp = fp
BestOwned ==
    /\ pc \in {"loop", "latest"} /\ best < Inf => OfStructure(disk["best"], cmd.fp, FileCount)
    /\ pc = "best" => OfStructure(disk["best"], cmd.fp, w - 1)
    /\ Readable(LatestMeta) /\ LatestMeta.best < Inf
         => OfStructure(disk["best"], LatestMeta.fp, FileCount)

\* Under resuming commands with one target: the best loss that a run remembers
\* is the lowest of those evaluated so far ...
LowestSoFar(loss, i, n, steps) ==
    LET losses == {score[<<i, m>>] : m \in {k \in Evaluated(steps) : k <= n}} IN
    /\ \A l \in losses : loss <= l
    /\ loss = Inf \/ loss \in losses

\* ... and the weights in best.model are those of a step that was better than
\* all before it, perhaps one that the resumed run has not come to again.
NewBest(i, m, steps) ==
    /\ m \in Evaluated(steps) /\ score[<<i, m>>] < Inf
    /\ \A k \in Evaluated(steps) : k < m => score[<<i, m>>] < score[<<i, k>>]
FromLine(x, i, steps) ==
    x /= Absent => \E m \in 1 .. steps : x.model = <<i, m>> /\ NewBest(i, m, steps)

SavedRun ==
    Readable(LatestMeta) => \A c \in Commands :
        /\ LatestMeta.step <= c.steps
        /\ LowestSoFar(LatestMeta.best, LatestMeta.model[1], LatestMeta.step, c.steps)
        /\ LatestMeta.best < Inf => FromLine(BestOnDisk, LatestMeta.model[1], c.steps)

RunningRun ==
    /\ pc /= "off" => step <= cmd.steps + 1
    /\ Saving => step <= cmd.steps
    /\ Working =>
         /\ LowestSoFar(best, mem.model[1], Held, cmd.steps)
         /\ Readable(LatestMeta) => LatestMeta.model[1] = mem.model[1]
         /\ best < Inf /\ ~ (pc = "best" /\ w = 1) => FromLine(BestOnDisk, mem.model[1], cmd.steps)
    /\ pc = "best" => NewBest(mem.model[1], step, cmd.steps)

OneLine == ~ torn => SavedRun /\ RunningRun

\* What the report needs of that: a process has the lowest loss of its line so
\* far, and best.model, if it is there, has it or a lower one.
AtLowest(x, loss, i, steps) ==
    FromLine(x, i, steps) /\ (x /= Absent => score[x.model] <= loss)
OnLine ==
    /\ pc /= "off" => step <= cmd.steps + 1
    /\ Working => LowestSoFar(best, mem.model[1], Held, cmd.steps)
    /\ Working /\ best < Inf /\ ~ (pc = "best" /\ w = 1)
         => AtLowest(BestOnDisk, best, mem.model[1], cmd.steps)

\* The same of processes that never resume: their best set is their own.
FreshRun ==
    /\ ~ torn
    /\ OnLine
    /\ pc = "best" => /\ NewBest(mem.model[1], step, cmd.steps)
                     /\ score[<<mem.model[1], step>>] = best
    /\ pc \in {"loop", "latest", "report"} /\ best < Inf => HasSet(disk["best"])

-------------------------------------------------------------------------------
(* Steps and files *)

\* A step puts at most one file in place, that of the save under way.
LEMMA InstalledFile ==
    ASSUME TypeOK, TmpInv, Install
    PROVE  /\ w \in 1 .. FileCount /\ FileAt(w) \in Files /\ pc \in Prefixes
           /\ tmp \in {Short, Snapshot}
           /\ disk'[pc][FileAt(w)] = tmp
           /\ \A s \in Prefixes : \A f \in Files :
                s /= pc \/ f /= FileAt(w) => disk'[s][f] = disk[s][f]
<1>1. w \in 1 .. FileCount /\ FileAt(w) \in Files /\ pc \in Prefixes
  BY FileAtIsFile DEF TypeOK, Install, Saving
<1>2. disk' = [disk EXCEPT ![pc][FileAt(w)] = tmp] /\ tmp \in {Short, Snapshot}
  BY DEF Install, TmpInv
<1>3. QED
  BY <1>1, <1>2 DEF TypeOK

\* What the process would save does not change while it saves.
LEMMA SnapshotStays ==
    ASSUME TypeOK, UNCHANGED <<cmd, best, mem, step>>
    PROVE  Snapshot' = Snapshot
BY DEF Snapshot

\* Installing a file ends a save, or goes on to the file after it.
LEMMA InstallEnds ==
    ASSUME TypeOK, TmpInv, Install
    PROVE  /\ UNCHANGED <<cmd, best, mem, score, torn>>
           /\ \/ w < FileCount /\ w' = w + 1 /\ UNCHANGED <<pc, step>>
              \/ /\ w = FileCount /\ w' = 1
                 /\ pc = "best" => pc' \in {"loop", "latest"}
                 /\ pc = "latest" => pc' = "loop"
                 /\ pc' = "loop" => step' = step + 1
                 /\ pc' = "latest" => step' = step
BY DEF Install, AfterSave, AfterEval, NextStep

\* The files are numbered from 1 to 5, each once.
LEMMA FilesNumbered ==
    \A k, l \in 1 .. FileCount : FileAt(k) = FileAt(l) => k = l
<1>1. 1 .. FileCount = {1, 2, 3, 4, 5}
  BY DEF FileCount
<1>2. QED
  BY <1>1 DEF FileAt

\* Only Migrate and Install change files, and Migrate only takes some away.
LEMMA KeptSets ==
    ASSUME TypeOK, [Next]_vars, ~ Install
    PROVE  /\ \A f \in Files : disk'["latest"][f] = disk["latest"][f]
           /\ \A f \in Files : disk'["best"][f] \in {disk["best"][f], Absent}
<1>1. CASE Migrate
  BY <1>1 DEF Migrate, TypeOK, Prefixes, NoFiles
<1>2. CASE ~ Migrate
  BY <1>2, DiskSteps
<1>3. QED
  BY <1>1, <1>2

LEMMA InitWritten == Init => WrittenNow
BY DEF Init, WrittenNow, Saving, Prefixes

\* The files written so far in a save are those of this save.
LEMMA NextWritten == TypeOK /\ TmpInv /\ WrittenNow /\ [Next]_vars => WrittenNow'
<1> SUFFICES ASSUME TypeOK, TmpInv, WrittenNow, [Next]_vars PROVE WrittenNow'
  OBVIOUS
<1>1. CASE Install
  <2>1. CASE w < FileCount /\ w' = w + 1 /\ UNCHANGED <<pc, step>>
    <3>1. Snapshot' = Snapshot
      BY <1>1, <2>1, SnapshotStays, InstallEnds
    <3> SUFFICES ASSUME NEW k \in 1 .. w PROVE disk'[pc][FileAt(k)] \in {Snapshot, Short}
      BY <1>1, <2>1, <3>1, InstalledFile DEF WrittenNow
    <3>2. CASE k = w
      BY <1>1, <3>2, InstalledFile
    <3>3. CASE k /= w
      <4>1. k \in 1 .. FileCount /\ k \in 1 .. w - 1 /\ w \in 1 .. FileCount
        BY <1>1, <3>3, InstalledFile DEF FileCount
      <4>2. FileAt(k) \in Files /\ FileAt(k) /= FileAt(w)
        BY <3>3, <4>1, FileAtIsFile, FilesNumbered
      <4>3. disk'[pc][FileAt(k)] = disk[pc][FileAt(k)]
        BY <1>1, <4>2, InstalledFile
      <4>4. QED
        BY <1>1, <4>1, <4>3 DEF WrittenNow, Install
    <3>4. QED
      BY <3>2, <3>3
  <2>2. CASE w' = 1
    BY <2>2 DEF WrittenNow
  <2>3. QED
    BY <1>1, <2>1, <2>2, InstallEnds
<1>2. CASE WriteTmp
  BY <1>2, SnapshotStays DEF WriteTmp, WrittenNow, Saving
<1>3. CASE ~ Install /\ ~ WriteTmp /\ w' /= 1
  <2>1. UNCHANGED <<pc, w>>
    BY <1>3, SaveSteps
  <2>2. CASE Saving
    <3>1. CASE UNCHANGED vars
      BY <3>1, SnapshotStays DEF vars, WrittenNow, Saving
    <3>2. QED
      BY <1>3, <2>1, <2>2, <3>1
         DEF Next, Start, FreshStart, ResumeStart, RejectResume, AbortResume, Process,
             Train, LoadBest, KeepCurrent, AbortRestore, AbortTest, Report, Crash, Stop,
             Done, Migrate, Saving, Prefixes
  <2>3. CASE ~ Saving
    BY <2>1, <2>3 DEF WrittenNow, Saving
  <2>4. QED
    BY <2>2, <2>3
<1>4. CASE w' = 1
  BY <1>4 DEF WrittenNow
<1>5. QED
  BY <1>1, <1>2, <1>3, <1>4

LEMMA WrittenAlways == Spec => []WrittenNow
BY InitWritten, NextWritten, TmpAndTypes, PTL DEF Spec

-------------------------------------------------------------------------------
(* The best set is of one structure *)

LEMMA InitOwned == Init => BestOwned
BY DEF Init, BestOwned, OfStructure, LatestMeta, Readable, NoFiles, Prefixes, Files

\* A step that takes files away, or none, leaves the others of their structure.
LEMMA OwnedKept ==
    ASSUME TypeOK, [Next]_vars, ~ Install, NEW fp, NEW n \in 0 .. FileCount,
           OfStructure(disk["best"], fp, n)
    PROVE  OfStructure(disk'["best"], fp, n)
<1>1. \A k \in 1 .. n : FileAt(k) \in Files
  BY FileAtIsFile DEF FileCount
<1>2. QED
  BY <1>1, KeptSets DEF OfStructure, Readable

\* Once a best loss is remembered the files of best.* are of the structure of
\* the run that remembers it.
LEMMA NextOwned ==
    ASSUME AllResume
    PROVE  TypeOK /\ TmpInv /\ Succession /\ BestOwned /\ [Next]_vars => BestOwned'
<1> SUFFICES ASSUME TypeOK, TmpInv, Succession, BestOwned, [Next]_vars PROVE BestOwned'
  OBVIOUS
<1>0. FileCount \in 0 .. FileCount /\ w \in 1 .. FileCount /\ w - 1 \in 0 .. FileCount
  BY DEF FileCount, TypeOK
<1>1. CASE Install
  <2>1. /\ w \in 1 .. FileCount /\ FileAt(w) \in Files /\ pc \in Prefixes
        /\ UNCHANGED <<cmd, best, mem>>
    BY <1>1, InstalledFile, InstallEnds
  <2>2. CASE pc = "best"
    <3>1. Readable(tmp) => tmp.fp = cmd.fp
      BY <1>1, InstalledFile DEF Readable, Snapshot
    <3>2. \A k \in 1 .. FileCount :
            disk'["best"][FileAt(k)] = IF k = w THEN tmp ELSE disk["best"][FileAt(k)]
      BY <1>1, <2>1, <2>2, InstalledFile, FilesNumbered, FileAtIsFile
    <3>3. LatestMeta' = LatestMeta
      BY <1>1, <2>2, InstalledFiles
    <3>4. OfStructure(disk'["best"], cmd.fp, w)
      BY <1>0, <2>1, <2>2, <3>1, <3>2 DEF BestOwned, OfStructure, FileCount
    <3>5. Readable(LatestMeta) /\ LatestMeta.best < Inf => OfStructure(disk'["best"], LatestMeta.fp, FileCount)
      <4>1. Readable(LatestMeta) => LatestMeta.fp = cmd.fp
        BY <2>2 DEF Succession
      <4>2. QED
        BY <3>1, <3>2, <4>1 DEF BestOwned, OfStructure
    <3>6. CASE w < FileCount /\ w' = w + 1 /\ UNCHANGED <<pc, step>>
      BY <1>0, <2>1, <2>2, <3>3, <3>4, <3>5, <3>6 DEF BestOwned, FileCount
    <3>7. CASE w = FileCount /\ pc' \in {"loop", "latest"}
      BY <2>1, <3>3, <3>4, <3>5, <3>7 DEF BestOwned
    <3>8. QED
      BY <1>1, <2>2, <3>6, <3>7, InstallEnds
  <2>3. CASE pc = "latest"
    <3>1. \A k \in 1 .. FileCount : disk'["best"][FileAt(k)] = disk["best"][FileAt(k)]
      BY <1>1, <2>3, InstalledFile, FileAtIsFile DEF Prefixes
    <3>2. \A fp : OfStructure(disk["best"], fp, FileCount) => OfStructure(disk'["best"], fp, FileCount)
      BY <3>1 DEF OfStructure
    <3>3. pc' \in {"latest", "loop"}
      BY <1>1, <2>3, InstallEnds
    <3>4. LatestMeta' \in {LatestMeta, Short, Snapshot}
      BY <1>1, <2>3, InstalledFiles
    <3>5. Snapshot.best = best /\ Snapshot.fp = cmd.fp
      BY DEF Snapshot
    <3>6. QED
      BY <2>1, <2>3, <3>2, <3>3, <3>4, <3>5 DEF BestOwned, Readable
  <2>4. QED
    BY <2>1, <2>2, <2>3 DEF Prefixes
<1>2. CASE ~ Install
  <2>1. /\ LatestMeta' = LatestMeta
        /\ Readable(LatestMeta) /\ LatestMeta.best < Inf
             => OfStructure(disk'["best"], LatestMeta.fp, FileCount)
    BY <1>0, <1>2, KeptFiles, OwnedKept DEF BestOwned
  <2>2. pc' \in {"loop", "latest"} /\ best' < Inf => OfStructure(disk'["best"], cmd'.fp, FileCount)
    <3> SUFFICES ASSUME pc' \in {"loop", "latest"}, best' < Inf
                 PROVE  OfStructure(disk'["best"], cmd'.fp, FileCount)
      OBVIOUS
    <3>1. ASSUME NEW c \in Commands, FreshStart(c) PROVE FALSE
      BY <3>1, LossBound DEF FreshStart
    <3>2. ASSUME NEW c \in Commands, ResumeStart(c) PROVE OfStructure(disk'["best"], cmd'.fp, FileCount)
      <4>1. best' = LatestMeta.best /\ LatestMeta.fp = cmd'.fp /\ Readable(LatestMeta)
        BY <3>2 DEF ResumeStart, CarriedBest, SameFingerprint, LatestMeta, Readable,
                    Resumes, HasSet
      <4>2. QED
        BY <2>1, <4>1
    <3>3. CASE Train
      <4>1. pc = "loop" /\ best' = best /\ cmd' = cmd
        BY <3>3 DEF Train
      <4>2. QED
        BY <1>0, <1>2, <4>1, OwnedKept DEF BestOwned
    <3>4. CASE UNCHANGED <<pc, best, cmd>>
      BY <1>0, <1>2, <3>4, OwnedKept DEF BestOwned
    <3>5. QED
      BY <1>2, <3>1, <3>2, <3>3, <3>4
         DEF Next, Start, RejectResume, AbortResume, Process, WriteTmp, LoadBest,
             KeepCurrent, AbortRestore, AbortTest, Report, Crash, Stop, Migrate, vars
  <2>3. pc' = "best" => OfStructure(disk'["best"], cmd'.fp, w' - 1)
    <3>1. CASE w' = 1
      BY <3>1 DEF OfStructure
    <3>2. CASE UNCHANGED <<pc, w, cmd>>
      BY <1>0, <1>2, <3>2, OwnedKept DEF BestOwned
    <3>3. CASE pc' /= "best"
      BY <3>3
    <3>4. QED
      BY <1>2, <3>1, <3>2, <3>3
         DEF Next, Start, FreshStart, ResumeStart, RejectResume, AbortResume, Process,
             Train, TmpInv, Saving, Prefixes, WriteTmp, LoadBest, KeepCurrent,
             AbortRestore, AbortTest, Report, Crash, Stop, Migrate, vars
  <2>4. QED
    BY <2>1, <2>2, <2>3 DEF BestOwned
<1>3. QED
  BY <1>1, <1>2

\* The restore at the end of a run that is always resumed loads a best set of
\* its own structure, though it compares no fingerprint.
THEOREM BestIsOwnAlways == ASSUME AllResume PROVE Spec => []BestIsOwn
<1>1. BestOwned => BestIsOwn
  BY MetaIsLast DEF BestOwned, BestIsOwn, BestIsHere, OfStructure
<1>2. QED
  BY <1>1, InitOwned, NextOwned, SuccessionAlways, TmpAndTypes, PTL DEF Spec

-------------------------------------------------------------------------------
(* The files of `latest` and its .meta *)

\* Training goes on from a memory that is not behind to one that is not.
LEMMA TrainedNotBehind ==
    ASSUME TypeOK, NEW n \in Nat, NotBehind(mem, n), NEW m \in Trained(mem)
    PROVE  NotBehind(m, n + 1)
<1>1. CASE OnTrack(mem)
  <2>1. /\ m = [model |-> <<mem.model[1], mem.mt + 1>>,
                opt |-> <<mem.model[1], mem.mt + 1>>, mt |-> mem.mt + 1]
        /\ mem.model[1] /= Off /\ mem.model[2] = mem.mt
    BY <1>1 DEF Trained, OnTrack
  <2>2. mem.mt >= n /\ mem.mt \in Int
    BY <2>1 DEF NotBehind, TypeOK, Stray
  <2>3. QED
    BY <2>1, <2>2 DEF NotBehind, Stray
<1>2. CASE ~ OnTrack(mem)
  <2>1. PICK p \in {Off} \X Strays : m = [model |-> p, opt |-> p, mt |-> Stray]
    BY <1>2 DEF Trained
  <2>2. QED
    BY <2>1 DEF NotBehind, Stray
<1>3. QED
  BY <1>1, <1>2

\* The files of a set whose .meta is readable, none of them older than it, load
\* as a memory that is not behind the step of .meta.
LEMMA LoadedNotBehind ==
    ASSUME NEW set \in FileSets, set["meta"] \in Snapshots,
           \A f \in Files : set[f] /= Absent,
           ~ LoadThrows(set, set["meta"].fp),
           \A f \in Files : Readable(set[f]) =>
                /\ set[f] = set["meta"] \/ set[f].step > set["meta"].step
                /\ NotBehind(set[f], set[f].step)
    PROVE  NotBehind(Loaded(set), set["meta"].step)
<1>1. \A f \in Files : set[f] \in Snapshots \cup {Short}
  BY DEF FileSets, FileValues
<1>2. \A f \in Files : set[f] \in Snapshots =>
        /\ NotBehind(set[f], set[f].step) /\ set[f].step >= set["meta"].step
        /\ set[f].step \in Nat
  BY SentinelsAreNoSnapshots DEF Readable, Snapshots
<1>3. set["model"] \in Snapshots /\ set["opt"] \in Snapshots
  BY <1>1 DEF FileSets, Files
<1>4. \A x \in Snapshots, n \in Nat : NotBehind(x, x.step) /\ x.step >= n => NotBehind(x, n)
  <2> SUFFICES ASSUME NEW x \in Snapshots, NEW n \in Nat, NotBehind(x, x.step), x.step >= n
               PROVE  NotBehind(x, n)
    OBVIOUS
  <2>1. x.step \in Int /\ x.model[2] \in Int /\ x.opt[2] \in Int /\ x.mt \in Int
    BY DEF Snapshots, Points, Stray
  <2>2. QED
    BY <2>1 DEF NotBehind
<1>5. LoadedMt(set) = IF set["mt"] = Short THEN Stray ELSE set["mt"].mt
  BY DEF LoadedMt, Files
<1>6. set["meta"].step \in Nat
  BY DEF Snapshots
<1>7. \A f \in Files : set[f] \in Snapshots => NotBehind(set[f], set["meta"].step)
  BY <1>2, <1>4, <1>6
<1>8. QED
  BY <1>1, <1>3, <1>5, <1>7 DEF NotBehind, Loaded, Files

LEMMA InitNoOlder == Init => NoOlderFile
BY DEF Init, NoOlderFile, LatestMeta, Readable, NoFiles, Working, Prefixes, Files

\* Files are written before their .meta, from a memory that has come further.
LEMMA NextNoOlder ==
    ASSUME AllResume
    PROVE  /\ TypeOK /\ TmpInv /\ MetaImpliesSet /\ WrittenNow /\ Succession /\ NoOlderFile
           /\ [Next]_vars
           => NoOlderFile'
<1> SUFFICES ASSUME TypeOK, TmpInv, MetaImpliesSet, WrittenNow, Succession, NoOlderFile,
                    [Next]_vars
             PROVE  NoOlderFile'
  OBVIOUS
<1>0. TypeOK'
  BY NextTyped
<1>1. CASE Install
  <2>1. /\ w \in 1 .. FileCount /\ FileAt(w) \in Files /\ pc \in Prefixes
        /\ UNCHANGED <<cmd, best, mem>> /\ tmp \in {Short, Snapshot}
    BY <1>1, InstalledFile, InstallEnds
  <2>2. step \in Nat /\ Working /\ Held = step /\ NotBehind(mem, step)
    BY <2>1 DEF TypeOK, Working, Held, Prefixes, NoOlderFile
  <2>3. Working' => NotBehind(mem', Held')
    <3>1. Held' = step
      BY <1>1, <2>1, <2>2, InstallEnds DEF Held, Prefixes
    <3>2. QED
      BY <2>1, <2>2, <3>1
  <2>4. CASE pc = "best"
    <3>1. \A f \in Files : disk'["latest"][f] = disk["latest"][f]
      BY <1>1, <2>4, InstalledFile DEF Prefixes
    <3>2. LatestMeta' = LatestMeta
      BY <3>1 DEF LatestMeta, Files
    <3>3. QED
      BY <2>3, <3>1, <3>2 DEF NoOlderFile, Readable
  <2>5. CASE pc = "latest"
    <3>1. Snapshot.step = step /\ (NotBehind(mem, step) => NotBehind(Snapshot, step))
      BY DEF Snapshot, NotBehind
    <3>2. \A f \in Files :
            disk'["latest"][f] = IF f = FileAt(w) THEN tmp ELSE disk["latest"][f]
      BY <1>1, <2>5, InstalledFile
    <3>3. \A f \in Files : LET x == disk'["latest"][f] IN Readable(x) => NotBehind(x, x.step)
      <4> SUFFICES ASSUME NEW f \in Files, Readable(disk'["latest"][f])
                   PROVE  NotBehind(disk'["latest"][f], disk'["latest"][f].step)
        OBVIOUS
      <4>1. CASE f = FileAt(w)
        BY <2>1, <2>2, <3>1, <3>2, <4>1 DEF Readable
      <4>2. CASE f /= FileAt(w)
        BY <3>2, <4>2 DEF NoOlderFile
      <4>3. QED
        BY <4>1, <4>2
    <3>4. CASE w = FileCount
      <4>1. \A f \in Files : disk'["latest"][f] \in {Snapshot, Short}
        <5> SUFFICES ASSUME NEW f \in Files, f /= FileAt(w)
                     PROVE  disk["latest"][f] \in {Snapshot, Short}
          BY <2>1, <3>2
        <5>1. PICK k \in 1 .. FileCount : FileAt(k) = f
          BY MetaIsLast
        <5>2. k \in 1 .. w - 1
          BY <3>4, <5>1 DEF FileCount
        <5>3. QED
          BY <2>1, <2>5, <5>1, <5>2 DEF WrittenNow, Saving
      <4>2. QED
        BY <2>3, <3>3, <4>1 DEF NoOlderFile, Readable, LatestMeta, Files
    <3>5. CASE w /= FileCount
      <4>1. LatestMeta' = LatestMeta
        BY <1>1, <2>5, <3>5, InstalledFiles
      <4>2. Readable(LatestMeta) => LatestMeta.step < step
        BY <2>5 DEF Succession
      <4>3. Readable(LatestMeta) => LatestMeta.step \in Int
        BY LossTyped DEF Snapshots
      <4>4. Readable(LatestMeta) => \A f \in Files : LET x == disk'["latest"][f] IN
              Readable(x) => x = LatestMeta \/ x.step > LatestMeta.step
        BY <2>1, <2>2, <3>1, <3>2, <4>2, <4>3 DEF NoOlderFile, Readable
      <4>5. QED
        BY <2>3, <3>3, <4>1, <4>4 DEF NoOlderFile, Readable
    <3>6. QED
      BY <3>4, <3>5
  <2>6. QED
    BY <2>1, <2>4, <2>5 DEF Prefixes
<1>2. CASE ~ Install
  <2>1. LatestMeta' = LatestMeta /\ \A f \in Files : disk'["latest"][f] = disk["latest"][f]
    BY <1>2, KeptFiles, KeptSets
  <2>2. Working' => NotBehind(mem', Held')
    <3>1. ASSUME NEW c \in Commands, FreshStart(c) PROVE NotBehind(mem', Held')
      BY <3>1 DEF FreshStart, Held, NotBehind, Stray
    <3>2. ASSUME NEW c \in Commands, ResumeStart(c) PROVE NotBehind(mem', Held')
      <4>1. disk["latest"] \in FileSets
        BY DEF TypeOK, FileSets, FileValues, Prefixes
      <4>2. disk["latest"]["meta"] \in Snapshots /\ disk["latest"]["meta"].fp = c.fp
        BY <3>2, <4>1, AcceptedMetaTyped DEF ResumeStart, Resumes, SameFingerprint
      <4>3. \A f \in Files : disk["latest"][f] /= Absent
        BY <3>2 DEF ResumeStart, Resumes, MetaImpliesSet, Prefixes
      <4>4. \A f \in Files : Readable(disk["latest"][f]) =>
              /\ disk["latest"][f] = disk["latest"]["meta"]
                   \/ disk["latest"][f].step > disk["latest"]["meta"].step
              /\ NotBehind(disk["latest"][f], disk["latest"][f].step)
        BY <4>2, SentinelsAreNoSnapshots DEF NoOlderFile, LatestMeta, Readable
      <4>5. NotBehind(Loaded(disk["latest"]), disk["latest"]["meta"].step)
        BY <3>2, <4>1, <4>2, <4>3, <4>4, LoadedNotBehind DEF ResumeStart
      <4>6. Held' = disk["latest"]["meta"].step
        BY <3>2, <4>2 DEF ResumeStart, StartStep, Held, Snapshots
      <4>7. QED
        BY <3>2, <4>5, <4>6 DEF ResumeStart
    <3>3. CASE Train
      <4>1. step - 1 \in Nat /\ NotBehind(mem, step - 1) /\ step \in Nat
        BY <3>3 DEF Train, TypeOK, NoOlderFile, Working, Held
      <4>2. NotBehind(mem', (step - 1) + 1)
        BY <3>3, <4>1, TrainedNotBehind DEF Train
      <4>3. Held' = step
        BY <3>3, <4>1 DEF Train, AfterEval, NextStep, Held
      <4>4. QED
        BY <4>1, <4>2, <4>3
    <3>4. CASE UNCHANGED <<pc, step, mem>>
      BY <3>4 DEF NoOlderFile, Working, Held
    <3>5. CASE ~ Working'
      BY <3>5
    <3>6. QED
      BY <1>2, <3>1, <3>2, <3>3, <3>4, <3>5
         DEF Next, Start, RejectResume, AbortResume, Process, WriteTmp, LoadBest,
             KeepCurrent, AbortRestore, AbortTest, Report, Crash, Stop, Migrate, vars, Working
  <2>3. QED
    BY <2>1, <2>2 DEF NoOlderFile, Readable
<1>3. QED
  BY <1>1, <1>2

LEMMA NoOlderAlways == ASSUME AllResume PROVE Spec => []NoOlderFile
BY InitNoOlder, NextNoOlder, MetaImpliesSetAlways, WrittenAlways, SuccessionAlways,
   TmpAndTypes, PTL DEF Spec

-------------------------------------------------------------------------------
(* The refinement *)

\* A working process stands somewhere.
LEMMA AtSomewhere ==
    ASSUME TypeOK
    PROVE  /\ Working => At /= Absent
           /\ ~ Working => At = Absent
           /\ LatestMeta /= Absent => Safe /= Absent
           /\ LatestMeta = Absent => Safe = Absent
<1>1. mem.model \in Points
  BY DEF TypeOK
<1>2. Readable(LatestMeta) => LatestMeta.model \in Points
  BY LossTyped DEF Snapshots
<1>3. QED
  BY <1>1, <1>2, AbsentIsNoPlace DEF At, Safe, Readable

\* The position depends on the step that the process stands at.
LEMMA AtIs ==
    At = IF ~ Working THEN Absent ELSE IF AtPosition(mem, Held) THEN mem.model ELSE Off
BY DEF At, Held

\* The position saved in a readable .meta.
Parts(x) == [model |-> x.model, opt |-> x.opt, mt |-> x.mt]
LEMMA SafeIs ==
    Readable(LatestMeta) =>
        Safe = IF AtPosition(Parts(LatestMeta), LatestMeta.step) THEN LatestMeta.model ELSE Off
BY DEF Safe, Readable, Parts

\* A step on the way leads to the next position, and off the way nothing leads
\* back.
LEMMA TrainedPosition ==
    ASSUME TypeOK, NEW n \in 0 .. MaxStep, n < MaxStep, NEW m \in Trained(mem)
    PROVE  /\ AtPosition(mem, n) =>
                /\ AtPosition(m, n + 1) /\ mem.model \in Inits \X (0 .. MaxStep - 1)
                /\ m.model = <<mem.model[1], mem.model[2] + 1>>
           /\ ~ AtPosition(mem, n) => ~ AtPosition(m, n + 1)
<1>1. CASE AtPosition(mem, n)
  <2>1. PICK i \in Inits : mem = [model |-> <<i, n>>, opt |-> <<i, n>>, mt |-> n]
    BY <1>1 DEF AtPosition
  <2>2. AtPosition(mem, n)
    BY <2>1 DEF AtPosition
  <2>3. OnTrack(mem)
    BY <2>1, OffIsNoDraw DEF OnTrack
  <2>4. m = [model |-> <<i, n + 1>>, opt |-> <<i, n + 1>>, mt |-> n + 1]
    BY <2>1, <2>3 DEF Trained
  <2>5. QED
    BY <1>1, <2>1, <2>4, StepBound DEF AtPosition
<1>2. CASE ~ AtPosition(mem, n)
  <2>1. CASE OnTrack(mem)
    <3>1. /\ m = [model |-> <<mem.model[1], mem.mt + 1>>,
                  opt |-> <<mem.model[1], mem.mt + 1>>, mt |-> mem.mt + 1]
          /\ mem.model[1] \in Inits /\ mem.model = <<mem.model[1], mem.mt>> /\ mem.mt \in Int
          /\ mem = [model |-> mem.model, opt |-> mem.model, mt |-> mem.mt]
      BY <2>1 DEF Trained, OnTrack, TypeOK, Points, Lines, Stray
    <3>2. mem.mt /= n
      BY <1>2, <3>1 DEF AtPosition
    <3>3. m.mt /= n + 1
      BY <3>1, <3>2
    <3>4. QED
      BY <1>2, <3>3 DEF AtPosition
  <2>2. CASE ~ OnTrack(mem)
    <3>1. m.mt = Stray
      BY <2>2 DEF Trained
    <3>2. QED
      BY <1>2, <3>1 DEF AtPosition, Stray
  <2>3. QED
    BY <2>1, <2>2
<1>3. QED
  BY <1>1, <1>2

\* A set that loads as a position of its .meta's step was saved there: files of
\* a later save would load as a later position.
LEMMA LoadedPosition ==
    ASSUME NEW set \in FileSets, set["meta"] \in Snapshots,
           \A f \in Files : set[f] /= Absent,
           ~ LoadThrows(set, set["meta"].fp),
           \A f \in Files : Readable(set[f]) =>
                /\ set[f] = set["meta"] \/ set[f].step > set["meta"].step
                /\ NotBehind(set[f], set[f].step)
    PROVE  /\ AtPosition(Loaded(set), set["meta"].step)
                => Loaded(set) = Parts(set["meta"])
           /\ ~ Torn(set) => Loaded(set) = Parts(set["meta"])
<1>1. \A f \in Files : set[f] \in Snapshots \cup {Short}
  BY DEF FileSets, FileValues
<1>2. set["model"] \in Snapshots /\ set["opt"] \in Snapshots
  BY <1>1 DEF FileSets, Files
<1>3. LoadedMt(set) = IF set["mt"] = Short THEN Stray ELSE set["mt"].mt
  BY DEF LoadedMt, Files
<1>4. set["meta"].step \in Nat /\ set["meta"] /= Short
  BY SentinelsAreNoSnapshots DEF Snapshots
<1>5. CASE AtPosition(Loaded(set), set["meta"].step)
  <2> DEFINE n == set["meta"].step
  <2>1. PICK i \in Inits : Loaded(set) = [model |-> <<i, n>>, opt |-> <<i, n>>, mt |-> n]
    BY <1>5 DEF AtPosition
  <2>2. /\ set["model"].model = <<i, n>> /\ set["opt"].opt = <<i, n>>
        /\ set["mt"] /= Short /\ set["mt"].mt = n /\ i /= Off
    BY <1>3, <1>4, <2>1, OffIsNoDraw DEF Loaded, Stray
  <2>3. \A f \in {"model", "opt", "mt"} : set[f] \in Snapshots
    BY <1>1, <1>2, <2>2 DEF Files
  <2>4. ASSUME NEW f \in {"model", "opt", "mt"}, set[f] /= set["meta"] PROVE FALSE
    <3>1. set[f].step > n /\ NotBehind(set[f], set[f].step) /\ set[f].step \in Int
      BY <2>3, <2>4, SentinelsAreNoSnapshots DEF Files, Readable, Snapshots
    <3>2. QED
      BY <1>4, <2>2, <3>1 DEF NotBehind, Stray
  <2>5. QED
    BY <1>3, <2>2, <2>4 DEF Loaded, Parts
<1>6. CASE ~ Torn(set)
  <2>1. \A f \in Files : set[f] = set["meta"]
    BY <1>6 DEF Torn, Files
  <2>2. QED
    BY <1>3, <1>4, <2>1 DEF Loaded, Parts, Files
<1>7. QED
  BY <1>5, <1>6

\* A resume goes on where .meta says, or somewhere off the way if the set that
\* it loads is torn.
LEMMA ResumeRefines ==
    ASSUME TypeOK, MetaImpliesSet, NoOlderFile, NEW c \in Commands, ResumeStart(c)
    PROVE  Abstract!GoOn
<1> DEFINE latest == disk["latest"]
<1>1. latest \in FileSets /\ ~ Working /\ Working'
  BY DEF TypeOK, FileSets, FileValues, Prefixes, ResumeStart, Working
<1>2. latest["meta"] \in Snapshots /\ latest["meta"].fp = c.fp /\ latest["meta"] = LatestMeta
  BY <1>1, AcceptedMetaTyped DEF ResumeStart, Resumes, SameFingerprint, LatestMeta
<1>3. Readable(LatestMeta) /\ LatestMeta /= Absent
  BY <1>2, SentinelsAreNoSnapshots DEF Readable
<1>4. \A f \in Files : latest[f] /= Absent
  BY DEF ResumeStart, Resumes, MetaImpliesSet, Prefixes
<1>5. /\ AtPosition(Loaded(latest), LatestMeta.step) => Loaded(latest) = Parts(LatestMeta)
      /\ ~ Torn(latest) => Loaded(latest) = Parts(LatestMeta)
  <2>1. \A f \in Files : Readable(latest[f]) =>
              /\ latest[f] = latest["meta"] \/ latest[f].step > latest["meta"].step
              /\ NotBehind(latest[f], latest[f].step)
    BY <1>2, <1>3 DEF NoOlderFile
  <2>2. ~ LoadThrows(latest, latest["meta"].fp)
    BY <1>2 DEF ResumeStart
  <2>3. QED
    BY <1>1, <1>2, <1>4, <2>1, <2>2, LoadedPosition
<1>6. mem' = Loaded(latest) /\ Held' = LatestMeta.step /\ UNCHANGED disk
  BY <1>2 DEF ResumeStart, StartStep, Held, Snapshots
<1>7. At' = IF AtPosition(mem', LatestMeta.step) THEN mem'.model ELSE Off
  BY <1>1, <1>6, AtIs DEF At, Held
<1>8. Safe = IF AtPosition(Parts(LatestMeta), LatestMeta.step) THEN LatestMeta.model ELSE Off
  BY <1>3, SafeIs
<1>9. At' = Safe \/ (Torn(latest) /\ At' = Off)
  <2>1. CASE AtPosition(mem', LatestMeta.step)
    BY <1>5, <1>6, <1>7, <1>8, <2>1 DEF Parts
  <2>2. CASE ~ AtPosition(mem', LatestMeta.step)
    BY <1>5, <1>6, <1>7, <1>8, <2>2
  <2>3. QED
    BY <2>1, <2>2
<1>10. Safe' = Safe /\ Torn(disk'["latest"]) = Torn(disk["latest"])
  BY <1>6 DEF Safe, LatestMeta
<1>11. At = Absent /\ Safe /= Absent
  BY <1>1, <1>3, AtSomewhere
<1>12. QED
  BY <1>9, <1>10, <1>11 DEF Abstract!GoOn

\* Installing a file of `latest` begins a save or, with .meta, ends it.
LEMMA InstallRefines ==
    ASSUME TypeOK, TmpInv, MetaImpliesSet, WrittenNow, Succession, Install
    PROVE  \/ Abstract!BeginSave
           \/ Abstract!EndSave
           \/ UNCHANGED <<At, Safe, Torn(disk["latest"])>>
<1>1. /\ w \in 1 .. FileCount /\ FileAt(w) \in Files /\ pc \in Prefixes
      /\ UNCHANGED <<cmd, best, mem, score>> /\ tmp \in {Short, Snapshot}
  BY InstalledFile, InstallEnds
<1>2. step \in Nat /\ Working /\ Working' /\ Held = step /\ Held' = step
  BY <1>1, InstallEnds DEF TypeOK, Working, Held, Prefixes
<1>3. At' = At /\ At /= Absent
  BY <1>1, <1>2, AtIs, AtSomewhere DEF At, Held
<1>4. CASE pc = "best"
  <2>1. disk'["latest"] = disk["latest"]
    BY <1>4 DEF Install, TypeOK, Prefixes
  <2>2. QED
    BY <1>3, <2>1 DEF Safe, LatestMeta
<1>5. CASE pc = "latest" /\ w /= FileCount
  <2>1. LatestMeta' = LatestMeta
    BY <1>5, InstalledFiles
  <2>2. Safe' = Safe
    BY <2>1 DEF Safe
  <2>3. FileAt(w) /= "meta" /\ disk'["latest"][FileAt(w)] = tmp
        /\ disk'["latest"]["meta"] = LatestMeta
    BY <1>1, <1>5, <2>1, InstalledFile, MetaIsLast DEF LatestMeta
  <2>4. Readable(LatestMeta) => LatestMeta /= Snapshot
    <3>1. Readable(LatestMeta) => LatestMeta.step < step /\ LatestMeta.step \in Int
      BY <1>5, LossTyped DEF Succession, Snapshots
    <3>2. QED
      BY <1>2, <3>1 DEF Snapshot
  <2>5. Snapshot \in Snapshots
    BY <1>1, SnapshotTyped DEF Saving
  <2>6. Torn(disk'["latest"])
    <3>1. CASE tmp = Snapshot
      BY <1>1, <2>3, <2>4, <2>5, <3>1, SentinelsAreNoSnapshots DEF Torn, Readable, Files
    <3>2. CASE tmp = Short /\ FileAt(w) /= "model"
      <4>1. disk'["latest"]["model"] /= Short
        <5>1. TypeOK'
          BY NextTyped DEF Next, Process
        <5>2. QED
          BY <5>1 DEF TypeOK, Prefixes
      <4>2. QED
        BY <1>1, <2>3, <3>2, <4>1 DEF Torn, Files
    <3>3. CASE tmp = Short /\ FileAt(w) = "model"
      BY <3>3, ArchivesNotCut DEF TmpInv, Install
    <3>4. QED
      BY <1>1, <3>1, <3>2, <3>3
  <2>7. QED
    BY <1>3, <2>2, <2>6 DEF Abstract!BeginSave
<1>6. CASE pc = "latest" /\ w = FileCount
  <2>1. LatestMeta' = tmp /\ disk'["latest"]["meta"] = tmp
    BY <1>1, <1>6, InstalledFile, MetaIsLast DEF LatestMeta
  <2>2. CASE tmp = Snapshot
    <3>1. Readable(LatestMeta') /\ Snapshot \in Snapshots
      BY <1>1, <2>1, <2>2, SnapshotTyped, SentinelsAreNoSnapshots DEF Readable, Saving
    <3>2. Safe' = IF AtPosition(Parts(Snapshot), Snapshot.step) THEN Snapshot.model ELSE Off
      BY <2>1, <2>2, <3>1 DEF Safe, Readable, Parts
    <3>3. Parts(Snapshot) = mem /\ Snapshot.step = step /\ Snapshot.model = mem.model
      BY DEF Parts, Snapshot, TypeOK
    <3>4. Safe' = At
      BY <1>2, <3>2, <3>3, AtIs
    <3>5. QED
      BY <1>3, <3>4 DEF Abstract!EndSave, Torn
  <2>3. CASE tmp = Short
    <3>1. Safe' = Off
      BY <2>1, <2>3, SentinelsDiffer DEF Safe
    <3>2. disk'["latest"]["model"] /= Short
      <4>1. TypeOK'
        BY NextTyped DEF Next, Process
      <4>2. QED
        BY <4>1 DEF TypeOK, Prefixes
    <3>3. Torn(disk'["latest"])
      BY <2>1, <2>3, <3>2 DEF Torn, Files
    <3>4. QED
      BY <1>3, <3>1, <3>3 DEF Abstract!EndSave
  <2>4. QED
    BY <1>1, <2>2, <2>3
<1>7. QED
  BY <1>1, <1>4, <1>5, <1>6 DEF Prefixes

\* A training step leads from a position to the next, or changes nothing off
\* the way.
LEMMA TrainRefines ==
    ASSUME TypeOK, Train
    PROVE  Abstract!Step \/ UNCHANGED <<At, Safe, Torn(disk["latest"])>>
<1>1. cmd \in Commands /\ step <= cmd.steps /\ step \in Nat /\ step - 1 \in 0 .. MaxStep
      /\ step - 1 < MaxStep
  BY CommandsAreTyped, StepBound DEF Train, InLoop, TypeOK
<1>2. Working /\ Held = step - 1 /\ Working' /\ Held' = step
  BY <1>1 DEF Train, Working, Held, AfterEval, NextStep
<1>3. /\ AtPosition(mem, step - 1) =>
            /\ AtPosition(mem', step) /\ mem.model \in Inits \X (0 .. MaxStep - 1)
            /\ mem'.model = <<mem.model[1], mem.model[2] + 1>>
      /\ ~ AtPosition(mem, step - 1) => ~ AtPosition(mem', step)
  BY <1>1, TrainedPosition DEF Train
<1>4. At = IF AtPosition(mem, step - 1) THEN mem.model ELSE Off
  BY <1>2, AtIs
<1>5. At' = IF AtPosition(mem', step) THEN mem'.model ELSE Off
  BY <1>2 DEF At, Held
<1>6. Safe' = Safe /\ Torn(disk'["latest"]) = Torn(disk["latest"])
  BY DEF Train, Safe, LatestMeta
<1>7. CASE AtPosition(mem, step - 1)
  BY <1>3, <1>4, <1>5, <1>6, <1>7 DEF Abstract!Step
<1>8. CASE ~ AtPosition(mem, step - 1)
  BY <1>3, <1>4, <1>5, <1>6, <1>8
<1>9. QED
  BY <1>7, <1>8

\* Whatever ends the training stops the abstract run; what happens when there
\* is no training does not concern it.
LEMMA StopRefines ==
    ASSUME TypeOK, [Next]_vars, ~ Working', UNCHANGED disk
    PROVE  Abstract!Stop \/ UNCHANGED <<At, Safe, Torn(disk["latest"])>>
<1>1. Safe' = Safe /\ Torn(disk'["latest"]) = Torn(disk["latest"]) /\ At' = Absent
  BY DEF Safe, LatestMeta, At
<1>2. CASE Working
  BY <1>1, <1>2, AtSomewhere DEF Abstract!Stop
<1>3. CASE ~ Working
  BY <1>1, <1>3 DEF At
<1>4. QED
  BY <1>2, <1>3

LEMMA FreshRefines ==
    ASSUME AllResume, TypeOK, NEW c \in Commands, FreshStart(c)
    PROVE  Abstract!Begin
<1>1. PICK i \in Inits : mem' = [model |-> <<i, 0>>, opt |-> <<i, 0>>, mt |-> 0]
  BY DEF FreshStart
<1>2. Working' /\ Held' = 0 /\ ~ Working /\ UNCHANGED disk
  BY DEF FreshStart, Working, Held
<1>3. At' = <<i, 0>>
  BY <1>1, <1>2 DEF At, Held, AtPosition
<1>4. At = Absent /\ Safe = Absent
  BY <1>2, FreshHasNoLatest, AtSomewhere
<1>5. Safe' = Safe /\ Torn(disk'["latest"]) = Torn(disk["latest"])
  BY <1>2 DEF Safe, LatestMeta
<1>6. QED
  BY <1>3, <1>4, <1>5 DEF Abstract!Begin

LEMMA NextRefines ==
    ASSUME AllResume
    PROVE  /\ TypeOK /\ TmpInv /\ MetaImpliesSet /\ WrittenNow /\ Succession /\ NoOlderFile
           /\ [Next]_vars
           => [Abstract!Next]_(Abstract!vars)
<1> SUFFICES ASSUME TypeOK, TmpInv, MetaImpliesSet, WrittenNow, Succession, NoOlderFile,
                    [Next]_vars
             PROVE  Abstract!Next \/ UNCHANGED <<At, Safe, Torn(disk["latest"])>>
  BY DEF Abstract!vars
<1>1. ASSUME NEW c \in Commands, FreshStart(c) PROVE Abstract!Next
  BY <1>1, FreshRefines DEF Abstract!Next
<1>2. ASSUME NEW c \in Commands, ResumeStart(c) PROVE Abstract!Next
  BY <1>2, ResumeRefines DEF Abstract!Next
<1>3. CASE Train
  BY <1>3, TrainRefines DEF Abstract!Next
<1>4. CASE Install
  BY <1>4, InstallRefines DEF Abstract!Next
<1>5. CASE Migrate
  <2>1. ~ Working /\ ~ Working' /\ disk'["latest"] = disk["latest"]
    BY <1>5 DEF Migrate, Working, TypeOK, Prefixes
  <2>2. QED
    BY <2>1 DEF At, Safe, LatestMeta
<1>6. CASE WriteTmp \/ UNCHANGED vars
  BY <1>6 DEF WriteTmp, vars, At, Held, Working, Safe, LatestMeta
<1>7. CASE ~ Working' /\ UNCHANGED disk
  BY <1>7, StopRefines DEF Abstract!Next
<1>8. QED
  BY <1>1, <1>2, <1>3, <1>4, <1>5, <1>6, <1>7
     DEF Next, Start, RejectResume, AbortResume, Process, LoadBest, KeepCurrent,
         AbortRestore, AbortTest, Report, Crash, Stop, Working

\* A run that is always restarted with --resume amounts, with its five files
\* and whatever stops it, to a run that goes on where it last saved and is lost
\* only by a save cut short.
THEOREM ImplementsResumableRunAlways ==
    ASSUME AllResume PROVE Spec => ImplementsResumableRun
<1>1. Init => Abstract!Init
  BY DEF Init, Abstract!Init, At, Safe, LatestMeta, Working, Torn, NoFiles, Prefixes, Files
<1>2. QED
  BY <1>1, NextRefines, MetaImpliesSetAlways, WrittenAlways, SuccessionAlways, NoOlderAlways,
     TmpAndTypes, PTL DEF Spec, ImplementsResumableRun, Abstract!Spec

-------------------------------------------------------------------------------
(* The report of a run with one target *)

OneTarget == \A c, d \in Commands : c.steps = d.steps

\* The losses of a line of weights.
LEMMA LineTyped ==
    ASSUME TypeOK, NEW i \in Inits, NEW c \in Commands
    PROVE  /\ Evaluated(c.steps) \subseteq 1 .. c.steps
           /\ c.steps \in 0 .. MaxStep
           /\ \A m \in 0 .. c.steps : <<i, m>> \in Points /\ score[<<i, m>>] \in 0 .. Inf
BY CommandsAreTyped, StepBound DEF TypeOK, Evaluated, Points, Lines, Losses

\* One more step that is not evaluated, or no better, leaves the lowest loss.
LEMMA LowestKept ==
    ASSUME TypeOK, NEW i \in Inits, NEW c \in Commands, NEW b \in Losses, NEW n \in Nat,
           LowestSoFar(b, i, n, c.steps),
           n + 1 \in Evaluated(c.steps) => ~ (score[<<i, n + 1>>] < b)
    PROVE  LowestSoFar(b, i, n + 1, c.steps)
<1>1. Evaluated(c.steps) \subseteq Nat
  BY LineTyped
<1>2. \A k \in Evaluated(c.steps) : k <= n + 1 => k <= n \/ k = n + 1
  BY <1>1
<1>3. \A k \in Evaluated(c.steps) : k <= n => k <= n + 1
  BY <1>1
<1>4. n + 1 \in Evaluated(c.steps) => b <= score[<<i, n + 1>>]
  BY LineTyped, LossBound DEF Losses
<1>5. QED
  BY <1>2, <1>3, <1>4 DEF LowestSoFar

\* A loss below the lowest so far is the lowest, and its step better than all
\* before it.
LEMMA LowestFound ==
    ASSUME TypeOK, NEW i \in Inits, NEW c \in Commands, NEW b \in Losses, NEW n \in Nat,
           LowestSoFar(b, i, n, c.steps),
           n + 1 \in Evaluated(c.steps), score[<<i, n + 1>>] < b
    PROVE  /\ LowestSoFar(score[<<i, n + 1>>], i, n + 1, c.steps)
           /\ NewBest(i, n + 1, c.steps)
<1> DEFINE l == score[<<i, n + 1>>]
<1>1. Evaluated(c.steps) \subseteq Nat
  BY LineTyped
<1>2. \A k \in Evaluated(c.steps) : score[<<i, k>>] \in 0 .. Inf
  BY LineTyped
<1>3. l \in 0 .. Inf /\ b \in 0 .. Inf
  BY <1>2 DEF Losses
<1>4. \A k \in Evaluated(c.steps) : k <= n => l < score[<<i, k>>]
  <2> SUFFICES ASSUME NEW k \in Evaluated(c.steps), k <= n PROVE l < score[<<i, k>>]
    OBVIOUS
  <2>1. b <= score[<<i, k>>]
    BY DEF LowestSoFar
  <2>2. QED
    BY <1>2, <1>3, <2>1, LossBound
<1>5. \A k \in Evaluated(c.steps) : k <= n + 1 => k <= n \/ k = n + 1
  BY <1>1
<1>6. LowestSoFar(l, i, n + 1, c.steps)
  <2>1. \A k \in Evaluated(c.steps) : k <= n + 1 => l <= score[<<i, k>>]
    BY <1>2, <1>3, <1>4, <1>5, LossBound
  <2>2. l \in {score[<<i, m>>] : m \in {k \in Evaluated(c.steps) : k <= n + 1}}
    OBVIOUS
  <2>3. QED
    BY <2>1, <2>2 DEF LowestSoFar
<1>7. NewBest(i, n + 1, c.steps)
  <2>1. l < Inf
    BY <1>3, LossBound
  <2>2. \A k \in Evaluated(c.steps) : k < n + 1 => k <= n
    BY <1>1
  <2>3. QED
    BY <1>4, <2>1, <2>2 DEF NewBest
<1>8. QED
  BY <1>6, <1>7

\* The lowest of all losses is that of the first step that has it.
LEMMA FirstOfLowest ==
    ASSUME TypeOK, NEW i \in Inits, NEW c \in Commands, NEW b \in Losses,
           LowestSoFar(b, i, c.steps, c.steps)
    PROVE  /\ ~ (b < Inf) => BestOf(i, c.steps) = <<i, c.steps>>
           /\ \A m \in 1 .. c.steps :
                NewBest(i, m, c.steps) /\ score[<<i, m>>] <= b => BestOf(i, c.steps) = <<i, m>>
<1> DEFINE E == Evaluated(c.steps)
           finite == {n \in E : score[<<i, n>>] < Inf}
           First(n) == \A m \in finite : \/ score[<<i, n>>] < score[<<i, m>>]
                                         \/ score[<<i, n>>] = score[<<i, m>>] /\ n <= m
<1>1. E \subseteq 1 .. c.steps /\ c.steps \in Nat
  BY LineTyped, StepBound
<1>2. \A k \in E : k \in Nat /\ score[<<i, k>>] \in 0 .. Inf /\ b <= score[<<i, k>>]
  BY <1>1, LineTyped DEF LowestSoFar
<1>3. ~ (b < Inf) => finite = {}
  BY <1>2, LossBound DEF Losses
<1>4. ASSUME NEW m \in 1 .. c.steps, NewBest(i, m, c.steps), score[<<i, m>>] <= b
      PROVE  BestOf(i, c.steps) = <<i, m>>
  <2>1. m \in finite
    BY <1>4 DEF NewBest
  <2>2. First(m)
    <3> SUFFICES ASSUME NEW k \in finite
                 PROVE  \/ score[<<i, m>>] < score[<<i, k>>]
                        \/ score[<<i, m>>] = score[<<i, k>>] /\ m <= k
      OBVIOUS
    <3>1. score[<<i, m>>] <= score[<<i, k>>] /\ score[<<i, m>>] \in Int /\ score[<<i, k>>] \in Int
      BY <1>2, <1>4, <2>1, LossBound DEF Losses
    <3>2. k < m => score[<<i, m>>] < score[<<i, k>>]
      BY <1>4 DEF NewBest
    <3>3. m \in Int /\ k \in E /\ k \in Int
      BY <1>1
    <3>4. QED
      BY <3>1, <3>2, <3>3
  <2>3. \A n \in finite : First(n) => n = m
    <3> SUFFICES ASSUME NEW n \in finite, First(n) PROVE n = m
      OBVIOUS
    <3>1. /\ \/ score[<<i, m>>] < score[<<i, n>>]
             \/ score[<<i, m>>] = score[<<i, n>>] /\ m <= n
          /\ \/ score[<<i, n>>] < score[<<i, m>>]
             \/ score[<<i, n>>] = score[<<i, m>>] /\ n <= m
      BY <2>1, <2>2
    <3>2. score[<<i, m>>] \in Int /\ score[<<i, n>>] \in Int /\ m \in Int /\ n \in Int
      BY <1>2, <2>1
    <3>3. QED
      BY <3>1, <3>2
  <2>4. (CHOOSE n \in finite : First(n)) = m
    BY <2>1, <2>2, <2>3
  <2>5. QED
    BY <2>1, <2>4 DEF BestOf, BestIn
<1>5. QED
  BY <1>3, <1>4 DEF BestOf, BestIn

\* What OneLine says, about given files and memory.
SavedFrom(meta, x) ==
    Readable(meta) => \A c \in Commands :
        /\ meta.step <= c.steps
        /\ LowestSoFar(meta.best, meta.model[1], meta.step, c.steps)
        /\ meta.best < Inf => FromLine(x, meta.model[1], c.steps)

RunFrom(c, b, i, n, meta) ==
    /\ LowestSoFar(b, i, n, c.steps)
    /\ Readable(meta) => meta.model[1] = i

LEMMA OneLineIs ==
    OneLine <=> (~ torn =>
        /\ SavedFrom(LatestMeta, BestOnDisk)
        /\ pc /= "off" => step <= cmd.steps + 1
        /\ Saving => step <= cmd.steps
        /\ Working => RunFrom(cmd, best, mem.model[1], Held, LatestMeta)
        /\ Working /\ best < Inf /\ ~ (pc = "best" /\ w = 1)
             => FromLine(BestOnDisk, mem.model[1], cmd.steps)
        /\ pc = "best" => NewBest(mem.model[1], step, cmd.steps))
BY DEF OneLine, SavedRun, RunningRun, SavedFrom, RunFrom

LEMMA OneLineNext ==
    ASSUME score' = score,
           ~ torn' =>
             /\ SavedFrom(LatestMeta', BestOnDisk')
             /\ pc' /= "off" => step' <= cmd'.steps + 1
             /\ Saving' => step' <= cmd'.steps
             /\ Working' => RunFrom(cmd', best', mem'.model[1], Held', LatestMeta')
             /\ Working' /\ best' < Inf /\ ~ (pc' = "best" /\ w' = 1)
                  => FromLine(BestOnDisk', mem'.model[1], cmd'.steps)
             /\ pc' = "best" => NewBest(mem'.model[1], step', cmd'.steps)
    PROVE  OneLine'
<1> SUFFICES ASSUME ~ torn' PROVE SavedRun' /\ RunningRun'
  BY DEF OneLine
<1>1. SavedRun'
  <2> SUFFICES ASSUME Readable(LatestMeta'), NEW c \in Commands
               PROVE  /\ LatestMeta'.step <= c.steps
                      /\ LowestSoFar(LatestMeta.best, LatestMeta.model[1], LatestMeta.step, c.steps)'
                      /\ LatestMeta'.best < Inf
                           => FromLine(BestOnDisk, LatestMeta.model[1], c.steps)'
    BY DEF SavedRun, Readable
  <2>1. /\ LatestMeta'.step <= c.steps
        /\ LowestSoFar(LatestMeta'.best, LatestMeta'.model[1], LatestMeta'.step, c.steps)
        /\ LatestMeta'.best < Inf => FromLine(BestOnDisk', LatestMeta'.model[1], c.steps)
    BY DEF SavedFrom
  <2>2. LowestSoFar(LatestMeta.best, LatestMeta.model[1], LatestMeta.step, c.steps)'
    BY <2>1 DEF LowestSoFar, Evaluated
  <2>3. LatestMeta'.best < Inf => FromLine(BestOnDisk, LatestMeta.model[1], c.steps)'
    BY <2>1 DEF FromLine, NewBest, Evaluated
  <2>4. QED
    BY <2>1, <2>2, <2>3
<1>2. Working' => LowestSoFar(best, mem.model[1], Held, cmd.steps)'
  BY DEF RunFrom, LowestSoFar, Evaluated
<1>3. Working' /\ best' < Inf /\ ~ (pc' = "best" /\ w' = 1)
        => FromLine(BestOnDisk, mem.model[1], cmd.steps)'
  BY DEF FromLine, NewBest, Evaluated
<1>4. pc' = "best" => NewBest(mem.model[1], step, cmd.steps)'
  BY DEF NewBest, Evaluated
<1>5. QED
  BY <1>2, <1>3, <1>4, <1>1 DEF RunningRun, RunFrom, Readable

LEMMA InitOneLine == Init => OneLine
BY DEF Init, OneLine, SavedRun, RunningRun, LatestMeta, Readable, NoFiles, Prefixes, Files,
       Working, Saving

LEMMA ScoreStays == [Next]_vars => score' = score /\ (torn => torn')
<1>1. [Next]_vars => score' = score
  BY DEF Next, Start, FreshStart, ResumeStart, RejectResume, AbortResume,
         Process, Train, WriteTmp, Install, LoadBest, KeepCurrent,
         AbortRestore, AbortTest, Report, Crash, Migrate, vars
<1>2. [Next]_vars => (torn => torn')
  BY DEF Next, Start, FreshStart, ResumeStart, RejectResume, AbortResume,
         Process, Train, WriteTmp, Install, LoadBest, KeepCurrent,
         AbortRestore, AbortTest, Report, Crash, Migrate, vars
<1>3. QED
  BY <1>1, <1>2

\* Taking files away leaves what is said of those that stay.
LEMMA LineKept ==
    ASSUME TypeOK, [Next]_vars, ~ Install
    PROVE  /\ SavedFrom(LatestMeta, BestOnDisk) => SavedFrom(LatestMeta', BestOnDisk')
           /\ \A i, steps : FromLine(BestOnDisk, i, steps) => FromLine(BestOnDisk', i, steps)
<1>1. \A i, steps : FromLine(BestOnDisk, i, steps) => FromLine(BestOnDisk', i, steps)
  BY KeptFiles DEF FromLine
<1>2. LatestMeta' = LatestMeta
  BY KeptFiles
<1>3. QED
  BY <1>1, <1>2 DEF SavedFrom

\* Installing a file of best or latest keeps the run on its line.
LEMMA InstallOneLine ==
    ASSUME OneTarget, TypeOK, TmpInv, ExactResume, OneLine, Install
    PROVE  OneLine'
<1>1. /\ w \in 1 .. FileCount /\ pc \in Prefixes
      /\ UNCHANGED <<cmd, best, mem, score, torn>>
  BY InstalledFile, InstallEnds
<1>2. SUFFICES ASSUME ~ torn PROVE OneLine'
  BY <1>1 DEF OneLine
<1>3. Working /\ Held = step /\ Saving /\ step \in Nat /\ step >= 1 /\ cmd \in Commands
      /\ cmd.steps \in Nat
  BY <1>1, CommandsAreTyped, StepBound DEF Working, Held, Prefixes, Saving, TypeOK
<1>4. PICK i \in Inits : mem = [model |-> <<i, step>>, opt |-> <<i, step>>, mt |-> step]
  BY <1>1, <1>2, <1>3 DEF ExactResume, AtPosition, Prefixes
<1>5. mem.model[1] = i
  BY <1>4
<1>6. /\ SavedFrom(LatestMeta, BestOnDisk) /\ step <= cmd.steps
      /\ RunFrom(cmd, best, i, step, LatestMeta)
      /\ best < Inf /\ ~ (pc = "best" /\ w = 1) => FromLine(BestOnDisk, i, cmd.steps)
      /\ pc = "best" => NewBest(i, step, cmd.steps)
  BY <1>2, <1>3, <1>5, OneLineIs
<1>7. \A c \in Commands : c.steps = cmd.steps
  BY <1>3 DEF OneTarget
<1>8. pc = "best" /\ w = 1 => FromLine(Snapshot, i, cmd.steps)
  <2>1. Snapshot.model = <<i, step>> /\ step \in 1 .. cmd.steps
    BY <1>3, <1>4, <1>6 DEF Snapshot
  <2>2. QED
    BY <1>6, <2>1 DEF FromLine
<1>9. best < Inf => FromLine(BestOnDisk', i, cmd.steps)
  BY <1>6, <1>8, InstalledFiles
<1>10. SavedFrom(LatestMeta', BestOnDisk')
  <2>1. CASE pc = "latest" /\ w = FileCount
    <3>1. LatestMeta' \in {Short, Snapshot}
      BY <2>1, InstalledFiles
    <3>2. Snapshot.step = step /\ Snapshot.best = best /\ Snapshot.model[1] = i
      BY <1>4 DEF Snapshot
    <3>3. QED
      BY <1>6, <1>7, <1>9, <3>1, <3>2 DEF SavedFrom, RunFrom, Readable
  <2>2. CASE ~ (pc = "latest" /\ w = FileCount)
    <3>1. LatestMeta' = LatestMeta
      BY <2>2, InstalledFiles
    <3>2. BestOnDisk' = BestOnDisk \/ FromLine(BestOnDisk', i, cmd.steps)
      BY <1>8, InstalledFiles
    <3>3. QED
      BY <1>6, <1>7, <3>1, <3>2 DEF SavedFrom, RunFrom
  <2>3. QED
    BY <2>1, <2>2
<1>11. Readable(LatestMeta') => LatestMeta'.model[1] = i
  <2>1. LatestMeta' \in {LatestMeta, Short, Snapshot} /\ Snapshot.model[1] = i
    BY <1>4, InstalledFiles DEF Snapshot
  <2>2. QED
    BY <1>6, <2>1 DEF RunFrom, Readable
<1>12. Held' = step
  BY <1>1, <1>3, InstallEnds DEF Held, Prefixes
<1>13. RunFrom(cmd', best', mem'.model[1], Held', LatestMeta')
  BY <1>1, <1>5, <1>6, <1>11, <1>12 DEF RunFrom
<1>14. /\ step' <= cmd'.steps + 1
       /\ Saving' => step' <= cmd'.steps
       /\ pc' = "best" => pc = "best" /\ step' = step
  BY <1>1, <1>3, <1>6, InstallEnds DEF Saving, Prefixes
<1>15. QED
  BY <1>1, <1>5, <1>6, <1>9, <1>10, <1>13, <1>14, OneLineNext

\* A training step, and the evaluation that ends it, go on along the line: the
\* best loss stays the lowest so far, and a new one is that of this step.
LEMMA TrainOnLine ==
    ASSUME TypeOK, TmpInv, ExactResume, ~ torn, Train,
           LowestSoFar(best, mem.model[1], Held, cmd.steps)
    PROVE  /\ UNCHANGED <<cmd, w, disk, score, torn>> /\ cmd \in Commands
           /\ mem'.model = <<mem.model[1], step>> /\ Held' = step /\ w = 1
           /\ step' <= cmd.steps + 1 /\ (Saving' => step' = step /\ step <= cmd.steps)
           /\ LowestSoFar(best', mem.model[1], step, cmd.steps)
           /\ pc' = "best" => /\ NewBest(mem.model[1], step, cmd.steps)
                             /\ best' = score[<<mem.model[1], step>>]
           /\ pc' /= "best" => best' = best
<1>1. UNCHANGED <<cmd, w, disk, score, torn>> /\ pc = "loop" /\ step <= cmd.steps
  BY DEF Train, InLoop
<1>2. Working /\ Held = step - 1 /\ step \in 1 .. MaxStep + 1 /\ cmd \in Commands
      /\ cmd.steps \in 0 .. MaxStep /\ best \in Losses /\ step - 1 \in Nat /\ w = 1
  BY <1>1, CommandsAreTyped, StepBound DEF Working, Held, Prefixes, Saving, TypeOK, TmpInv
<1>3. PICK i \in Inits :
        mem = [model |-> <<i, step - 1>>, opt |-> <<i, step - 1>>, mt |-> step - 1]
  BY <1>1, <1>2 DEF ExactResume, AtPosition
<1>4. OnTrack(mem)
  BY <1>1, <1>2, <1>3, OffIsNoDraw, StepBound DEF OnTrack
<1>5. mem'.model = <<i, step>> /\ mem.model[1] = i
  BY <1>2, <1>3, <1>4 DEF Train, Trained
<1>6. step \in Evaluated(cmd.steps) <=> EvalDue(step)
  BY <1>1, <1>2 DEF Evaluated, EvalDue
<1>7. (step - 1) + 1 = step /\ LowestSoFar(best, i, step - 1, cmd.steps)
  BY <1>2, <1>5
<1>8. Held' = step /\ (Saving' => step' = step) /\ step' <= cmd.steps + 1
  BY <1>1, <1>2 DEF Train, AfterEval, NextStep, Held, Saving, Prefixes
<1>9. CASE EvalDue(step) /\ Improved(score[mem'.model])
  <2>1. best' = score[<<i, step>>] /\ pc' = "best"
    BY <1>5, <1>9 DEF Train
  <2>2. LowestSoFar(score[<<i, step>>], i, step, cmd.steps) /\ NewBest(i, step, cmd.steps)
    BY <1>2, <1>3, <1>5, <1>6, <1>7, <1>9, LowestFound DEF Improved
  <2>3. QED
    BY <1>1, <1>2, <1>5, <1>8, <2>1, <2>2
<1>10. CASE ~ (EvalDue(step) /\ Improved(score[mem'.model]))
  <2>1. best' = best /\ pc' /= "best"
    BY <1>10 DEF Train, AfterEval
  <2>2. LowestSoFar(best, i, step, cmd.steps)
    BY <1>2, <1>3, <1>5, <1>6, <1>7, <1>10, LowestKept DEF Improved
  <2>3. QED
    BY <1>1, <1>2, <1>5, <1>8, <2>1, <2>2
<1>11. QED
  BY <1>9, <1>10

LEMMA TrainOneLine ==
    ASSUME TypeOK, TmpInv, ExactResume, OneLine, Train
    PROVE  OneLine'
<1>1. pc = "loop" /\ Working /\ torn' = torn /\ LatestMeta' = LatestMeta
      /\ BestOnDisk' = BestOnDisk
  BY DEF Train, Working, LatestMeta, BestOnDisk
<1>2. SUFFICES ASSUME ~ torn PROVE OneLine'
  BY <1>1 DEF OneLine
<1>3. /\ SavedFrom(LatestMeta, BestOnDisk)
      /\ RunFrom(cmd, best, mem.model[1], Held, LatestMeta)
      /\ best < Inf => FromLine(BestOnDisk, mem.model[1], cmd.steps)
  BY <1>1, <1>2, OneLineIs
<1>4. mem'.model[1] = mem.model[1]
  BY <1>2, <1>3, TrainOnLine DEF RunFrom
<1>5. QED
  BY <1>1, <1>2, <1>3, <1>4, TrainOnLine, OneLineNext DEF RunFrom, Saving, Prefixes

\* A whole `latest` set is taken up where it was saved.
LEMMA ResumeOneLine ==
    ASSUME TypeOK, OneLine, NEW c \in Commands, ResumeStart(c)
    PROVE  OneLine'
<1>1. SUFFICES ASSUME ~ torn' PROVE OneLine'
  BY DEF OneLine
<1>2. ~ torn /\ ~ Torn(disk["latest"]) /\ UNCHANGED <<disk, score>>
  BY <1>1 DEF ResumeStart
<1>3. LatestMeta \in Snapshots /\ Readable(LatestMeta)
  <2>1. disk["latest"] \in FileSets
    BY DEF TypeOK, FileSets, FileValues, Prefixes
  <2>2. QED
    BY <2>1, AcceptedMetaTyped, SentinelsAreNoSnapshots
       DEF ResumeStart, Resumes, Readable, LatestMeta
<1>4. mem'.model = LatestMeta.model
  BY <1>2 DEF ResumeStart, Loaded, Torn, Files, LatestMeta
<1>5. /\ pc' = "loop" /\ cmd' = c /\ step' = LatestMeta.step + 1 /\ best' = LatestMeta.best
      /\ LatestMeta' = LatestMeta /\ BestOnDisk' = BestOnDisk
  BY <1>2 DEF ResumeStart, StartStep, CarriedBest, LatestMeta, BestOnDisk
<1>6. LatestMeta.step \in Int /\ c.steps \in Int /\ Held' = LatestMeta.step
  BY <1>3, <1>5, CommandsAreTyped DEF Snapshots, Held
<1>7. SavedFrom(LatestMeta, BestOnDisk)
  BY <1>2, OneLineIs
<1>8. QED
  BY <1>2, <1>3, <1>4, <1>5, <1>6, <1>7, OneLineNext DEF SavedFrom, RunFrom, Saving, Prefixes

\* A new draw has evaluated nothing.
LEMMA FreshOneLine ==
    ASSUME AllResume, TypeOK, OneLine, NEW c \in Commands, FreshStart(c)
    PROVE  OneLine'
<1>1. /\ pc' = "loop" /\ cmd' = c /\ step' = 1 /\ best' = Inf /\ UNCHANGED score
      /\ LatestMeta' = Absent /\ Held' = 0
  BY FreshHasNoLatest DEF FreshStart, LatestMeta, Held
<1>2. PICK i \in Inits : mem'.model = <<i, 0>>
  BY DEF FreshStart
<1>3. LowestSoFar(Inf, i, 0, c.steps)
  <2>1. {k \in Evaluated(c.steps) : k <= 0} = {}
    BY CommandsAreTyped DEF Evaluated
  <2>2. QED
    BY <2>1 DEF LowestSoFar
<1>4. QED
  BY <1>1, <1>2, <1>3, OneLineNext, LossBound, CommandsAreTyped
     DEF SavedFrom, RunFrom, Readable, Saving, Prefixes

LEMMA NextOneLine ==
    ASSUME AllResume, OneTarget
    PROVE  TypeOK /\ TmpInv /\ ExactResume /\ OneLine /\ [Next]_vars => OneLine'
<1> SUFFICES ASSUME TypeOK, TmpInv, ExactResume, OneLine, [Next]_vars PROVE OneLine'
  OBVIOUS
<1>1. CASE Install
  BY <1>1, InstallOneLine
<1>2. CASE Train
  BY <1>2, TrainOneLine
<1>3. ASSUME NEW c \in Commands, FreshStart(c) PROVE OneLine'
  BY <1>3, FreshOneLine
<1>4. ASSUME NEW c \in Commands, ResumeStart(c) PROVE OneLine'
  BY <1>4, ResumeOneLine
<1>5. CASE ~ Install /\ UNCHANGED <<pc, cmd, step, best, mem, w>>
  <2>1. Held' = Held /\ Working' = Working /\ Saving' = Saving /\ LatestMeta' = LatestMeta
    BY <1>5, KeptFiles DEF Held, Working, Saving
  <2>2. QED
    BY <1>5, <2>1, ScoreStays, LineKept, OneLineIs, OneLineNext
<1>6. CASE LoadBest \/ KeepCurrent
  <2>1. ~ Saving' /\ ~ Working' /\ pc = "loop" /\ pc' = "report" /\ UNCHANGED <<step, cmd>>
    BY <1>6 DEF LoadBest, KeepCurrent, Done, Saving, Prefixes, Working
  <2>2. ~ Install
    BY <2>1 DEF Install, Saving, Prefixes
  <2>3. QED
    BY <2>1, <2>2, ScoreStays, LineKept, OneLineIs, OneLineNext
<1>7. CASE ~ Install /\ pc' = "off"
  BY <1>7, ScoreStays, LineKept, OneLineIs, OneLineNext DEF Saving, Prefixes, Working
<1>8. QED
  BY <1>1, <1>2, <1>3, <1>4, <1>5, <1>6, <1>7
     DEF Next, Start, RejectResume, AbortResume, Process, WriteTmp, AbortRestore,
         AbortTest, Report, Crash, Stop, Migrate, vars, Install, Saving, Prefixes

LEMMA OneLineAlways == ASSUME AllResume, OneTarget PROVE Spec => []OneLine
BY InitOneLine, NextOneLine, ExactResumeAlways, TmpAndTypes, PTL DEF Spec

LEMMA OneLineIsOnLine == OneLine /\ BestChain /\ ~ torn => OnLine
BY DEF OneLine, RunningRun, BestChain, OnLine, AtLowest, Working

\* The weights that are reported are those of the first of the lowest losses.
LEMMA NextReportIsBest ==
    /\ TypeOK /\ TmpInv /\ ExactResume /\ (~ torn => OnLine) /\ ReportIsBestOfRun
    /\ [Next]_vars
    => ReportIsBestOfRun'
<1> SUFFICES ASSUME TypeOK, TmpInv, ExactResume, ~ torn => OnLine, ReportIsBestOfRun,
                    [Next]_vars, pc' = "report", ~ torn',
                    best' < Inf => HasSet(disk'["best"])
             PROVE  ReportIsBestOfRun'
  BY DEF ReportIsBestOfRun, HasSet
<1>1. score' = score /\ ~ torn
  BY ScoreStays
<1>2. SUFFICES (\E i \in Inits : mem'.model = BestOf(i, cmd'.steps)) /\ mem'.mt = cmd'.steps
  BY <1>1 DEF ReportIsBestOfRun, BestOf
<1>3. CASE LoadBest \/ KeepCurrent
  <2>1. /\ Done /\ UNCHANGED <<cmd, best, disk>>
        /\ pc = "loop" /\ Working /\ Held = step - 1 /\ cmd \in Commands
        /\ best \in Losses /\ step \in Int /\ cmd.steps \in 0 .. MaxStep
    BY <1>3, CommandsAreTyped DEF LoadBest, KeepCurrent, Done, Working, Held, TypeOK
  <2>2. step - 1 = cmd.steps
    <3>1. step <= cmd.steps + 1
      BY <1>1, <2>1 DEF OnLine
    <3>2. QED
      BY <2>1, <3>1 DEF Done, InLoop
  <2>3. PICK i \in Inits :
          mem = [model |-> <<i, cmd.steps>>, opt |-> <<i, cmd.steps>>, mt |-> cmd.steps]
    BY <1>1, <2>1, <2>2 DEF ExactResume, AtPosition
  <2>4. /\ LowestSoFar(best, i, cmd.steps, cmd.steps)
        /\ best < Inf => AtLowest(BestOnDisk, best, i, cmd.steps)
    BY <1>1, <2>1, <2>2, <2>3 DEF OnLine
  <2>5. CASE LoadBest
    <3>1. BestOnDisk /= Absent /\ mem'.model = BestOnDisk.model /\ mem'.mt = mem.mt
      BY <2>5 DEF LoadBest, AllButStream, LoadThrows, Loaded, BestOnDisk
    <3>2. best < Inf
      BY <2>5 DEF LoadBest, BestIsHere
    <3>3. PICK m \in 1 .. cmd.steps : BestOnDisk.model = <<i, m>> /\ NewBest(i, m, cmd.steps)
      BY <2>4, <3>1, <3>2 DEF AtLowest, FromLine
    <3>4. score[<<i, m>>] <= best
      BY <2>4, <3>1, <3>2, <3>3 DEF AtLowest
    <3>5. BestOf(i, cmd.steps) = <<i, m>>
      BY <2>1, <2>4, <3>3, <3>4, FirstOfLowest
    <3>6. QED
      BY <2>1, <2>3, <3>1, <3>3, <3>5
  <2>6. CASE KeepCurrent
    <3>1. mem' = mem /\ ~ (best < Inf)
      BY <2>1, <2>6 DEF KeepCurrent, BestIsHere
    <3>2. BestOf(i, cmd.steps) = <<i, cmd.steps>>
      BY <2>1, <2>4, <3>1, FirstOfLowest
    <3>3. QED
      BY <2>1, <2>3, <3>1, <3>2
  <2>7. QED
    BY <1>3, <2>5, <2>6
<1>4. CASE UNCHANGED <<pc, mem, cmd, best, disk>>
  BY <1>1, <1>4 DEF ReportIsBestOfRun
<1>5. QED
  BY <1>3, <1>4
     DEF Next, Start, FreshStart, ResumeStart, RejectResume, AbortResume,
         Process, Train, AfterEval, WriteTmp, Install, AfterSave, AbortRestore,
         AbortTest, Report, Crash, Stop, Migrate, Saving, Prefixes, vars

\* However often and wherever a run towards one --steps is killed and resumed,
\* it reports the weights that the run reports which was never interrupted, at
\* the same place of the batch stream.
THEOREM ReportIsBestOfRunAlways ==
    ASSUME AllResume, OneTarget PROVE Spec => []ReportIsBestOfRun
<1>1. Init => ReportIsBestOfRun
  BY DEF Init, ReportIsBestOfRun
<1>2. QED
  BY <1>1, NextReportIsBest, OneLineIsOnLine, OneLineAlways, ChainAlways, ExactResumeAlways,
     TmpAndTypes, PTL DEF Spec

-------------------------------------------------------------------------------
(* Runs that are never resumed *)

AllFresh == \A c \in Commands : ~ c.resume

LEMMA FreshRunNext ==
    ASSUME score' = score, ~ torn',
           pc' /= "off" => step' <= cmd'.steps + 1,
           Working' => LowestSoFar(best', mem'.model[1], Held', cmd'.steps),
           Working' /\ best' < Inf /\ ~ (pc' = "best" /\ w' = 1)
             => AtLowest(BestOnDisk', best', mem'.model[1], cmd'.steps),
           pc' = "best" => /\ NewBest(mem'.model[1], step', cmd'.steps)
                           /\ score[<<mem'.model[1], step'>>] = best',
           pc' \in {"loop", "latest", "report"} /\ best' < Inf => HasSet(disk'["best"])
    PROVE  FreshRun'
<1>1. Working' => LowestSoFar(best, mem.model[1], Held, cmd.steps)'
  BY DEF LowestSoFar, Evaluated
<1>2. Working' /\ best' < Inf /\ ~ (pc' = "best" /\ w' = 1)
        => AtLowest(BestOnDisk, best, mem.model[1], cmd.steps)'
  BY DEF AtLowest, FromLine, NewBest, Evaluated
<1>3. pc' = "best" => NewBest(mem.model[1], step, cmd.steps)'
  BY DEF NewBest, Evaluated
<1>4. OnLine'
  BY <1>1, <1>2 DEF OnLine
<1>5. QED
  BY <1>3, <1>4 DEF FreshRun, HasSet

\* Installing a file of best.* puts the new best in place; one of `latest`
\* changes nothing of it.
LEMMA InstallFreshRun ==
    ASSUME TypeOK, TmpInv, InTime, ExactResume, FreshRun, Install
    PROVE  FreshRun'
<1>1. /\ w \in 1 .. FileCount /\ pc \in Prefixes /\ ~ torn'
      /\ UNCHANGED <<cmd, best, mem, score>>
  BY InstalledFile, InstallEnds DEF FreshRun
<1>2. Working /\ Held = step /\ step \in Nat /\ step >= 1 /\ cmd.steps \in Nat
      /\ step <= cmd.steps
  BY <1>1, CommandsAreTyped, StepBound DEF Working, Held, Prefixes, Saving, TypeOK, InTime
<1>3. PICK i \in Inits : mem = [model |-> <<i, step>>, opt |-> <<i, step>>, mt |-> step]
  BY <1>1, <1>2 DEF ExactResume, AtPosition, FreshRun
<1>4. mem.model[1] = i /\ Snapshot.model = <<i, step>>
  BY <1>3 DEF Snapshot
<1>5. best < Inf => AtLowest(BestOnDisk', best, i, cmd.steps)
  <2>1. CASE pc = "best" /\ w = 1
    <3>1. BestOnDisk' = Snapshot
      BY <2>1, InstalledFiles
    <3>2. NewBest(i, step, cmd.steps) /\ score[<<i, step>>] = best /\ best \in Int
      BY <1>4, <2>1, LossBound DEF FreshRun, TypeOK, Losses
    <3>3. QED
      BY <1>2, <1>4, <3>1, <3>2 DEF AtLowest, FromLine
  <2>2. CASE ~ (pc = "best" /\ w = 1)
    <3>1. BestOnDisk' = BestOnDisk
      BY <2>2, InstalledFiles
    <3>2. QED
      BY <1>2, <1>4, <2>2, <3>1 DEF FreshRun, OnLine
  <2>3. QED
    BY <2>1, <2>2
<1>6. Held' = step /\ LowestSoFar(best, i, step, cmd.steps)
  BY <1>1, <1>2, <1>4, InstallEnds DEF Held, Prefixes, FreshRun, OnLine
<1>7. /\ step' <= cmd.steps + 1
      /\ pc' = "best" => pc = "best" /\ step' = step
  BY <1>1, <1>2, InstallEnds DEF Prefixes
<1>8. pc' \in {"loop", "latest", "report"} /\ best < Inf => HasSet(disk'["best"])
  <2>1. CASE pc = "best" /\ w = FileCount
    <3>1. FileAt(w) = "meta"
      BY <1>1, <2>1, MetaIsLast
    <3>2. disk'["best"]["meta"] = tmp /\ tmp /= Absent
      BY <2>1, <3>1, InstalledFile DEF Install
    <3>3. QED
      BY <3>2 DEF HasSet
  <2>2. CASE pc = "best" /\ w /= FileCount
    BY <2>2, InstallEnds
  <2>3. CASE pc = "latest"
    <3>1. disk'["best"]["meta"] = disk["best"]["meta"]
      BY <2>3, InstalledFile DEF Prefixes, Files
    <3>2. QED
      BY <2>3, <3>1 DEF FreshRun, HasSet
  <2>4. QED
    BY <1>1, <2>1, <2>2, <2>3 DEF Prefixes
<1>9. pc' = "best" => /\ NewBest(i, step', cmd.steps)
                      /\ score[<<i, step'>>] = best
  BY <1>4, <1>7 DEF FreshRun
<1>10. QED
  BY <1>1, <1>4, <1>5, <1>6, <1>7, <1>8, <1>9, FreshRunNext

LEMMA TrainFreshRun ==
    ASSUME TypeOK, TmpInv, ExactResume, FreshRun, Train
    PROVE  FreshRun'
<1>1. pc = "loop" /\ Working /\ w = 1 /\ pc' \in {"loop", "best", "latest"}
      /\ UNCHANGED disk
  BY DEF Train, AfterEval, Working, TmpInv, Saving, Prefixes
<1>2. /\ ~ torn /\ LowestSoFar(best, mem.model[1], Held, cmd.steps)
      /\ best < Inf => /\ AtLowest(BestOnDisk, best, mem.model[1], cmd.steps)
                       /\ HasSet(disk["best"])
  BY <1>1 DEF FreshRun, OnLine
<1>3. mem'.model[1] = mem.model[1] /\ BestOnDisk' = BestOnDisk
  BY <1>1, <1>2, TrainOnLine DEF BestOnDisk
<1>4. QED
  BY <1>1, <1>2, <1>3, TrainOnLine, FreshRunNext DEF Saving, Prefixes

LEMMA NextFreshRun ==
    ASSUME AllFresh
    PROVE  TypeOK /\ TmpInv /\ InTime /\ ExactResume /\ FreshRun /\ [Next]_vars => FreshRun'
<1> SUFFICES ASSUME TypeOK, TmpInv, InTime, ExactResume, FreshRun, [Next]_vars PROVE FreshRun'
  OBVIOUS
<1>1. CASE Install
  BY <1>1, InstallFreshRun
<1>2. CASE Train
  BY <1>2, TrainFreshRun
<1>3. ASSUME NEW c \in Commands, FreshStart(c) PROVE FreshRun'
  <2>1. /\ pc' = "loop" /\ cmd' = c /\ step' = 1 /\ best' = Inf /\ UNCHANGED <<score, torn>>
        /\ Held' = 0
    BY <1>3 DEF FreshStart, Held
  <2>2. PICK i \in Inits : mem'.model = <<i, 0>>
    BY <1>3 DEF FreshStart
  <2>3. LowestSoFar(Inf, i, 0, c.steps)
    <3>1. {k \in Evaluated(c.steps) : k <= 0} = {}
      BY CommandsAreTyped DEF Evaluated
    <3>2. QED
      BY <3>1 DEF LowestSoFar
  <2>4. ~ (Inf < Inf) /\ 1 <= c.steps + 1
    BY LossBound, CommandsAreTyped
  <2>5. QED
    BY <2>1, <2>2, <2>3, <2>4, FreshRunNext DEF FreshRun
<1>4. ASSUME NEW c \in Commands, Resumes(c) PROVE FALSE
  BY <1>4 DEF AllFresh, Resumes
<1>5. CASE UNCHANGED <<pc, cmd, step, best, mem, w, disk, score, torn>>
  <2>1. Held' = Held /\ Working' = Working /\ BestOnDisk' = BestOnDisk
    BY <1>5 DEF Held, Working, BestOnDisk
  <2>2. QED
    BY <1>5, <2>1, FreshRunNext DEF FreshRun, OnLine
<1>6. CASE LoadBest \/ KeepCurrent
  <2>1. ~ Working' /\ pc = "loop" /\ pc' = "report"
        /\ UNCHANGED <<step, cmd, best, disk, score, torn>>
    BY <1>6 DEF LoadBest, KeepCurrent, Done, Working
  <2>2. QED
    BY <2>1, FreshRunNext DEF FreshRun, OnLine
<1>7. CASE pc' = "off" /\ UNCHANGED <<score, torn>>
  BY <1>7, FreshRunNext DEF Working, FreshRun
<1>8. QED
  BY <1>1, <1>2, <1>3, <1>4, <1>5, <1>6, <1>7
     DEF Next, Start, ResumeStart, RejectResume, AbortResume, Process, WriteTmp,
         AbortRestore, AbortTest, Report, Crash, Stop, Migrate, vars

LEMMA FreshRunAlways == ASSUME AllFresh PROVE Spec => []FreshRun
<1>1. Init => FreshRun
  BY DEF Init, FreshRun, OnLine, Working
<1>2. QED
  BY <1>1, NextFreshRun, TmpAndTypes, InTimeAlways, ExactResumeAlways, PTL DEF Spec

\* Commands that never resume, whatever their targets and structures and what
\* was killed in the directory before, report the first of the lowest losses of
\* their own run.
THEOREM ReportIsBestOfFreshRun ==
    ASSUME AllFresh PROVE Spec => []ReportIsBestOfRun
<1>1. Init => ReportIsBestOfRun
  BY DEF Init, ReportIsBestOfRun
<1>2. FreshRun => OnLine
  BY DEF FreshRun
<1>3. QED
  BY <1>1, <1>2, NextReportIsBest, FreshRunAlways, ExactResumeAlways, TmpAndTypes, PTL DEF Spec

\* The record is that of the run which its command line stands for.
RecordIsBest ==
    record /= NoRecord =>
        \A c \in Commands : \E i \in Inits : record.model = BestOf(i, c.steps)

LEMMA NextRecordIsBest ==
    ASSUME OneTarget
    PROVE  TypeOK /\ FreshRun /\ ReportIsBestOfRun /\ RecordIsBest /\ [Next]_vars
             => RecordIsBest'
<1> SUFFICES ASSUME TypeOK, FreshRun, ReportIsBestOfRun, RecordIsBest, [Next]_vars,
                    record' /= NoRecord, NEW c \in Commands
             PROVE  \E i \in Inits : record'.model = BestOf(i, c.steps)'
  BY DEF RecordIsBest
<1>1. score' = score
  BY ScoreStays
<1>2. \A i : BestOf(i, c.steps)' = BestOf(i, c.steps)
  BY <1>1 DEF BestOf
<1>3. CASE Report
  <2>1. record'.model = mem.model /\ cmd \in Commands /\ pc = "report"
    BY <1>3 DEF Report, TypeOK
  <2>2. \E i \in Inits : mem.model = BestOf(i, cmd.steps)
    BY <2>1 DEF FreshRun, ReportIsBestOfRun
  <2>3. cmd.steps = c.steps
    BY <2>1 DEF OneTarget
  <2>4. QED
    BY <1>2, <2>1, <2>2, <2>3
<1>4. CASE record' = record
  BY <1>2, <1>4 DEF RecordIsBest
<1>5. QED
  BY <1>3, <1>4
     DEF Next, Start, FreshStart, ResumeStart, RejectResume, AbortResume, Process, Train,
         WriteTmp, Install, LoadBest, KeepCurrent, AbortRestore, AbortTest, Crash, Migrate, vars

\* With initial weights that the seed does fix, one command line that is run
\* again and again from the start appends one and the same loss, wherever its
\* processes are killed.
THEOREM SeedDeterminesRecordOfOneDraw ==
    ASSUME AllFresh, OneTarget, NEW i, Inits = {i} PROVE Spec => SeedDeterminesRecord
<1>1. Init => RecordIsBest
  BY DEF Init, RecordIsBest
<1>2. TypeOK /\ RecordIsBest /\ RecordIsBest' /\ [Next]_vars
        => [record /= NoRecord => score[record'.model] = score[record.model]]_record
  <2> SUFFICES ASSUME TypeOK, RecordIsBest, RecordIsBest', [Next]_vars,
                      record' /= record, record /= NoRecord
               PROVE  score[record'.model] = score[record.model]
    OBVIOUS
  <2>1. Report
    BY DEF Next, Start, FreshStart, ResumeStart, RejectResume, AbortResume, Process, Train,
         WriteTmp, Install, LoadBest, KeepCurrent, AbortRestore, AbortTest, Crash, Migrate, vars
  <2>2. PICK c \in Commands : c = cmd
    BY <2>1 DEF Report, TypeOK
  <2>3. record' /= NoRecord
    BY <2>1, CommandsAreTyped, NoRecordIsNone DEF Report, TypeOK
  <2>4. record.model = BestOf(i, c.steps) /\ record'.model = BestOf(i, c.steps)'
    BY <2>3 DEF RecordIsBest
  <2>5. BestOf(i, c.steps)' = BestOf(i, c.steps)
    BY ScoreStays DEF BestOf
  <2>6. QED
    BY <2>4, <2>5
<1>3. QED
  BY <1>1, <1>2, NextRecordIsBest, ReportIsBestOfFreshRun, FreshRunAlways, TmpAndTypes, PTL
     DEF Spec, SeedDeterminesRecord

-------------------------------------------------------------------------------
(* Where the comment of save_checkpoint holds *)

\* Processes that nothing stops between the first and the last rename of a
\* `latest` set.
OrderlyNext ==
    \/ \E c \in Commands : Start(c)
    \/ Process
    \/ ~ (pc = "latest" /\ w > 1) /\ Crash
    \/ Migrate
OrderlySpec == Init /\ [][OrderlyNext]_vars

\* With orderly processes and no full disk, the files of `latest` are of
\* different saves only while a save goes from one to the other.
OneSave ==
    /\ ~ torn
    /\ \A f \in Files : disk["latest"][f] /= Short
    /\ Torn(disk["latest"]) => pc = "latest" /\ w > 1

\* The last file makes the set one of this save.
LEMMA InstallOneSave ==
    ASSUME ShortWrites = {}, TypeOK, TmpInv, WrittenNow, OneSave, Install
    PROVE  OneSave'
<1>1. /\ w \in 1 .. FileCount /\ pc \in Prefixes /\ tmp = Snapshot /\ ~ torn'
      /\ disk'[pc][FileAt(w)] = tmp
      /\ \A s \in Prefixes : \A f \in Files :
           s /= pc \/ f /= FileAt(w) => disk'[s][f] = disk[s][f]
  BY InstalledFile, InstallEnds DEF TmpInv, OneSave
<1>2. Snapshot /= Short
  BY SnapshotTyped, SentinelsAreNoSnapshots DEF Install
<1>3. \A f \in Files : disk'["latest"][f] /= Short
  BY <1>1, <1>2 DEF OneSave, Prefixes
<1>4. CASE pc = "best"
  <2>1. \A f \in Files : disk'["latest"][f] = disk["latest"][f]
    BY <1>1, <1>4 DEF Prefixes
  <2>2. ~ Torn(disk'["latest"])
    BY <1>4, <2>1 DEF OneSave, Torn
  <2>3. QED
    BY <1>1, <1>3, <2>2 DEF OneSave
<1>5. CASE pc = "latest" /\ w < FileCount
  BY <1>1, <1>3, <1>5, InstallEnds DEF OneSave
<1>6. CASE pc = "latest" /\ w = FileCount
  <2>1. \A k \in 1 .. FileCount : disk'["latest"][FileAt(k)] = Snapshot
    <3> SUFFICES ASSUME NEW k \in 1 .. FileCount
                 PROVE  disk'["latest"][FileAt(k)] = Snapshot
      OBVIOUS
    <3>1. FileAt(k) \in Files
      BY FileAtIsFile
    <3>2. CASE k = w
      BY <1>1, <1>6, <3>2
    <3>3. CASE k /= w
      <4>1. disk["latest"][FileAt(k)] = Snapshot
        BY <1>1, <1>6, <3>1, <3>3 DEF WrittenNow, Install, OneSave, FileCount
      <4>2. FileAt(k) /= FileAt(w)
        BY <1>1, <3>3, FilesNumbered
      <4>3. QED
        BY <1>1, <1>6, <3>1, <4>1, <4>2
    <3>4. QED
      BY <3>2, <3>3
  <2>2. ~ Torn(disk'["latest"])
    BY <2>1, MetaIsLast DEF Torn
  <2>3. QED
    BY <1>1, <1>3, <2>2 DEF OneSave
<1>7. QED
  BY <1>1, <1>4, <1>5, <1>6 DEF Prefixes, FileCount

LEMMA NextOneSave ==
    ASSUME ShortWrites = {}
    PROVE  TypeOK /\ TmpInv /\ WrittenNow /\ OneSave /\ [OrderlyNext]_vars => OneSave'
<1> SUFFICES ASSUME TypeOK, TmpInv, WrittenNow, OneSave, [OrderlyNext]_vars PROVE OneSave'
  OBVIOUS
<1>1. CASE Install
  BY <1>1, InstallOneSave
<1>2. ASSUME NEW c \in Commands, Start(c) PROVE OneSave'
  <2>1. pc = "off" /\ disk' = disk
    BY <1>2 DEF Start, FreshStart, ResumeStart, RejectResume, AbortResume
  <2>2. ~ Torn(disk["latest"])
    BY <2>1 DEF OneSave
  <2>3. torn' = torn \/ torn' = (torn \/ Torn(disk["latest"]))
    BY <1>2 DEF Start, FreshStart, ResumeStart, RejectResume, AbortResume
  <2>4. ~ torn'
    BY <2>2, <2>3 DEF OneSave
  <2>5. QED
    BY <2>1, <2>2, <2>4 DEF OneSave
<1>3. CASE UNCHANGED <<pc, w, disk, torn>>
  BY <1>3 DEF OneSave
<1>4. CASE Train \/ LoadBest \/ KeepCurrent \/ AbortRestore \/ AbortTest \/ Report
  BY <1>4 DEF Train, LoadBest, KeepCurrent, AbortRestore, AbortTest, Report, Done, OneSave
<1>5. CASE ~ (pc = "latest" /\ w > 1) /\ Crash
  BY <1>5 DEF Crash, OneSave
<1>6. CASE Migrate
  <2>1. pc = "off" /\ ~ torn' /\ disk'["latest"] = disk["latest"]
    BY <1>6 DEF Migrate, OneSave, TypeOK, Prefixes
  <2>2. QED
    BY <2>1 DEF OneSave
<1>7. QED
  BY <1>1, <1>2, <1>3, <1>4, <1>5, <1>6 DEF OrderlyNext, Process, WriteTmp, vars

\* The comment of save_checkpoint holds where nothing stops a process between
\* the first and the last rename of a `latest` set and no disk is full: then
\* .meta marks a set that is valid, and every resume is exact.
THEOREM MetaMarksValidOrderly ==
    ASSUME ShortWrites = {} PROVE OrderlySpec => []MetaMarksValid
<1>1. [OrderlyNext]_vars => [Next]_vars
  BY DEF OrderlyNext, Next
<1>2. Init => OneSave
  <2>1. \A f \in Files : NoFiles[f] = Absent
    BY DEF NoFiles
  <2>2. QED
    BY <2>1, SentinelsDiffer DEF Init, OneSave, Torn, Prefixes
<1>3. ExactResume /\ OneSave => MetaMarksValid
  BY DEF ExactResume, OneSave, MetaMarksValid
<1>4. QED
  BY <1>1, <1>2, <1>3, NextOneSave, TmpAndTypes, WrittenAlways, ExactResumeAlways, PTL
     DEF Spec, OrderlySpec
===============================================================================
