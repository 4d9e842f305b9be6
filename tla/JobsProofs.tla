------------------------------ MODULE JobsProofs ------------------------------
(***************************************************************************)
(* Proofs about concurrent runs, for any number of jobs, architectures,    *)
(* evaluations and losses.                                                 *)
(***************************************************************************)
EXTENDS Jobs, FiniteSetTheorems, TLAPS

Places == {"idle", "train", "save", "saving", "report", "logged", "failing"} \cup Ended
Entries == [by : JobIds, loss : Losses, whole : BOOLEAN]

TypeInv ==
    /\ pc \in [JobIds -> Places]
    /\ left \in [JobIds -> 0 .. Evals]
    /\ best \in [JobIds -> Losses]
    /\ cur \in [JobIds -> Weights]
    /\ file \in Weights \cup {NoFile, Partial, Garbled}
    /\ crossed \in [JobIds -> BOOLEAN]
    /\ log \in Seq(Entries)
    /\ alone \in [JobIds -> BOOLEAN]

Own(j) == [by |-> j, loss |-> best[j]]

\* While a job runs alone nothing but its own saves reaches the file.
Solo(j) ==
    alone[j] /\ Running(j) =>
        /\ \A k \in Others(j) : ~ Running(k)
        /\ pc[j] = "saving" => ~ crossed[j]
        /\ pc[j] \in {"save", "saving"} => cur[j] = Own(j)
        /\ pc[j] = "train" /\ best[j] < Inf => file = Own(j)
        /\ pc[j] = "report" /\ best[j] < Inf => cur[j] = Own(j)

\* A job that has not begun has no best; one without a best has its own weights.
Untouched(j) ==
    /\ pc[j] = "idle" => best[j] = Inf
    /\ best[j] = Inf => cur[j].by = j

\* A cut line is the only one of a job that failed, or was killed at it.
CutLines(j) == {k \in DOMAIN log : log[k].by = j /\ ~ log[k].whole}
CutsAreErrors ==
    \A j \in JobIds : \A k, l \in CutLines(j) : k = l /\ Announced(j)

-------------------------------------------------------------------------------

LEMMA InitTyped == Init => TypeInv
BY EvalBound, LossBound DEF Init, TypeInv, Places, Weights, Losses

LEMMA NextTyped == TypeInv /\ [Next]_vars => TypeInv'
<1> SUFFICES ASSUME TypeInv, [Next]_vars PROVE TypeInv'
  OBVIOUS
<1> USE DEF TypeInv, Places, Ended
<1>1. ASSUME NEW j \in JobIds, Begin(j) PROVE TypeInv'
  BY <1>1 DEF Begin
<1>2. ASSUME NEW j \in JobIds, Evaluate(j) PROVE TypeInv'
  <2>1. PICK loss \in Losses :
          /\ cur' = [cur EXCEPT ![j] = [by |-> j, loss |-> loss]]
          /\ IF Improved(loss, best[j])
             THEN /\ best' = [best EXCEPT ![j] = loss]
                  /\ pc' = [pc EXCEPT ![j] = "save"]
             ELSE UNCHANGED <<best, pc>>
    BY <1>2 DEF Evaluate
  <2>2. [by |-> j, loss |-> loss] \in Weights
    BY DEF Weights
  <2>3. left[j] - 1 \in 0 .. Evals
    BY <1>2, EvalBound DEF Evaluate
  <2>4. QED
    BY <1>2, <2>1, <2>2, <2>3 DEF Evaluate
<1>3. ASSUME NEW j \in JobIds, OpenBest(j) PROVE TypeInv'
  BY <1>3 DEF OpenBest
<1>4. ASSUME NEW j \in JobIds, CloseBest(j) PROVE TypeInv'
  BY <1>4 DEF CloseBest
<1>5. ASSUME NEW j \in JobIds, Restore(j) PROVE TypeInv'
  BY <1>5 DEF Restore
<1>6. ASSUME NEW j \in JobIds, KeepCurrent(j) PROVE TypeInv'
  BY <1>6 DEF KeepCurrent
<1>7. ASSUME NEW j \in JobIds, AbortRestore(j) PROVE TypeInv'
  BY <1>7 DEF AbortRestore
<1>8. ASSUME NEW j \in JobIds, NEW whole \in BOOLEAN
      PROVE  Append(log, Entry(j, whole)) \in Seq(Entries)
  BY DEF Entry, Entries, Weights
<1>9. ASSUME NEW j \in JobIds, AppendRecord(j) PROVE TypeInv'
  BY <1>8, <1>9 DEF AppendRecord
<1>10. ASSUME NEW j \in JobIds, AppendFails(j) PROVE TypeInv'
  BY <1>8, <1>10 DEF AppendFails
<1>11. ASSUME NEW j \in JobIds, Exit(j) \/ Throw(j) \/ Kill(j) PROVE TypeInv'
  BY <1>11 DEF Exit, Throw, OutcomeOfCutLine, Kill
<1>12. CASE UNCHANGED vars
  BY <1>12 DEF vars
<1>13. QED
  BY <1>1, <1>2, <1>3, <1>4, <1>5, <1>6, <1>7, <1>9, <1>10, <1>11, <1>12 DEF Next, Step

LEMMA TypesAlways == Spec => []TypeInv
BY InitTyped, NextTyped, PTL DEF Spec

-------------------------------------------------------------------------------
(* Which weights a job has *)

LEMMA InitUntouched == Init => \A j \in JobIds : Untouched(j)
<1> SUFFICES ASSUME Init, NEW j \in JobIds PROVE Untouched(j)
  OBVIOUS
<1>1. cur[j] = [by |-> j, loss |-> Inf]
  BY DEF Init
<1>2. QED
  BY <1>1 DEF Init, Untouched

LEMMA NextUntouched ==
    TypeInv /\ (\A j \in JobIds : Untouched(j)) /\ [Next]_vars
      => (\A j \in JobIds : Untouched(j))'
<1> SUFFICES ASSUME TypeInv, \A j \in JobIds : Untouched(j), [Next]_vars, NEW i \in JobIds
             PROVE  Untouched(i)'
  OBVIOUS
<1> USE DEF TypeInv, Untouched
<1>1. ASSUME NEW j \in JobIds, Evaluate(j) PROVE Untouched(i)'
  <2>1. PICK loss \in Losses :
          /\ cur' = [cur EXCEPT ![j] = [by |-> j, loss |-> loss]]
          /\ IF Improved(loss, best[j])
             THEN /\ best' = [best EXCEPT ![j] = loss]
                  /\ pc' = [pc EXCEPT ![j] = "save"]
             ELSE UNCHANGED <<best, pc>>
    BY <1>1 DEF Evaluate
  <2>2. QED
    BY <1>1, <2>1 DEF Evaluate
<1>2. ASSUME NEW j \in JobIds, Restore(j) PROVE Untouched(i)'
  BY <1>2, LossBound DEF Restore, HasBest, Finished
<1>3. ASSUME UNCHANGED <<best, cur>>, pc'[i] = "idle" => pc[i] = "idle" PROVE Untouched(i)'
  BY <1>3
<1>4. ASSUME NEW j \in JobIds, NEW place, place /= "idle", pc' = [pc EXCEPT ![j] = place]
      PROVE  pc'[i] = "idle" => pc[i] = "idle"
  BY <1>4
<1>5. QED
  BY <1>1, <1>2, <1>3, <1>4 DEF Next, Step, Begin, OpenBest, CloseBest, KeepCurrent,
     AbortRestore, AppendRecord, AppendFails, Exit, Throw, OutcomeOfCutLine, Kill, vars

\* A job that never found a loss to save reports weights of its own.
THEOREM NoBestReportsOwnAlways == Spec => []NoBestReportsOwn
<1>1. (\A j \in JobIds : Untouched(j)) => NoBestReportsOwn
  BY DEF Untouched, NoBestReportsOwn
<1>2. QED
  BY <1>1, InitUntouched, NextUntouched, TypesAlways, PTL DEF Spec

-------------------------------------------------------------------------------
(* Jobs that meet no other *)

LEMMA InitSolo == Init => \A j \in JobIds : Solo(j)
BY DEF Init, Solo, Running

\* A job that runs alone is not disturbed by a step of another, since there is
\* none but the start that ends its being alone.
LEMMA OthersStep ==
    ASSUME TypeInv, \A j \in JobIds : Solo(j),
           NEW i \in JobIds, NEW j \in JobIds, i /= j, Running(j),
           NEW place \in Places \ {"idle"}, pc' = [pc EXCEPT ![j] = place], alone' = alone
    PROVE  Solo(i)'
<1>1. Running(i)' = Running(i)
  BY DEF TypeInv, Running
<1>2. ~ (alone[i] /\ Running(i))
  BY DEF Solo, Others
<1>3. QED
  BY <1>1, <1>2 DEF Solo

LEMMA NextSolo ==
    TypeInv /\ (\A j \in JobIds : Solo(j)) /\ (\A j \in JobIds : Untouched(j)) /\ [Next]_vars
      => (\A j \in JobIds : Solo(j))'
<1> SUFFICES ASSUME TypeInv, \A j \in JobIds : Solo(j), \A j \in JobIds : Untouched(j),
                    [Next]_vars, NEW i \in JobIds
             PROVE  Solo(i)'
  OBVIOUS
<1> USE DEF TypeInv, Running, Ended, Others, Own
<1>1. ASSUME NEW j \in JobIds, Begin(j) PROVE Solo(i)'
  <2>1. CASE i = j
    BY <1>1, <2>1, LossBound DEF Begin, Untouched, Solo, Losses
  <2>2. CASE i /= j
    <3>1. pc'[i] = pc[i] /\ (alone'[i] = (alone[i] /\ ~ Running(i)))
      BY <1>1, <2>2 DEF Begin
    <3>2. QED
      BY <3>1 DEF Solo
  <2>3. QED
    BY <2>1, <2>2
<1>2. ASSUME NEW j \in JobIds, Running(j), alone' = alone, pc'[j] /= "idle",
             \E place \in Places : pc' = [pc EXCEPT ![j] = place], i /= j
      PROVE  Solo(i)'
  BY <1>2, OthersStep
<1>3. ASSUME NEW j \in JobIds, Running(j), alone' = alone,
             \E place \in Places \ {"idle"} : pc' = [pc EXCEPT ![j] = place], i = j,
             alone[i]
      PROVE  \A k \in Others(i) : ~ Running(k) /\ ~ Running(k)'
  BY <1>3 DEF Solo
<1>4. ASSUME NEW j \in JobIds, Evaluate(j) PROVE Solo(i)'
  <2>1. PICK loss \in Losses :
          /\ cur' = [cur EXCEPT ![j] = [by |-> j, loss |-> loss]]
          /\ IF Improved(loss, best[j])
             THEN /\ best' = [best EXCEPT ![j] = loss]
                  /\ pc' = [pc EXCEPT ![j] = "save"]
             ELSE UNCHANGED <<best, pc>>
    BY <1>4 DEF Evaluate
  <2>2. pc' = [pc EXCEPT ![j] = IF Improved(loss, best[j]) THEN "save" ELSE "train"]
    BY <1>4, <2>1 DEF Evaluate
  <2>3. CASE i /= j
    BY <1>2, <1>4, <2>2, <2>3 DEF Evaluate, Places
  <2>4. CASE i = j
    BY <1>3, <1>4, <2>1, <2>2, <2>4 DEF Evaluate, Places, Solo
  <2>5. QED
    BY <2>3, <2>4
<1>5. ASSUME NEW j \in JobIds, OpenBest(j) PROVE Solo(i)'
  <2>1. CASE i /= j
    BY <1>2, <1>5, <2>1 DEF OpenBest, Places
  <2>2. CASE i = j
    BY <1>3, <1>5, <2>2 DEF OpenBest, Places, Solo
  <2>3. QED
    BY <2>1, <2>2
<1>6. ASSUME NEW j \in JobIds, CloseBest(j) PROVE Solo(i)'
  <2>1. CASE i /= j
    BY <1>2, <1>6, <2>1 DEF CloseBest, Places
  <2>2. CASE i = j
    BY <1>3, <1>6, <2>2 DEF CloseBest, Places, Solo
  <2>3. QED
    BY <2>1, <2>2
<1>7. ASSUME NEW j \in JobIds, Restore(j) PROVE Solo(i)'
  <2>1. CASE i /= j
    BY <1>2, <1>7, <2>1 DEF Restore, Finished, Places
  <2>2. CASE i = j
    BY <1>3, <1>7, <2>2 DEF Restore, Finished, HasBest, Places, Solo
  <2>3. QED
    BY <2>1, <2>2
<1>8. ASSUME NEW j \in JobIds, KeepCurrent(j) PROVE Solo(i)'
  <2>1. CASE i /= j
    BY <1>2, <1>8, <2>1 DEF KeepCurrent, Finished, Places
  <2>2. CASE i = j
    BY <1>3, <1>8, <2>2 DEF KeepCurrent, Finished, HasBest, Places, Solo
  <2>3. QED
    BY <2>1, <2>2
<1>9. ASSUME NEW j \in JobIds, Running(j), UNCHANGED alone,
             \E place \in Ended : pc' = [pc EXCEPT ![j] = place]
      PROVE  Solo(i)'
  <2>1. CASE i /= j
    BY <1>2, <1>9, <2>1 DEF Places
  <2>2. CASE i = j
    BY <1>9, <2>2 DEF Solo
  <2>3. QED
    BY <2>1, <2>2
<1>10. ASSUME NEW j \in JobIds, AbortRestore(j) \/ Exit(j) \/ Throw(j) \/ Kill(j)
       PROVE  Solo(i)'
  BY <1>9, <1>10 DEF AbortRestore, Finished, Exit, Throw, OutcomeOfCutLine, Kill
<1>13. ASSUME NEW j \in JobIds, AppendRecord(j) \/ AppendFails(j) PROVE Solo(i)'
  <2>1. pc[j] = "report" /\ alone' = alone
        /\ \E place \in {"logged", "failing"} : pc' = [pc EXCEPT ![j] = place]
    BY <1>13 DEF AppendRecord, AppendFails
  <2>2. CASE i /= j
    BY <1>2, <2>1, <2>2 DEF Places
  <2>3. CASE i = j
    BY <1>3, <2>1, <2>3 DEF Places, Solo
  <2>4. QED
    BY <2>2, <2>3
<1>11. CASE UNCHANGED vars
  BY <1>11 DEF vars, Solo
<1>12. QED
  BY <1>1, <1>4, <1>5, <1>6, <1>7, <1>8, <1>10, <1>11, <1>13 DEF Next, Step

LEMMA SoloAlways == Spec => [](\A j \in JobIds : Solo(j))
BY InitSolo, NextSolo, InitUntouched, NextUntouched, TypesAlways, PTL DEF Spec

\* A job that meets no other restores its own best weights, whatever is in the
\* file when it starts.
THEOREM AloneRestoresOwnAlways == Spec => []AloneRestoresOwn
<1>1. (\A j \in JobIds : Solo(j)) => AloneRestoresOwn
  BY DEF Solo, AloneRestoresOwn, Running, Ended, Own
<1>2. QED
  BY <1>1, SoloAlways, PTL

\* The jobs of a queue: none is started while another runs.
BeginQueued(j) == Begin(j) /\ \A k \in Others(j) : ~ Running(k)
QueueSpec == Init /\ [][\E j \in JobIds : BeginQueued(j) \/ Step(j)]_vars

\* The jobs of a queue, each started when no other runs, restore their own best
\* weights, killed as some of them may be.
THEOREM ReportsOwnBestQueued == QueueSpec => []ReportsOwnBest
<1> DEFINE Queued == \A j \in JobIds : alone[j]
<1>1. Init => Queued
  BY DEF Init
<1>2. TypeInv /\ Queued /\ [\E j \in JobIds : BeginQueued(j) \/ Step(j)]_vars => Queued'
  BY DEF TypeInv, BeginQueued, Begin, Others, Step, Evaluate, OpenBest, CloseBest, Restore,
         KeepCurrent, AbortRestore, AppendRecord, AppendFails, Exit, Throw, Kill, vars
<1>3. [\E j \in JobIds : BeginQueued(j) \/ Step(j)]_vars => [Next]_vars
  BY DEF BeginQueued, Next
<1>4. Queued /\ AloneRestoresOwn => ReportsOwnBest
  BY DEF AloneRestoresOwn, ReportsOwnBest
<1>5. QED
  BY <1>1, <1>2, <1>3, <1>4, AloneRestoresOwnAlways, TypesAlways, PTL DEF QueueSpec, Spec

LEMMA NextNotAborted ==
    TypeInv /\ (\A j \in JobIds : Solo(j)) /\ AloneNeverAborts /\ [Next]_vars
      => AloneNeverAborts'
<1> SUFFICES ASSUME TypeInv, \A j \in JobIds : Solo(j), AloneNeverAborts, [Next]_vars,
                    NEW i \in JobIds, alone'[i]
             PROVE  pc'[i] /= "unrestored"
  BY DEF AloneNeverAborts
<1>1. ASSUME NEW j \in JobIds, Begin(j) PROVE pc'[i] /= "unrestored"
  BY <1>1 DEF Begin, TypeInv, AloneNeverAborts
<1>2. ASSUME NEW j \in JobIds, AbortRestore(j) PROVE pc'[i] /= "unrestored"
  <2>1. alone[i]
    BY <1>2 DEF AbortRestore
  <2>2. CASE i = j
    <3>1. pc[i] = "train" /\ best[i] < Inf
      BY <1>2, <2>2 DEF AbortRestore, Finished, HasBest
    <3>2. file = Own(i)
      BY <2>1, <3>1 DEF Solo, Running, Ended
    <3>3. Own(i) \in Weights /\ Own(i).by = i
      BY DEF Own, Weights, TypeInv
    <3>4. QED
      BY <1>2, <2>2, <3>2, <3>3, FileKindsDiffer DEF AbortRestore
  <2>3. CASE i /= j
    BY <1>2, <2>1, <2>3 DEF AbortRestore, TypeInv, AloneNeverAborts
  <2>4. QED
    BY <2>2, <2>3
<1>3. ASSUME alone' = alone, NEW j \in JobIds, NEW place, place /= "unrestored",
             pc' = [pc EXCEPT ![j] = place]
      PROVE  pc'[i] /= "unrestored"
  BY <1>3 DEF TypeInv, AloneNeverAborts
<1>4. CASE UNCHANGED <<pc, alone>>
  BY <1>4 DEF AloneNeverAborts
<1>5. ASSUME NEW j \in JobIds, Evaluate(j) PROVE pc'[i] /= "unrestored"
  BY <1>3, <1>4, <1>5 DEF Evaluate
<1>6. QED
  BY <1>1, <1>2, <1>3, <1>4, <1>5 DEF Next, Step, OpenBest, CloseBest, Restore, KeepCurrent,
     AppendRecord, AppendFails, Exit, Throw, OutcomeOfCutLine, Kill, vars

\* Nor can its restore fail, whatever earlier jobs have left in the file.
THEOREM AloneNeverAbortsAlways == Spec => []AloneNeverAborts
<1>1. Init => AloneNeverAborts
  BY DEF Init, AloneNeverAborts
<1>2. QED
  BY <1>1, NextNotAborted, SoloAlways, TypesAlways, PTL DEF Spec

-------------------------------------------------------------------------------
(* The log *)

\* A line is added for the job that writes it, and for no other.
LEMMA LineAdded ==
    ASSUME TypeInv, NEW e \in Entries, log' = Append(log, e), NEW i \in JobIds
    PROVE  WholeLines(i)' = WholeLines(i) \cup
               (IF e.by = i /\ e.whole THEN {Len(log) + 1} ELSE {})
<1>1. log \in Seq(Entries) /\ Len(log) \in Nat /\ DOMAIN log = 1 .. Len(log)
  BY DEF TypeInv
<1>2. DOMAIN log' = 1 .. Len(log) + 1
  BY <1>1
<1>3. log'[Len(log) + 1] = e /\ \A k \in 1 .. Len(log) : log'[k] = log[k]
  BY <1>1
<1>4. \A k : k \in 1 .. Len(log) + 1 <=> k \in 1 .. Len(log) \/ k = Len(log) + 1
  BY <1>1
<1>5. QED
  BY <1>1, <1>2, <1>3, <1>4 DEF WholeLines

\* What LoggedIfDone asks of one job.
Logged(j) ==
    /\ pc[j] = "done" => WholeLines(j) /= {}
    /\ pc[j] \notin {"logged", "done", "killed"} => WholeLines(j) = {}
    /\ \A k, l \in WholeLines(j) : k = l

\* A job past its line is on the way to its end.
LoggedInv == \A j \in JobIds : Logged(j) /\ (pc[j] = "logged" => WholeLines(j) /= {})

LEMMA NextLogged == TypeInv /\ LoggedInv /\ [Next]_vars => LoggedInv'
<1> SUFFICES ASSUME TypeInv, LoggedInv, [Next]_vars, NEW i \in JobIds
             PROVE  Logged(i)' /\ (pc'[i] = "logged" => WholeLines(i)' /= {})
  BY DEF LoggedInv
<1> USE DEF TypeInv, Logged
<1>0. Logged(i) /\ (pc[i] = "logged" => WholeLines(i) /= {})
  BY DEF LoggedInv
<1>1. ASSUME log' = log
      PROVE  WholeLines(i)' = WholeLines(i)
  BY <1>1 DEF WholeLines
<1>2. ASSUME NEW j \in JobIds, AppendRecord(j)
      PROVE  Logged(i)' /\ (pc'[i] = "logged" => WholeLines(i)' /= {})
  <2>1. Entry(j, TRUE) \in Entries /\ Entry(j, TRUE).by = j /\ Entry(j, TRUE).whole
    BY DEF Entry, Entries, Weights
  <2>2. WholeLines(i)' = WholeLines(i) \cup (IF i = j THEN {Len(log) + 1} ELSE {})
    BY <1>2, <2>1, LineAdded DEF AppendRecord
  <2>3. pc[j] = "report" /\ pc' = [pc EXCEPT ![j] = "logged"]
    BY <1>2 DEF AppendRecord
  <2>4. CASE i = j
    BY <1>0, <2>2, <2>3, <2>4
  <2>5. CASE i /= j
    <3>1. WholeLines(i)' = WholeLines(i) /\ pc'[i] = pc[i]
      BY <2>2, <2>3, <2>5
    <3>2. QED
      BY <1>0, <3>1
  <2>6. QED
    BY <2>4, <2>5
<1>3. ASSUME NEW j \in JobIds, AppendFails(j)
      PROVE  WholeLines(i)' = WholeLines(i)
  <2>1. Entry(j, FALSE) \in Entries /\ ~ Entry(j, FALSE).whole
    BY DEF Entry, Entries, Weights
  <2>2. CASE log' = log
    BY <1>1, <2>2
  <2>3. CASE log' = Append(log, Entry(j, FALSE))
    BY <2>1, <2>3, LineAdded
  <2>4. QED
    BY <1>3, <2>2, <2>3 DEF AppendFails
<1>4. ASSUME WholeLines(i)' = WholeLines(i),
             \/ pc'[i] = pc[i]
             \/ pc'[i] \notin {"logged", "done"} /\ pc[i] \notin {"logged", "done", "killed"}
             \/ pc'[i] = "killed"
             \/ pc[i] = "logged" /\ pc'[i] = "done"
      PROVE  Logged(i)' /\ (pc'[i] = "logged" => WholeLines(i)' /= {})
  BY <1>0, <1>4
<1>5. ASSUME NEW j \in JobIds,
             \/ Begin(j) \/ Evaluate(j) \/ OpenBest(j) \/ CloseBest(j)
             \/ Restore(j) \/ KeepCurrent(j) \/ AbortRestore(j) \/ AppendFails(j) \/ Throw(j)
      PROVE  \/ pc'[i] = pc[i]
             \/ pc'[i] \notin {"logged", "done"} /\ pc[i] \notin {"logged", "done", "killed"}
  BY <1>5 DEF Begin, Evaluate, OpenBest, CloseBest, Restore, KeepCurrent, AbortRestore,
     AppendFails, Throw, OutcomeOfCutLine, Finished
<1>6. ASSUME NEW j \in JobIds, Exit(j) \/ Kill(j)
      PROVE  \/ pc'[i] = pc[i] \/ pc'[i] = "killed"
             \/ pc[i] = "logged" /\ pc'[i] = "done"
  BY <1>6 DEF Exit, Kill
<1>7. ASSUME NEW j \in JobIds,
             \/ Begin(j) \/ Evaluate(j) \/ OpenBest(j) \/ CloseBest(j) \/ Restore(j)
             \/ KeepCurrent(j) \/ AbortRestore(j) \/ Throw(j) \/ Exit(j) \/ Kill(j)
      PROVE  log' = log
  BY <1>7 DEF Begin, Evaluate, OpenBest, CloseBest, Restore, KeepCurrent, AbortRestore,
     Throw, Exit, Kill
<1>8. CASE UNCHANGED vars
  BY <1>1, <1>4, <1>8 DEF vars
<1>9. ASSUME NEW j \in JobIds, Step(j) \/ Begin(j)
      PROVE  Logged(i)' /\ (pc'[i] = "logged" => WholeLines(i)' /= {})
  BY <1>1, <1>2, <1>3, <1>4, <1>5, <1>6, <1>7, <1>9 DEF Step
<1>10. QED
  BY <1>8, <1>9 DEF Next

LEMMA LoggedAlways == Spec => []LoggedInv
<1>1. Init => LoggedInv
  <2> SUFFICES ASSUME Init, NEW j \in JobIds
               PROVE  pc[j] = "idle" /\ WholeLines(j) = {}
    BY DEF LoggedInv, Logged
  <2>1. log = << >> /\ DOMAIN << >> = {}
    BY DEF Init
  <2>2. QED
    BY <2>1 DEF Init, WholeLines
<1>2. QED
  BY <1>1, NextLogged, TypesAlways, PTL DEF Spec

\* Exit code 0 means one whole line in the log, and a job that ended with an
\* error has none; one that was killed may have been at its end.
THEOREM LoggedIfDoneAlways == Spec => []LoggedIfDone
<1>1. LoggedInv => LoggedIfDone
  BY DEF LoggedInv, Logged, LoggedIfDone
<1>2. QED
  BY <1>1, LoggedAlways, PTL

LEMMA InitCuts == Init => CutsAreErrors
<1>1. Init => DOMAIN log = {}
  BY DEF Init
<1>2. QED
  BY <1>1 DEF CutsAreErrors, CutLines

\* A line is cut only as its writer fails, and no whole line of it follows.
LEMMA NextCuts == TypeInv /\ LoggedInv /\ CutsAreErrors /\ [Next]_vars => CutsAreErrors'
<1> SUFFICES ASSUME TypeInv, LoggedInv, CutsAreErrors, [Next]_vars, NEW i \in JobIds
             PROVE  \A k, l \in CutLines(i)' : k = l /\ Announced(i)'
  BY DEF CutsAreErrors
<1>0. \A k, l \in CutLines(i) : k = l /\ Announced(i)
  BY DEF CutsAreErrors
<1>1. ASSUME log' = log, Announced(i) => Announced(i)'
      PROVE  \A k, l \in CutLines(i)' : k = l /\ Announced(i)'
  <2>1. CutLines(i)' = CutLines(i)
    BY <1>1 DEF CutLines
  <2>2. QED
    BY <1>0, <1>1, <2>1
<1>2. ASSUME NEW e \in Entries, log' = Append(log, e)
      PROVE  CutLines(i)' = CutLines(i) \cup
                 (IF e.by = i /\ ~ e.whole THEN {Len(log) + 1} ELSE {})
  <2>1. DOMAIN log' = 1 .. Len(log) + 1 /\ DOMAIN log = 1 .. Len(log) /\ Len(log) \in Nat
    BY <1>2 DEF TypeInv
  <2>2. log'[Len(log) + 1] = e /\ \A k \in 1 .. Len(log) : log'[k] = log[k]
    BY <1>2 DEF TypeInv
  <2>3. \A k : k \in 1 .. Len(log) + 1 <=> k \in 1 .. Len(log) \/ k = Len(log) + 1
    BY <2>1
  <2>4. QED
    BY <2>1, <2>2, <2>3 DEF CutLines
<1>3. \A j \in JobIds : \A whole \in BOOLEAN :
        Entry(j, whole) \in Entries /\ Entry(j, whole).by = j /\ Entry(j, whole).whole = whole
  BY DEF Entry, Entries, TypeInv, Weights
<1>4. ASSUME NEW j \in JobIds, AppendRecord(j)
      PROVE  \A k, l \in CutLines(i)' : k = l /\ Announced(i)'
  <2>1. CutLines(i)' = CutLines(i)
    BY <1>2, <1>3, <1>4 DEF AppendRecord
  <2>2. CASE i = j
    <3>1. ~ Announced(i)
      BY <1>4, <2>2 DEF AppendRecord, Announced
    <3>2. QED
      BY <1>0, <2>1, <3>1
  <2>3. CASE i /= j
    <3>1. WholeLines(i)' = WholeLines(i)
      <4>1. Entry(j, TRUE) \in Entries /\ Entry(j, TRUE).by /= i
        BY <1>3, <2>3
      <4>2. log' = Append(log, Entry(j, TRUE))
        BY <1>4 DEF AppendRecord
      <4>3. QED
        BY <4>1, <4>2, LineAdded
    <3>2. pc'[i] = pc[i]
      BY <1>4, <2>3 DEF AppendRecord, TypeInv
    <3>3. QED
      BY <1>0, <2>1, <3>1, <3>2 DEF Announced
  <2>4. QED
    BY <2>2, <2>3
<1>5. ASSUME NEW j \in JobIds, AppendFails(j)
      PROVE  \A k, l \in CutLines(i)' : k = l /\ Announced(i)'
  <2>1. pc[j] = "report" /\ pc' = [pc EXCEPT ![j] = "failing"]
    BY <1>5 DEF AppendFails
  <2>2. WholeLines(i)' = WholeLines(i)
    <3>1. CASE log' = log
      BY <3>1 DEF WholeLines
    <3>2. CASE log' = Append(log, Entry(j, FALSE))
      <4>1. Entry(j, FALSE) \in Entries /\ ~ Entry(j, FALSE).whole
        BY <1>3
      <4>2. QED
        BY <3>2, <4>1, LineAdded
    <3>3. QED
      BY <1>5, <3>1, <3>2 DEF AppendFails
  <2>3. Announced(i) => Announced(i)'
    BY <2>1, <2>2 DEF Announced, TypeInv
  <2>4. CASE log' = log
    BY <1>1, <2>3, <2>4
  <2>5. CASE log' = Append(log, Entry(j, FALSE))
    <3>1. CutLines(i)' = CutLines(i) \cup (IF i = j THEN {Len(log) + 1} ELSE {})
      BY <1>2, <1>3, <2>5
    <3>2. CASE i = j
      <4>1. CutLines(i) = {}
        BY <1>0, <2>1, <3>2 DEF Announced
      <4>2. pc'[i] = "failing" /\ WholeLines(i) = {}
        BY <2>1, <3>2 DEF TypeInv, LoggedInv, Logged
      <4>3. Announced(i)'
        BY <2>2, <4>2 DEF Announced
      <4>4. QED
        BY <3>1, <3>2, <4>1, <4>3
    <3>3. CASE i /= j
      BY <1>0, <2>3, <3>1, <3>3
    <3>4. QED
      BY <3>2, <3>3
  <2>6. QED
    BY <1>5, <2>4, <2>5 DEF AppendFails
<1>6. ASSUME NEW j \in JobIds,
             \/ Begin(j) \/ Evaluate(j) \/ OpenBest(j) \/ CloseBest(j) \/ Restore(j)
             \/ KeepCurrent(j) \/ AbortRestore(j) \/ Exit(j) \/ Throw(j) \/ Kill(j)
      PROVE  log' = log /\ (Announced(i) => Announced(i)')
  <2>1. log' = log
    BY <1>6 DEF Begin, Evaluate, OpenBest, CloseBest, Restore, KeepCurrent, AbortRestore,
       Exit, Throw, Kill
  <2>2. WholeLines(i)' = WholeLines(i)
    BY <2>1 DEF WholeLines
  <2>3. pc[i] \in {"failing", "unlogged", "killed"} => pc'[i] \in {"failing", "unlogged", "killed"}
    BY <1>6 DEF Begin, Evaluate, OpenBest, CloseBest, Restore, KeepCurrent, AbortRestore,
       Exit, Throw, OutcomeOfCutLine, Kill, Finished, Running, Ended, TypeInv
  <2>4. QED
    BY <2>1, <2>2, <2>3 DEF Announced
<1>7. CASE UNCHANGED vars
  BY <1>1, <1>7 DEF vars, Announced, WholeLines
<1>8. QED
  BY <1>1, <1>4, <1>5, <1>6, <1>7 DEF Next, Step

\* Whoever cut the line before a record that it spoiled is announced, and has
\* spoiled no other.
LEMMA CutsCostOneEach ==
    ASSUME TypeInv, LoggedInv, CutsAreErrors
    PROVE  LossesAreAnnounced
<1> DEFINE Lost == {j \in JobIds : pc[j] = "done" /\ ~ Legible(j)}
           Told == {j \in JobIds : Announced(j)}
           line == [j \in Lost |-> CHOOSE k : k \in WholeLines(j)]
           cutter == [j \in Lost |-> log[line[j] - 1].by]
<1>1. DOMAIN log = 1 .. Len(log) /\ Len(log) \in Nat
      /\ \A k \in DOMAIN log : log[k] \in Entries
  BY DEF TypeInv
<1>2. ASSUME NEW j \in Lost
      PROVE  /\ line[j] \in DOMAIN log /\ line[j] - 1 \in DOMAIN log
             /\ log[line[j]].by = j /\ line[j] - 1 \in CutLines(cutter[j])
             /\ cutter[j] \in JobIds
  <2>1. line[j] \in WholeLines(j)
    BY DEF LoggedInv, Logged
  <2>2. line[j] \in DOMAIN log /\ line[j] \in WholeLines(j)
    BY <2>1 DEF WholeLines
  <2>3. line[j] /= 1 /\ ~ log[line[j] - 1].whole
    BY <2>2 DEF Legible
  <2>4. line[j] - 1 \in DOMAIN log
    BY <1>1, <2>2, <2>3
  <2>5. log[line[j]].by = j
    BY <2>2 DEF WholeLines
  <2>6. cutter[j] = log[line[j] - 1].by /\ cutter[j] \in JobIds
    BY <1>1, <2>4 DEF Entries
  <2>7. QED
    BY <2>2, <2>3, <2>4, <2>5, <2>6 DEF CutLines
<1>3. cutter \in [Lost -> Told]
  BY <1>2 DEF CutsAreErrors
<1>4. ASSUME NEW i \in Lost, NEW j \in Lost, cutter[i] = cutter[j] PROVE i = j
  <2>1. line[i] - 1 = line[j] - 1
    <3>1. line[i] - 1 \in CutLines(cutter[i]) /\ line[j] - 1 \in CutLines(cutter[i])
          /\ cutter[i] \in JobIds
      BY <1>2, <1>4
    <3>2. QED
      BY <3>1 DEF CutsAreErrors
  <2>2. line[i] \in Int /\ line[j] \in Int
    <3>1. line[i] \in 1 .. Len(log) /\ line[j] \in 1 .. Len(log)
      BY <1>1, <1>2
    <3>2. QED
      BY <3>1
  <2>3. line[i] = line[j]
    BY <2>1, <2>2
  <2>4. QED
    BY <1>2, <2>3
<1>5. cutter \in Injection(Lost, Told)
  BY <1>3, <1>4 DEF Injection, IsInjective
<1>6. IsFiniteSet(Told)
  BY JobsAreFinite, FS_Subset
<1>7. Cardinality(Lost) <= Cardinality(Told)
  BY <1>5, <1>6, FS_Injection
<1>8. QED
  BY <1>7 DEF LossesAreAnnounced

\* A cut line spoils at most one record of a job that ended well, and for each
\* there is a job that failed or was killed with no line of its own.
THEOREM LossesAreAnnouncedAlways == Spec => []LossesAreAnnounced
BY CutsCostOneEach, InitCuts, NextCuts, LoggedAlways, TypesAlways, PTL DEF Spec
===============================================================================
