------------------------------- MODULE MCRunner -------------------------------
(***************************************************************************)
(* Small instances of the runner.                                          *)
(***************************************************************************)
EXTENDS RunnerProps

CONSTANTS i1, i2, off, small, large

OneInit == {i1}
TwoInits == {i1, i2}

ResumeTo(steps) == [steps |-> steps, resume |-> TRUE, fp |-> small]

\* One run, always restarted with --resume.
OneRun == {ResumeTo(MaxStep)}
\* The same with targets that shrink and grow, and with another structure.
Resuming == {ResumeTo(2), ResumeTo(3), [ResumeTo(3) EXCEPT !.fp = large]}
\* With and without --resume and of two structures, in one directory.
MixedStructures == [steps : {MaxStep}, resume : BOOLEAN, fp : {small, large}]
\* Always from the start.
FromTheStart == [steps : {MaxStep}, resume : {FALSE}, fp : {small}]

\* The two have different parameters: one load throws on what is missing, the
\* other in Adam, on what is left over.
BothWays == {<<small, large>>, <<large, small>>}
\* They have the same parameters (--no-gate), and only the fingerprint differs.
NoneIncompatible == {}
MtOnly == {"mt"}
MetaOnly == {"meta"}
NoShort == {}

(***************************************************************************)
(* Every landscape in which the losses of the evaluated steps differ       *)
(* freely (no command ends at step 1).  The point k of the line Off has    *)
(* loss k (Inf beyond).                                                    *)
(***************************************************************************)
Later == {n \in 1 .. MaxStep : n % EvalEvery = 0 \/ n > 1}
Landscape(curve) ==
    [p \in Points |-> CASE p[1] = Off        -> IF p[2] <= Inf THEN p[2] ELSE Inf
                        [] p[2] \notin Later -> Inf
                        [] OTHER            -> curve[p[1]][p[2]]]
AllCurves == {Landscape(c) : c \in [Inits -> [Later -> Losses]]}
\* The same curve for every draw.
SharedCurve == {Landscape([i \in Inits |-> c]) : c \in [Later -> Losses]}

\* The loss falls at every evaluated step, so that each saves a best set.
FallingCurve == {s \in SharedCurve : \A i \in Inits : \A m, n \in Later :
                                         m < n => s[<<i, m>>] > s[<<i, n>>]}

\* A run gone astray finds the lowest loss or none.
LowOrNone == {0, Inf}
Low == {0}
===============================================================================
