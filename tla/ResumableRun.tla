----------------------------- MODULE ResumableRun -----------------------------
(***************************************************************************)
(* What --resume promises, with no files in it: a run of Steps training    *)
(* steps that may be stopped anywhere, and goes on from the position that  *)
(* it last saved.  A save is not atomic over all it saves, so a run that   *)
(* is stopped in the middle of one may be Lost: it goes on, but where no   *)
(* uninterrupted run would be.  Nothing else gets it off its way.          *)
(***************************************************************************)
EXTENDS Integers

CONSTANTS
    Draws,   \* the possible draws of the initial weights
    Steps,   \* the most steps a run is asked for
    None,    \* no process is running; nothing is saved
    Lost     \* off the way

VARIABLES
    at,      \* the position <<draw, steps done>> of the running process
    safe,    \* the position last saved
    dirty    \* a save is under way, was cut short or was damaged

vars == <<at, safe, dirty>>

Init == at = None /\ safe = None /\ dirty = FALSE

Begin == at = None /\ safe = None /\ at' \in Draws \X {0} /\ UNCHANGED <<safe, dirty>>

GoOn == /\ at = None /\ safe /= None
        /\ at' = safe \/ (dirty /\ at' = Lost)
        /\ UNCHANGED <<safe, dirty>>

Step == /\ at \in Draws \X (0 .. Steps - 1)
        /\ at' = <<at[1], at[2] + 1>>
        /\ UNCHANGED <<safe, dirty>>

BeginSave == at /= None /\ dirty' = TRUE /\ UNCHANGED <<at, safe>>

\* What a full disk cuts may be all there is to go on from.
EndSave == /\ at /= None /\ dirty' \in BOOLEAN
           /\ safe' = at \/ (safe' = Lost /\ dirty')
           /\ UNCHANGED at

Stop == at /= None /\ at' = None /\ UNCHANGED <<safe, dirty>>

Next == Begin \/ GoOn \/ Step \/ BeginSave \/ EndSave \/ Stop
Spec == Init /\ [][Next]_vars
===============================================================================
