-------------------------------- MODULE Corpus --------------------------------
(***************************************************************************)
(* The life of a Corpus object: what its constructor and its destructor    *)
(* acquire and release.  Every call can fail, whatever the file is: a file *)
(* is missing or not readable, a directory opens but cannot be mapped.     *)
(***************************************************************************)
EXTENDS Integers

VARIABLES
    object,   \* "none", "opened", "sized", "ready", "thrown" or "gone"
    fd,       \* the descriptor is open
    mapped,   \* the bytes are mapped
    size      \* len_

corpusVars == <<object, fd, mapped, size>>

NoCorpus == object = "none" /\ fd = FALSE /\ mapped = FALSE /\ size = 0

\* A constructor that throws runs no destructor: it has to close by itself.
Leaks == UNCHANGED fd       \* mutant
Closes == fd' = FALSE

Throw == object' = "thrown" /\ Closes /\ UNCHANGED <<mapped, size>>

Open == /\ object = "none"
        /\ \/ object' = "opened" /\ fd' = TRUE /\ UNCHANGED <<mapped, size>>
           \/ Throw

\* An empty file is not mapped: its data is null.
Stat(bytes) ==
    /\ object = "opened"
    /\ \/ /\ size' = bytes /\ object' = IF bytes = 0 THEN "ready" ELSE "sized"
          /\ UNCHANGED <<fd, mapped>>
       \/ Throw

Map == /\ object = "sized"
       /\ \/ object' = "ready" /\ mapped' = TRUE /\ UNCHANGED <<fd, size>>
          \/ Throw

Construct(bytes) == Open \/ Stat(bytes) \/ Map

Destroyed == object' = "gone" /\ fd' = FALSE /\ mapped' = FALSE /\ UNCHANGED size

-------------------------------------------------------------------------------

\* Once the constructor has thrown, or the object is gone, it holds nothing: no
\* descriptor and no mapping is left, whichever of its calls failed.
NothingHeld == object \in {"thrown", "gone"} => ~ fd /\ ~ mapped
===============================================================================
