-------------------------------- MODULE MCJobs --------------------------------
(***************************************************************************)
(* Three jobs, of which one trains another architecture.                   *)
(***************************************************************************)
EXTENDS Jobs

CONSTANTS j1, j2, j3, deltanet, gru

Three == {j1, j2, j3}
Two == {j1, j2}
MixedArchs == [j \in JobIds |-> IF j = j3 THEN gru ELSE deltanet]
===============================================================================
