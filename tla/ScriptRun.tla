------------------------------ MODULE ScriptRun ------------------------------
(***************************************************************************)
(* What InitJob.RunUpdateScript promises to the update flow, without Jobs,  *)
(* ConfigMaps, conditions or failures: in every step the script runs to its *)
(* end, only then is the step confirmed, and only then does the next step   *)
(* begin, with its script not yet run.                                      *)
(***************************************************************************)
EXTENDS Naturals

VARIABLES step, executed, confirmed

vars == <<step, executed, confirmed>>

Init == step = 1 /\ executed = FALSE /\ confirmed = FALSE

Execute ==
  /\ ~executed
  /\ executed' = TRUE
  /\ UNCHANGED <<step, confirmed>>

Confirm ==
  /\ executed /\ ~confirmed
  /\ confirmed' = TRUE
  /\ UNCHANGED <<step, executed>>

Advance ==
  /\ confirmed
  /\ step' = step + 1
  /\ executed' = FALSE /\ confirmed' = FALSE

Next == Execute \/ Confirm \/ Advance

Spec == Init /\ [][Next]_vars
=============================================================================
