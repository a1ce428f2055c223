-------------------------- MODULE MCWorkStealingDeque --------------------------
(* WorkStealingDeque with two slots and two thieves. *)
EXTENDS WorkStealingDeque

CONSTANTS i1, i2    \* thieves

==============================================================================
