------------------------------ MODULE Refusals ------------------------------
(* Checks that throw, one after the other: pairs of a condition and a reason. *)
EXTENDS Integers, FiniteSetsExt

FirstRefusal(checks) ==
    LET met == {i \in DOMAIN checks : checks[i][1]}
    IN  IF met = {} THEN "none" ELSE checks[Min(met)][2]
=============================================================================
