-------------------------- MODULE FindingsLedger --------------------------
(***************************************************************************)
(* What Steps 10 to 12 promise of the two lists of the pipeline: every     *)
(* finding is on exactly one of them, and the only thing that happens      *)
(* after validation is that findings leave the blocked list for the passed *)
(* list.                                                                   *)
(***************************************************************************)
CONSTANT Findings

VARIABLES passed, blocked

vars == <<passed, blocked>>

Init == /\ passed \in SUBSET Findings
        /\ blocked = Findings \ passed

(* Some findings are promoted, never the other way round.                  *)
Promote(S) == /\ passed' = passed \cup S
              /\ blocked' = blocked \ S

Next == \E S \in SUBSET blocked : Promote(S)

Spec == Init /\ [][Next]_vars
=============================================================================
