------------------------------ MODULE MCStep11 ------------------------------
(* Constants for the Step 11 instances; each configuration picks its own   *)
(* findings, tools and numbers of turns and workers.                       *)
EXTENDS Step11, TLC

CONSTANTS f1, f2, f3, vadinfo, ldrmodules, hollow, evtx, p1, p2

Two == {f1, f2}
Three == {f1, f2, f3}
TwoPids == {p1, p2}
PidOfTwo == (f1 :> p1) @@ (f2 :> p2)
PidsOfThree == [f \in Three |-> p1]
OneWithoutPid == PidOfTwo @@ (f3 :> NoPid)
WithAll == {p1, AllPids}
OnlyP1 == {p1}

OnlyVadinfo == {vadinfo}
OnlyLdr == {ldrmodules}
OnlyEvtx == {evtx}
None == {}
OneVerdict == {"malicious"}
VadBudget == vadinfo :> 1
LdrBudget == ldrmodules :> 2
NoRedirect == [t \in Tools |-> t]
VadToLdr == [t \in Tools |-> IF t = vadinfo THEN ldrmodules ELSE t]
FullImageTools == {vadinfo, ldrmodules, hollow}
OnlyHollow == {hollow}
\* A full-image tool that nothing covers, with the budget of ldrmodules.
HollowBudget == hollow :> 2
=============================================================================
