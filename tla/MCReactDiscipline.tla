------------------------- MODULE MCReactDiscipline -------------------------
(* Three threads race for a full-image tool launched at most twice and an  *)
(* unbudgeted PID-scoped tool, for two PIDs; a runner returns or raises.   *)
EXTENDS ReactDiscipline, TLC

CONSTANTS f1, f2, f3, ldrmodules, handles, p1, p2

MCThreads == {f1, f2, f3}
MCTools == {ldrmodules, handles}
MCFullImage == {ldrmodules}
MCBudgeted == {ldrmodules}
MCBudget == ldrmodules :> 2
MCPids == {p1, p2}
MCSymmetry == Permutations(MCThreads) \cup Permutations(MCPids)
MCResults == {"records", "raised"}
=============================================================================
