----------------------------- MODULE MCToolRun ------------------------------
(* Four raw tools, one of each kind of call, and a derived one; Step 11 may  *)
(* run one of them again.                                                    *)
EXTENDS ToolRun

CONSTANTS evtx, rdp, pstree, psscan, iocs

MCRawOrder == <<evtx, rdp, pstree, psscan>>
MCDerivedOrder == <<iocs>>
=============================================================================
