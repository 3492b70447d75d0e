------------------------- MODULE MCSelfCorrection -------------------------
(* Instances of SelfCorrection for TLC.                                    *)
EXTENDS SelfCorrection, TLC

CONSTANTS f1, f2, i1, i2, t1, t2

OwnIds == [f \in Findings |-> IF f = f1 THEN i1 ELSE i2]

\* The token of the first finding also occurs in the text of the second.
SharedText == [f \in Findings |-> IF f = f1 THEN {t1} ELSE {t1, t2}]
=============================================================================
