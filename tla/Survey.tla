------------------------------- MODULE Survey -------------------------------
(***************************************************************************)
(* What an ensemble promises: every member is heard once, with the subjects *)
(* it reports or with none, and the report names each subject with all the  *)
(* members that reported it, in whatever order they were heard.             *)
(***************************************************************************)
CONSTANTS Members, Subjects

VARIABLES
  heard,      \* members heard -> what they reported
  written,    \* "yes" once the report is out
  report      \* subject -> members that reported it

vars == <<heard, written, report>>

Nothing == [x \in {} |-> {}]

Init == heard = Nothing /\ written = "no" /\ report = Nothing

Hear(m) ==
  /\ m \notin DOMAIN heard
  /\ heard' \in [DOMAIN heard \cup {m} -> SUBSET Subjects]
  /\ \A n \in DOMAIN heard : heard'[n] = heard[n]
  /\ UNCHANGED <<written, report>>

Write ==
  /\ written = "no" /\ DOMAIN heard = Members
  /\ written' = "yes"
  /\ report' = [s \in UNION {heard[m] : m \in Members} |-> {m \in Members : s \in heard[m]}]
  /\ UNCHANGED heard

Next == Write \/ \E m \in Members : Hear(m)

Spec == Init /\ [][Next]_vars

=============================================================================
