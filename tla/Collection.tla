----------------------------- MODULE Collection -----------------------------
(***************************************************************************)
(* What Step 6 promises: every selected tool gets one answer, answers are   *)
(* added in the order of the selection whatever finishes first, a tool that *)
(* derives from the answers of others comes after them, and an answer once  *)
(* added stays as it is.                                                   *)
(***************************************************************************)
CONSTANTS
  Tools,        \* what was selected
  Ahead,        \* <<s, t>>: the answer of s is added ahead of that of t
  Answers,      \* what an answer may be
  None          \* no answer yet: none of Answers

VARIABLES
  added,        \* the answer of each tool, None before it is added
  closed        \* "yes" once the next step of the pipeline has the answers

vars == <<added, closed>>

Init == added = [t \in Tools |-> None] /\ closed = "no"

Missing == {t \in Tools : added[t] = None}

(* One or more answers are added; whatever goes ahead of them is there. *)
Add(T) ==
  /\ closed = "no"
  /\ \A t \in T, s \in Missing : <<s, t>> \in Ahead => s \in T
  /\ added' \in [Tools -> Answers \cup {None}]
  /\ \A t \in Tools : IF t \in T THEN added'[t] # None ELSE added'[t] = added[t]
  /\ UNCHANGED closed

Close == Missing = {} /\ closed = "no" /\ closed' = "yes" /\ UNCHANGED added

Next == Close \/ \E T \in SUBSET Missing : T # {} /\ Add(T)

Spec == Init /\ [][Next]_vars

=============================================================================
