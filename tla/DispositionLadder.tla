------------------------- MODULE DispositionLadder -------------------------
(***************************************************************************)
(* What Step 13 promises of a finding, whatever the order of its passes:   *)
(* it enters one of five buckets, it is confirmed only if its evidence is  *)
(* eligible, a confirmed finding is never declared inconclusive, synthesis *)
(* narratives are made when the findings are routed and at no other time,  *)
(* and a row may only disappear into another row that stays.  An analyst   *)
(* may overrule all of it but the last.                                    *)
(***************************************************************************)
CONSTANT Findings

VARIABLES place,     \* "outside", a bucket, or "merged", per finding
          eligible,  \* the findings whose evidence allows to confirm them
          overruled  \* the findings an analyst moved

Buckets == {"confirmed", "review", "benign", "inconclusive", "synthesis"}
Table == {"confirmed", "review"}

vars == <<place, eligible, overruled>>

Init == /\ place = [f \in Findings |-> "outside"]
        /\ eligible \in SUBSET Findings
        /\ overruled = {}

Enter(f) == /\ place[f] = "outside"
            /\ place'[f] \in Buckets
            /\ place'[f] = "confirmed" => f \in eligible

(* Between buckets: promotion needs the evidence.                          *)
Move(f) == /\ place[f] \in Buckets
           /\ place'[f] \in Buckets \ {"synthesis"}
           /\ place'[f] = "confirmed" => f \in eligible
           /\ place[f] = "confirmed" => place'[f] # "inconclusive"

(* The row of the findings table that f is merged into stays in that table;*)
(* what is merged from the others stays visible somewhere.                 *)
Merge(f) == /\ place[f] \in Buckets
            /\ place'[f] = "merged"
            /\ \E g \in Findings \ {f} :
                  /\ place'[g] \in Buckets
                  /\ place[f] \in Table => place'[g] \in Table

Advance == /\ \A f \in Findings :
                 place'[f] = place[f] \/ Enter(f) \/ Move(f) \/ Merge(f)
           /\ UNCHANGED overruled

(* The analyst's override moves one row to any bucket.                     *)
Overrule(f) == /\ place[f] \in Buckets
               /\ \E b \in Buckets : place' = [place EXCEPT ![f] = b]
               /\ overruled' = overruled \cup {f}

Next == /\ Advance \/ \E f \in Findings : Overrule(f)
        /\ UNCHANGED eligible

Spec == Init /\ [][Next]_vars
=============================================================================
