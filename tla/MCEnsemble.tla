----------------------------- MODULE MCEnsemble -----------------------------
(* Three members, the first two of one model.  Findings: about p at an        *)
(* address, about p and q independently at that address, about p and q as a   *)
(* relationship, about a titled and an untitled nothing, and a malformed one. *)
EXTENDS Ensemble

CONSTANTS p, q, addr, haiku, opus

MCModelOf == <<haiku, haiku, opus>>

C(pid, mark) == [pid |-> pid, mark |-> mark]

F(claims, rel, fall, ok) ==
  [claims |-> claims, related |-> rel, fallback |-> fall, listed |-> ok]

MCReplies ==
  {{F({C(p, None), C(None, addr)}, FALSE, None, TRUE), F({}, FALSE, None, TRUE)},
   {F({C(p, None), C(q, None), C(None, addr)}, FALSE, None, TRUE), F({}, FALSE, addr, TRUE)},
   {F({C(p, None), C(q, None)}, TRUE, None, TRUE), F({}, FALSE, None, TRUE)},
   {F({}, FALSE, None, FALSE)}}
=============================================================================
