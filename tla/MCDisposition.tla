--------------------------- MODULE MCDisposition ---------------------------
EXTENDS Disposition, TLC

CONSTANTS f1, f2, u, p, q

MCIdOf == (f1 :> 1) @@ (f2 :> 2)
MCEntitiesOf == (f1 :> {p}) @@ (f2 :> {p, q}) @@ (u :> {q})
MCAddressesOf == (f1 :> {"x"}) @@ (f2 :> {"x", "y"}) @@ (u :> {"y"})
MCArtefactOf == (f1 :> "a") @@ (f2 :> "a") @@ (u :> "b")
MCTitlesAlike == {{f1, f2}, {f2, u}}
MCSignatureOf == (f1 :> "s") @@ (f2 :> "s") @@ (u :> Nothing)
MCCites == u :> {f1, f2}

(* A finding every gate is happy with, and what may be different.          *)
Proven ==
    [verdict |-> "none", semantic |-> "strong",
     corroborated |-> FALSE, support |-> "several",
     severity |-> "medium", proven |-> TRUE, overrated |-> FALSE,
     synthesis |-> FALSE, context |-> FALSE, noise |-> FALSE,
     routeOut |-> FALSE, barred |-> FALSE, grounded |-> FALSE,
     egress |-> FALSE, frail |-> FALSE, protected |-> FALSE]

MCKinds ==
    {Proven,
     [Proven EXCEPT !.verdict = "malicious", !.frail = TRUE],
     [Proven EXCEPT !.verdict = "benign", !.protected = TRUE],
     [Proven EXCEPT !.verdict = "inconclusive"],
     [Proven EXCEPT !.synthesis = TRUE],
     [Proven EXCEPT !.semantic = "weak", !.corroborated = TRUE],
     [Proven EXCEPT !.semantic = "weak", !.support = "one", !.severity = "low"],
     [Proven EXCEPT !.semantic = "weak", !.overrated = TRUE, !.severity = "high"]}
=============================================================================
