---------------------------- MODULE Disposition ----------------------------
(***************************************************************************)
(* Step 13 of the pipeline: the synthesised findings are numbered, every   *)
(* finding is routed to a disposition bucket, and some twenty passes then  *)
(* demote, reconcile, promote, merge and check the rows until the report   *)
(* is written.  The passes run one after the other; each is one action,    *)
(* and pc names the pass that is next.                                     *)
(*                                                                         *)
(* A kind is what the passes read off a finding: its own ReAct verdict,    *)
(* the strength of its malicious semantics, its claims and so on.  The     *)
(* passes find rows by finding_id; the reported ids are distinct, because  *)
(* the gate before the report aborts a run with two rows of one id.        *)
(***************************************************************************)
EXTENDS Naturals, FiniteSets

CONSTANTS Reported,     \* the findings of Step 9, passed or blocked
          Synthesised,  \* those of Track B and of the collection synthesizer
          Blockable,    \* the reported findings Step 10 may block
          IdOf,         \* number in the finding_id of a reported finding
          Kinds,        \* the kinds findings may have
          Entities, EntitiesOf,     \* the processes a finding is about
          Addresses, AddressesOf,   \* the addresses its text names
          ArtefactOf, SignatureOf,  \* hash or path, and shape of the title
          TitlesAlike,  \* pairs with two significant words in common
          Cites,        \* findings a synthesised one names in its signals
          Wordy,        \* entities whose excerpts may mention malice
          Nothing,      \* no artefact, no signature
          MayBeSkipped, \* passes switched off, or whose exception is caught
          ReviewAll,    \* SIFT_INV3A_REVIEW_ALL
          Overridable   \* the rows an analyst may override

Findings == Reported \cup Synthesised
Buckets == {"confirmed", "review", "benign", "inconclusive", "synthesis"}
Table == {"confirmed", "review"}

Verdicts == {"none", "malicious", "benign", "inconclusive"}

KindType ==
    [verdict : Verdicts,
     semantic : {"none", "weak", "strong", "anomaly"},
     corroborated : BOOLEAN, \* weak semantics count (or the floor is off)
     support : {"one", "several", "strong"},  \* claims, or typed support
     severity : {"low", "medium", "high"},
     proven : BOOLEAN,      \* passes the evidence and provenance gates
     overrated : BOOLEAN,   \* critical or high at low confidence
     synthesis : BOOLEAN,   \* an attack-chain narrative
     context : BOOLEAN,     \* environment-context signals
     noise : BOOLEAN,       \* benign JIT region, or only a tool's status
     routeOut : BOOLEAN,    \* severity_ledger_route_out
     barred : BOOLEAN,      \* validation_status says blocked
     grounded : BOOLEAN,    \* deterministic, with provenance
     egress : BOOLEAN,      \* names a public address
     frail : BOOLEAN,       \* baseline binary, or low at low confidence
     protected : BOOLEAN]   \* blockers of a visible false positive

Optional == {"reconcile", "propagate", "dependents", "late", "align",
             "blocked", "finalize", "realign", "entities", "precision",
             "dedup", "xdedup"}

After == [collect |-> "route", route |-> "reconcile",
          reconcile |-> "propagate", propagate |-> "dependents",
          dependents |-> "late", late |-> "align", align |-> "blocked",
          blocked |-> "finalize", finalize |-> "realign",
          realign |-> "entities", entities |-> "precision",
          precision |-> "dedup", dedup |-> "xdedup", xdedup |-> "llm",
          llm |-> "counts", counts |-> "analyst", analyst |-> "synthesis",
          synthesis |-> "fidelity", fidelity |-> "partition"]

ASSUME DispositionAssumption ==
    /\ IsFiniteSet(Findings)
    /\ Reported \cap Synthesised = {}
    /\ Blockable \subseteq Reported
    /\ IdOf \in [Reported -> Nat]
    /\ \A f, g \in Reported : IdOf[f] = IdOf[g] => f = g
    /\ Kinds \subseteq KindType
    /\ EntitiesOf \in [Findings -> SUBSET Entities]
    /\ AddressesOf \in [Findings -> SUBSET Addresses]
    /\ Cites \in [Synthesised -> SUBSET Reported]
    /\ Wordy \subseteq Entities
    /\ MayBeSkipped \subseteq Optional
    /\ ReviewAll \in BOOLEAN
    /\ Overridable \subseteq Findings
    /\ "outside" \notin Findings

VARIABLES
    pc,         \* the pass that is next
    kind,       \* the kind of each finding
    blocked,    \* what Step 10 blocked
    worded,     \* entities whose excerpts mention malice
    id,         \* number in finding_id
    final,      \* findings_final
    buckets,    \* _disposition_buckets
    propagated, \* _fp_routing_benign
    moved,      \* _recon_move
    absorbed,   \* what the dedup passes merged: row, rep, bucket of the row
    stranded,   \* merged rows that findings_final still has
    cleared,    \* rows inv3a moved as false_positive
    pulled,     \* rows entity consistency moved out of the findings table
    overruled,  \* rows the analyst moved
    violating,  \* _disposition_violations, as the rows they name
    gate,       \* FINAL_DISPOSITION_BUCKET_GATE as printed
    counts      \* _disposition_counts

inputs == <<kind, blocked, worded>>
ledgers == <<absorbed, stranded, cleared, pulled, overruled>>
prints == <<violating, gate, counts>>
vars == <<pc, inputs, id, final, buckets, propagated, moved, ledgers, prints>>

Rows == UNION {buckets[b] : b \in Buckets}

Init ==
    /\ pc = "collect"
    /\ kind \in [Findings -> Kinds]
    /\ \A f \in Synthesised : kind[f].verdict = "none"
    /\ blocked \in SUBSET Blockable
    /\ worded \in SUBSET Wordy
    /\ id = [f \in Findings |-> IF f \in Reported THEN IdOf[f] ELSE 0]
    /\ final = Reported \ blocked
    /\ buckets = [b \in Buckets |-> {}]
    /\ propagated = {} /\ moved = {}
    /\ absorbed = {} /\ stranded = {}
    /\ cleared = {} /\ pulled = {} /\ overruled = {}
    /\ violating = {} /\ gate = "none"
    /\ counts = [b \in Buckets |-> 0]

Proceed == pc' = After[pc]

(* Rows S leave their buckets for the one that "to" gives each.            *)
Rehomed(S, to) ==
    [b \in Buckets |-> (buckets[b] \ S) \cup {f \in S : to[f] = b}]

Sent(S, b) == Rehomed(S, [f \in S |-> b])

-----------------------------------------------------------------------------
(* Track B and the collection synthesizer number their findings from the   *)
(* highest number in findings_final, in which blocked findings are not.    *)
Taken == {id[f] : f \in final}

Collect ==
    /\ pc = "collect"
    /\ \E top \in Taken \cup {0} :
          /\ \A n \in Taken : n <= top
          /\ \E number \in [Synthesised ->
                               (top + 1) .. (top + Cardinality(Synthesised))] :
                /\ \A f, g \in Synthesised : number[f] = number[g] => f = g
                /\ id' = [f \in Findings |->
                             IF f \in Synthesised THEN number[f] ELSE id[f]]
    /\ final' = final \cup Synthesised
    /\ Proceed
    /\ UNCHANGED <<inputs, buckets, propagated, moved, ledgers, prints>>

-----------------------------------------------------------------------------
(* Routing. extract_react_verdict takes the finding's own verdict, or else *)
(* the investigation with the same id.                                     *)
Verdict(f) ==
    LET peers == {g \in Reported : id[g] = id[f] /\ kind[g].verdict # "none"}
    IN  IF kind[f].verdict = "none" /\ peers # {}
        THEN kind[CHOOSE g \in peers : TRUE].verdict
        ELSE kind[f].verdict

Malice(f) == kind[f].verdict = "malicious"
             \/ kind[f].semantic \in {"strong", "anomaly"}

Related(f, g) == EntitiesOf[f] \cap EntitiesOf[g] # {}

(* A benign verdict spreads to findings on the same process that have no   *)
(* malice and no egress of their own.                                      *)
Propagated ==
    {f \in final : /\ ~Malice(f) /\ ~kind[f].egress
                   /\ kind[f].verdict # "benign"
                   /\ \E g \in final : kind[g].verdict = "benign"
                                       /\ Related(f, g)}

(* The gates of evaluate_confirmed_bucket_eligibility. Weak semantics need *)
(* a corroborator.                                                         *)
Eligible(k) == /\ k.proven /\ ~k.routeOut
               /\ k.verdict \notin {"benign", "inconclusive"}
               /\ k.semantic # "none"
               /\ k.semantic = "weak" => k.corroborated

Faint(f) == kind[f].semantic \in {"none", "weak"} /\ Verdict(f) # "malicious"

OneClaim(f) ==
    IF Faint(f)
    THEN IF kind[f].severity = "low" THEN "benign" ELSE "inconclusive"
    ELSE IF Verdict(f) = "malicious" \/ kind[f].grounded
         THEN "review" ELSE "inconclusive"

(* The order of the tests is that of derive_final_disposition.             *)
Derived(f, flagged) ==
    LET k == kind[f]
        v == Verdict(f)
    IN  IF f \in flagged \/ k.noise THEN "benign"
        ELSE IF k.routeOut THEN "review"
        ELSE IF v = "benign"
             THEN IF k.semantic = "anomaly" THEN "review" ELSE "benign"
        ELSE IF v = "inconclusive" THEN "inconclusive"
        ELSE IF k.synthesis THEN "synthesis"
        ELSE IF k.overrated \/ (k.context /\ k.semantic = "none")
             THEN "review"
        ELSE IF k.support = "one" THEN OneClaim(f)
        ELSE IF k.barred THEN "review"
        ELSE IF Eligible(k) THEN "confirmed"
        ELSE IF Faint(f) /\ k.support # "strong" THEN "benign"
        ELSE "review"

(* What validate_disposition_buckets objects to in the confirmed bucket.   *)
Objectionable(f) ==
    \/ kind[f].verdict \in {"benign", "inconclusive"}
    \/ kind[f].synthesis \/ kind[f].overrated
    \/ kind[f].support = "one"
    \/ ~Eligible(kind[f])

Route ==
    /\ pc = "route"
    /\ propagated' = Propagated
    /\ buckets' = [b \in Buckets |-> {f \in final : Derived(f, Propagated) = b}]
    /\ violating' = {f \in buckets'["confirmed"] : Objectionable(f)}
    /\ Proceed
    /\ UNCHANGED <<inputs, id, final, moved, ledgers, gate, counts>>

-----------------------------------------------------------------------------
(* Step 13A. The ledger of ReAct verdicts per process.                     *)
Sources(e) == {f \in Reported : e \in EntitiesOf[f] /\ kind[f].verdict # "none"}
CalledMalicious(e) == \E f \in Sources(e) : kind[f].verdict = "malicious"
CalledBenign(e) == \E f \in Sources(e) : kind[f].verdict = "benign"

(* The routes read the labels off the text of the ledger entry.            *)
ReadsMalicious(e) ==
    CalledMalicious(e) \/ (e \in worded /\ Sources(e) # {})

(* Rule A, and A' for a process that was only called benign.               *)
Contradicted(f) ==
    \/ \E e \in EntitiesOf[f] : /\ CalledMalicious(e) /\ CalledBenign(e)
                                /\ f \in Sources(e)
    \/ /\ \E e \in EntitiesOf[f] : CalledBenign(e) /\ ~CalledMalicious(e)
       /\ \A e \in EntitiesOf[f] : ~CalledMalicious(e)

DemoteContradicted ==
    /\ pc = "reconcile"
    /\ moved' = {f \in buckets["confirmed"] : Contradicted(f)}
    /\ buckets' = Sent(moved', "review")
    /\ Proceed
    /\ UNCHANGED <<inputs, id, final, propagated, ledgers, prints>>

Refuted(f) == \E e \in EntitiesOf[f] : CalledBenign(e)
Mixed(f) ==
    \/ \E e \in EntitiesOf[f] : CalledBenign(e) /\ ReadsMalicious(e)
    \/ Refuted(f) /\ \E e \in EntitiesOf[f] : ReadsMalicious(e)

ToReview == {f \in buckets["confirmed"] \cup buckets["benign"] : Mixed(f)}
ToBenign == {f \in buckets["confirmed"] \cup buckets["review"] :
                Refuted(f) /\ ~Mixed(f)}

PropagateEntities ==
    /\ pc = "propagate"
    /\ buckets' = Rehomed(ToReview \cup ToBenign,
                          [f \in ToReview \cup ToBenign |->
                              IF f \in ToReview THEN "review" ELSE "benign"])
    /\ moved' = moved \cup ToReview \cup ToBenign
    /\ Proceed
    /\ UNCHANGED <<inputs, id, final, propagated, ledgers, prints>>

(* Synthesised findings that cite a moved one.                             *)
Dependents == {f \in (Rows \ buckets["review"]) \cap Synthesised :
                  Cites[f] \cap moved # {}}

DemoteDependents ==
    /\ pc = "dependents"
    /\ buckets' = Sent(Dependents, "review")
    /\ Proceed
    /\ UNCHANGED <<inputs, id, final, propagated, moved, ledgers, prints>>

(* reconcile_benign_misroutes.                                             *)
Misrouted ==
    {f \in buckets["review"] \cup buckets["inconclusive"] :
        /\ ~kind[f].routeOut
        /\ f \in propagated \/ kind[f].noise \/ kind[f].verdict = "benign"}

LateBenign ==
    /\ pc = "late"
    /\ buckets' = Sent(Misrouted, "benign")
    /\ Proceed
    /\ UNCHANGED <<inputs, id, final, propagated, moved, ledgers, prints>>

-----------------------------------------------------------------------------
(* Step 13Z, and again after inv3a: titles of one shape settle in the most *)
(* cautious bucket of the group.                                           *)
Settled(f, B) ==
    LET present == {b \in Buckets : \E g \in B[b] :
                       SignatureOf[g] # Nothing
                       /\ SignatureOf[g] = SignatureOf[f]}
    IN  IF present \cap Table # {} THEN "review"
        ELSE IF "inconclusive" \in present THEN "inconclusive"
        ELSE "benign"

Rhyming == {f \in buckets["review"] \cup buckets["inconclusive"]
                                    \cup buckets["benign"] :
               /\ SignatureOf[f] # Nothing
               /\ f \notin buckets[Settled(f, buckets)]}

(* A reason that begins with "react_verdict=" is recorded for every        *)
(* finding that derive_final_disposition does not override first, whatever *)
(* the verdict, none included.                                             *)
Reasoned(f) == f \notin blocked /\ ~kind[f].noise /\ ~kind[f].routeOut

(* _is_adjudicated_benign.                                                 *)
Adjudicated(f) == \/ kind[f].verdict = "benign"
                  \/ f \in propagated \cup cleared
                  \/ Reasoned(f)

(* Benign rows that share an artefact with a row of another bucket. Those  *)
(* that count as adjudicated stay, unless a confirmed row shares it.       *)
Shares(f, S) == ArtefactOf[f] # Nothing
                /\ \E g \in S : ArtefactOf[g] = ArtefactOf[f]

Escalated(B) ==
    {f \in B["benign"] :
        /\ Shares(f, B["confirmed"] \cup B["review"] \cup B["inconclusive"])
        /\ Adjudicated(f) => Shares(f, B["confirmed"])}

Aligned ==
    LET one == Rehomed(Rhyming, [f \in Rhyming |-> Settled(f, buckets)])
        up == Escalated(one)
    IN  [b \in Buckets |-> (one[b] \ up) \cup (IF b = "review" THEN up ELSE {})]

Align(at) ==
    /\ pc = at
    /\ buckets' = Aligned
    /\ Proceed
    /\ UNCHANGED <<inputs, id, final, propagated, moved, ledgers, prints>>

-----------------------------------------------------------------------------
(* Mutant: only what the validator marked as blocked comes back.           *)
ReturningBarred ==
    {f \in blocked : kind[f].barred /\ id[f] \notin {id[g] : g \in Rows}}

(* Step 13AA. Blocked findings join the inconclusive ones, unless their id *)
(* is in a bucket.                                                         *)
Returning == {f \in blocked : id[f] \notin {id[g] : g \in Rows}}

ReviewBlocked ==
    /\ pc = "blocked"
    /\ buckets' = [buckets EXCEPT !["inconclusive"] = @ \cup Returning]
    /\ final' = final \cup Returning
    /\ Proceed
    /\ UNCHANGED <<inputs, id, propagated, moved, ledgers, prints>>

(* Routed to benign for weakness alone, without any verdict or flag.       *)
FloorBuried(f) ==
    /\ f \in buckets["benign"] /\ f \notin blocked
    /\ Derived(f, propagated) = "benign"
    /\ f \notin propagated /\ ~kind[f].noise /\ Verdict(f) # "benign"
    /\ kind[f].severity # "high"

Ambiguous ==
    IF ReviewAll THEN Rows
    ELSE buckets["review"] \cup buckets["inconclusive"]
         \cup buckets["synthesis"] \cup {f \in Rows : FloorBuried(f)}

Tokens == {"false_positive", "needs_review", "confirmed", "inconclusive"}

(* Mutant: the answer is taken without asking for eligibility.             *)
ClampedNot(f, token) ==
    IF token = "confirmed" THEN "confirmed"
    ELSE IF token = "false_positive" THEN "benign"
    ELSE IF token = "needs_review" THEN "review" ELSE "inconclusive"

(* The bucket of an answer; "confirmed" is clamped to what is eligible.    *)
Clamped(f, token) ==
    IF token = "confirmed"
    THEN IF Eligible(kind[f]) THEN "confirmed" ELSE "review"
    ELSE IF token = "false_positive" THEN "benign"
    ELSE IF token = "needs_review" THEN "review" ELSE "inconclusive"

(* Mutant: the confirmed rows may be answered for like the others.         *)
AnswerableAll == Ambiguous

(* A confirmed row is not demoted, whatever the answer.                    *)
Answerable == Ambiguous \ buckets["confirmed"]

(* One AI call answers for some of the ambiguous ids: the rows beyond      *)
(* max_findings, those it leaves out or the promotion guard vetoes, and    *)
(* all of them when the call fails or its reply cannot be parsed, stay.    *)
Finalize ==
    /\ pc = "finalize"
    /\ \E answered \in SUBSET {id[f] : f \in Answerable} :
       \E token \in [answered -> Tokens] :
          LET S == {f \in Answerable :
                      /\ id[f] \in answered
                      /\ f \notin buckets[Clamped(f, token[id[f]])]}
          IN  /\ buckets' = Rehomed(S, [f \in S |-> Clamped(f, token[id[f]])])
              /\ cleared' = cleared \cup
                    {f \in S : token[id[f]] = "false_positive"}
    /\ Proceed
    /\ UNCHANGED <<inputs, id, final, propagated, moved, absorbed, stranded,
                   pulled, overruled, prints>>

-----------------------------------------------------------------------------
(* Step 13AA-ENT. An entity with rows in the findings table and in the     *)
(* benign bucket is settled by the strength of what is known about it.     *)
On(e, S) == {f \in S : e \in EntitiesOf[f]}
Scanned == Rows \ buckets["synthesis"]

Split(e) == /\ On(e, buckets["benign"]) # {}
            /\ On(e, buckets["confirmed"] \cup buckets["review"]) # {}

BenignWins(e) == /\ Split(e)
                 /\ \E f \in On(e, Scanned) : Adjudicated(f)
                 /\ \A f \in On(e, Scanned) : ~Malice(f)

(* Proposals for a row; review overrides benign.                           *)
PulledUp(f) ==
    \/ /\ f \in buckets["confirmed"]
       /\ \E e \in EntitiesOf[f] : BenignWins(e)
    \/ /\ f \in buckets["benign"] \cup buckets["inconclusive"]
       /\ ~Adjudicated(f)
       /\ \E e \in EntitiesOf[f] : Split(e) /\ ~BenignWins(e)

PulledDown(f) == /\ f \in buckets["review"]
                 /\ \E e \in EntitiesOf[f] : BenignWins(e)

OneTable ==
    LET up == {f \in Scanned : PulledUp(f)}
        down == {f \in Scanned : PulledDown(f)}
    IN  /\ pc = "entities"
        /\ buckets' = Rehomed(up \cup down, [f \in up \cup down |->
                                 IF f \in up THEN "review" ELSE "benign"])
        /\ pulled' = pulled \cup down
        /\ Proceed
        /\ UNCHANGED <<inputs, id, final, propagated, moved, absorbed,
                       stranded, cleared, overruled, prints>>

(* Step 13AB, both gates.                                                  *)
PrecisionGates ==
    /\ pc = "precision"
    /\ buckets' = Sent({f \in buckets["confirmed"] : kind[f].frail}, "review")
    /\ Proceed
    /\ UNCHANGED <<inputs, id, final, propagated, moved, ledgers, prints>>

-----------------------------------------------------------------------------
(* Steps 13AC and 13AD. The rows D leave the buckets, each into rep[f].    *)
BucketOf(f) == CHOOSE b \in Buckets : f \in buckets[b]

Leave(D, rep) ==
    /\ buckets' = [b \in Buckets |-> buckets[b] \ D]
    /\ absorbed' = absorbed \cup
          {[row |-> f, rep |-> rep[f], from |-> BucketOf(f)] : f \in D}
    /\ UNCHANGED <<inputs, id, propagated, moved, cleared, pulled, overruled,
                   prints>>

(* Mutant: the merged rows stay in findings_final.                         *)
AbsorbFinalKept(D, rep) == Leave(D, rep) /\ UNCHANGED <<final, stranded>>

(* findings_final loses the rows that have their ids.                      *)
Absorb(D, rep) ==
    /\ Leave(D, rep)
    /\ final' = {f \in final : id[f] \notin {id[g] : g \in D}}
    /\ UNCHANGED stranded

SameArtefact(f, g) == f = g \/ Shares(f, {g})

(* One representative for each artefact among rows S.                      *)
Kept(S) == {K \in SUBSET S :
               \A f \in S : \E g \in K :
                  /\ SameArtefact(f, g)
                  /\ \A h \in K : SameArtefact(f, h) => h = g}

DedupBuckets ==
    /\ pc = "dedup"
    /\ \E C \in Kept(buckets["confirmed"]), R \in Kept(buckets["review"]) :
          LET D == (buckets["confirmed"] \ C) \cup (buckets["review"] \ R)
          IN  Absorb(D, [f \in D |->
                 CHOOSE g \in IF f \in buckets["confirmed"] THEN C ELSE R :
                    SameArtefact(f, g)])
    /\ Proceed

(* dedup_review raises: the confirmed rows are merged by then, and         *)
(* findings_final is left as it was.                                       *)
DedupBroken ==
    /\ pc = "dedup" /\ pc \in MayBeSkipped
    /\ \E C \in Kept(buckets["confirmed"]) :
          LET D == buckets["confirmed"] \ C
          IN  /\ Leave(D, [f \in D |-> CHOOSE g \in C : SameArtefact(f, g)])
              /\ stranded' = D
    /\ Proceed
    /\ UNCHANGED final

(* An artefact in more than one bucket keeps one row, in the highest of    *)
(* confirmed, review and benign.                                           *)
Span == buckets["confirmed"] \cup buckets["review"] \cup buckets["benign"]

Above(g, f) ==
    \/ g \in buckets["confirmed"]
    \/ f \in buckets["benign"]
    \/ f \in buckets["review"] /\ g \in buckets["review"]

Spanning(f) == \E g \in Span : SameArtefact(f, g) /\ BucketOf(g) # BucketOf(f)

DedupAcross ==
    /\ pc = "xdedup"
    /\ \E K \in Kept({f \in Span : Spanning(f)}) :
          /\ \A f \in Span, g \in K :
                Spanning(f) /\ SameArtefact(f, g) => Above(g, f)
          /\ LET D == {f \in Span : Spanning(f)} \ K
             IN  Absorb(D, [f \in D |-> CHOOSE g \in K : SameArtefact(f, g)])
    /\ Proceed

(* The AI proposes groups within the findings table, or within the others; *)
(* a guard wants a shared key or title, and no two different processes or  *)
(* addresses.                                                              *)
Apart(A, B) == A # {} /\ B # {} /\ A \cap B = {}

Alike(f, g) ==
    /\ ~Apart(EntitiesOf[f], EntitiesOf[g])
    /\ ~Apart(AddressesOf[f], AddressesOf[g])
    /\ SameArtefact(f, g) \/ {f, g} \in TitlesAlike

(* Mutant: one table of all buckets.                                       *)
LLMTablesOne == {Buckets}

LLMTables == {Table, {"benign", "inconclusive"}}

MergeProposed ==
    /\ pc = "llm"
    /\ \E T \in LLMTables :
       LET rows == UNION {buckets[b] : b \in T}
       IN  \E f, g \in rows : /\ f # g /\ Alike(f, g)
                              /\ Absorb({f}, [h \in {f} |-> g])
    /\ UNCHANGED pc

EndMerging ==
    /\ pc = "llm"
    /\ Proceed
    /\ UNCHANGED <<inputs, id, final, buckets, propagated, moved, ledgers,
                   prints>>

-----------------------------------------------------------------------------
(* Step 13B, the analyst, the late passes and the gates.                   *)
(* Mutant: only the findings table is counted.                             *)
CountedTable(B) == [b \in Table |-> Cardinality(B[b])]

Counted(B) == [b \in Buckets |-> Cardinality(B[b])]

PrintCounts ==
    /\ pc = "counts"
    /\ counts' = Counted(buckets)
    /\ gate' = IF violating = {} THEN "PASS" ELSE "FAIL"
    /\ Proceed
    /\ UNCHANGED <<inputs, id, final, buckets, propagated, moved, ledgers,
                   violating>>

(* The analyst may move rows, one after the other, and then approves.      *)
Override ==
    /\ pc = "analyst"
    /\ \E f \in Rows \cap Overridable, b \in Buckets :
          /\ buckets' = Sent({f}, b)
          /\ overruled' = overruled \cup {f}
    /\ UNCHANGED <<pc, inputs, id, final, propagated, moved, absorbed,
                   stranded, cleared, pulled, prints>>

Approve ==
    /\ pc = "analyst"
    /\ counts' = IF overruled = {} THEN counts ELSE Counted(buckets)
    /\ Proceed
    /\ UNCHANGED <<inputs, id, final, buckets, propagated, moved, ledgers,
                   violating, gate>>

(* The analyst aborts the run before the report.                           *)
Quit ==
    /\ pc = "analyst"
    /\ pc' = "aborted"
    /\ UNCHANGED <<inputs, id, final, buckets, propagated, moved, ledgers,
                   prints>>

(* Narratives about a process that a benign row with a ReAct conclusion    *)
(* refutes.                                                                *)
Unfounded ==
    {f \in Rows \ buckets["review"] :
        /\ f \in buckets["synthesis"] \cup Synthesised \/ kind[f].synthesis
        /\ \E g \in buckets["benign"] : /\ g # f /\ Related(f, g)
                                        /\ kind[g].verdict # "none"}

(* Mutant: the counts are not refreshed after this downgrade.              *)
DemoteUnfoundedStale ==
    /\ pc = "synthesis"
    /\ buckets' = Sent(Unfounded, "review")
    /\ Proceed
    /\ UNCHANGED <<inputs, id, final, propagated, moved, ledgers, prints>>

DemoteUnfounded ==
    /\ pc = "synthesis"
    /\ buckets' = Sent(Unfounded, "review")
    /\ counts' = Counted(buckets')
    /\ Proceed
    /\ UNCHANGED <<inputs, id, final, propagated, moved, ledgers, violating,
                   gate>>

(* FP fidelity: false positives that may not be shown as such.             *)
Withheld == {f \in buckets["benign"] :
                kind[f].verdict = "benign" /\ kind[f].protected}

Fidelity ==
    /\ pc = "fidelity"
    /\ buckets' = Sent(Withheld, "review")
    /\ Proceed
    /\ UNCHANGED <<inputs, id, final, propagated, moved, ledgers, prints>>

(* assert_buckets_partition_findings: the run aborts before the report.    *)
Disjoint == \A b, c \in Buckets : b # c => buckets[b] \cap buckets[c] = {}
DistinctIds == \A f, g \in final : id[f] = id[g] => f = g

PartitionGate ==
    /\ pc = "partition"
    /\ pc' = IF Rows = final /\ Disjoint /\ DistinctIds
             THEN "report" ELSE "aborted"
    /\ UNCHANGED <<inputs, id, final, buckets, propagated, moved, ledgers,
                   prints>>

(* A pass that is switched off or fails leaves everything as it was. The   *)
(* three parts of Step 13A are in one try block.                           *)
Skip ==
    /\ pc \in MayBeSkipped
    /\ pc' = IF pc \in {"reconcile", "propagate"} THEN "late" ELSE After[pc]
    /\ UNCHANGED <<inputs, id, final, buckets, propagated, moved, ledgers,
                   prints>>

Next ==
    \/ Collect \/ Route
    \/ DemoteContradicted \/ PropagateEntities \/ DemoteDependents
    \/ LateBenign \/ Align("align") \/ Align("realign")
    \/ ReviewBlocked \/ Finalize
    \/ OneTable \/ PrecisionGates
    \/ DedupBuckets \/ DedupBroken \/ DedupAcross \/ MergeProposed \/ EndMerging
    \/ PrintCounts \/ Override \/ Approve \/ Quit \/ DemoteUnfounded \/ Fidelity
    \/ PartitionGate \/ Skip

Spec == Init /\ [][Next]_vars

-----------------------------------------------------------------------------
(* Types of all variables.                                                 *)
TypeOK ==
    /\ pc \in DOMAIN After \cup {"partition", "report", "aborted"}
    /\ kind \in [Findings -> Kinds]
    /\ blocked \subseteq Blockable
    /\ worded \subseteq Wordy
    /\ id \in [Findings -> Nat]
    /\ final \subseteq Findings
    /\ buckets \in [Buckets -> SUBSET Findings]
    /\ absorbed \subseteq
          [row : Findings, rep : Findings, from : Buckets]
    /\ propagated \cup moved \cup stranded \cup cleared \cup pulled
       \cup overruled \cup violating \subseteq Findings
    /\ gate \in {"none", "PASS", "FAIL"}
    /\ counts \in [Buckets -> Nat]

(* Between any two passes the buckets partition findings_final and no two  *)
(* of its rows share an id, so that the gate before the report             *)
(* (PARTITION_GATE) aborts no run but one in which Step 13AC raised half   *)
(* way and left merged rows in findings_final; that one never reports.     *)
BucketsPartition ==
    /\ pc \notin {"collect", "route"} => Rows = final \ stranded /\ Disjoint
    /\ DistinctIds
    /\ pc = "report" => stranded = {}

(* No pass, and no answer of the AI, confirms a finding whose evidence is  *)
(* not eligible; only an analyst does.                                     *)
ConfirmedEligible ==
    \A f \in buckets["confirmed"] \ overruled : Eligible(kind[f])

(* The passes after ReviewBlocked.                                         *)
Reviewed == {"finalize", "realign", "entities", "precision", "dedup", "xdedup",
             "llm", "counts", "analyst", "synthesis", "fidelity", "partition",
             "report"}

Merged == {m.row : m \in absorbed}

(* Once the blocked findings are back, every finding is a row or was       *)
(* merged, unless its number was taken by another; and what it was merged  *)
(* into is a row or was merged in turn.                                    *)
NothingDropped ==
    pc \in Reviewed =>
        /\ \A f \in Findings \ (Rows \cup Merged) :
              f \in blocked /\ \E g \in Findings \ {f} : id[g] = id[f]
        /\ \A m \in absorbed : m.rep \in Rows \cup Merged

(* "blocked findings now get a final cross-check, not a silent drop": each *)
(* joins the rows.                                                         *)
BlockedReturn == pc \in Reviewed => blocked \subseteq Rows \cup Merged

(* "no evil is ever hidden by dedup": what a row of the findings table is  *)
(* merged into is in that table to the end, or was merged there in turn,   *)
(* or the analyst moved it.                                                *)
TableMergesStay ==
    \A m \in absorbed : m.from \in Table =>
        \/ m.rep \in buckets["confirmed"] \cup buckets["review"] \cup overruled
        \/ \E n \in absorbed : n.row = m.rep /\ n.from \in Table

(* The confirmed count the report prints is that of the confirmed bucket,  *)
(* whatever moved after the counts were first taken.                       *)
ConfirmedCountRight ==
    pc = "report" => counts["confirmed"] = Cardinality(buckets["confirmed"])

(* Step 13 implements the ladder.                                          *)
Place == [f \in Findings |->
             IF f \in Merged THEN "merged"
             ELSE IF f \in Rows THEN BucketOf(f) ELSE "outside"]

Ladder == INSTANCE DispositionLadder
             WITH place <- Place,
                  eligible <- {f \in Findings : Eligible(kind[f])}

KeepsLadder == Ladder!Spec

(* "both weak -> needs-review": entity consistency takes a row out of the  *)
(* findings table only for an entity somebody called benign.               *)
JudgedBenign(f) == kind[f].verdict = "benign" \/ f \in propagated \cup cleared

SplitsJudged ==
    \A f \in pulled \cap buckets["benign"] :
        \E g \in Findings : Related(f, g) /\ JudgedBenign(g)
=============================================================================
