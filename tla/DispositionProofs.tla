--------------------------- MODULE DispositionProofs ---------------------------
(***************************************************************************)
(* Proofs about Step 13: the passes keep the buckets a partition of        *)
(* findings_final and confirm nothing whose evidence is not eligible, for  *)
(* any findings, kinds, processes, artefacts and answers of the AI.        *)
(***************************************************************************)
EXTENDS Disposition, FiniteSetTheorems, TLAPS

(* Moving rows between buckets neither loses nor doubles one.              *)
LEMMA RehomedKeeps ==
    ASSUME NEW S, S \subseteq Rows, NEW to, \A f \in S : to[f] \in Buckets,
           buckets' = Rehomed(S, to)
    PROVE  /\ Rows' = Rows
           /\ Disjoint => Disjoint'
  BY DEF Rows, Disjoint, Rehomed

(* Derived names a bucket, and confirms only what is eligible.             *)
LEMMA DerivedBucket ==
    ASSUME NEW f, NEW flagged
    PROVE  /\ Derived(f, flagged) \in Buckets
           /\ Derived(f, flagged) = "confirmed" => Eligible(kind[f])
  BY DEF Derived, OneClaim, Buckets

LEMMA BucketOfRow ==
    ASSUME NEW f \in Rows
    PROVE  BucketOf(f) \in Buckets /\ f \in buckets[BucketOf(f)]
  BY DEF Rows, BucketOf

(* In disjoint buckets a row's bucket is the one it is found in.           *)
LEMMA BucketOfIs ==
    ASSUME Disjoint, NEW b \in Buckets, NEW f \in buckets[b]
    PROVE  BucketOf(f) = b
  <1>1. f \in Rows
    BY DEF Rows
  <1>2. QED
    BY <1>1, BucketOfRow DEF Disjoint

LEMMA CountedType ==
    ASSUME NEW B, \A b \in Buckets : B[b] \subseteq Findings
    PROVE  Counted(B) \in [Buckets -> Nat]
  <1>1. ASSUME NEW b \in Buckets PROVE Cardinality(B[b]) \in Nat
    BY FS_Subset, FS_CardinalityType, DispositionAssumption
  <1>2. QED
    BY <1>1 DEF Counted

-----------------------------------------------------------------------------
(* The inductive invariant. The reported findings keep their distinct ids. *)
(* Between the routing and ReviewBlocked only blocked findings are outside *)
(* findings_final; from there on nothing is dropped, unless the pass was   *)
(* skipped; nothing is merged before Step 13AC, what is merged is no row,  *)
(* and what is stranded was merged; the count is right from the moment it  *)
(* is taken.                                                               *)
Pending == {"route", "reconcile", "propagate", "dependents", "late", "align",
            "blocked"}
Merging == {"xdedup", "llm", "counts", "analyst", "synthesis", "fidelity",
            "partition", "report", "aborted"}
CountTaken == {"analyst", "synthesis", "fidelity", "partition", "report"}

OnlyBlockedOut ==
    /\ pc \in Pending \cup {"collect"} => Reported \ final \subseteq blocked
    /\ pc \in Pending => Synthesised \subseteq final
IdsKept == \A f \in Reported : id[f] = IdOf[f]
NothingMergedYet == pc \notin Merging => absorbed = {} /\ stranded = {}
StrandedMerged == stranded \subseteq final \cap Merged
MergedGone == Merged \cap Rows = {}
NothingRoutedYet == pc \in {"collect", "route"} => Rows = {}
CountKept ==
    pc \in CountTaken /\ (pc = "analyst" => overruled = {}) =>
        counts["confirmed"] = Cardinality(buckets["confirmed"])

BackThenKept == "blocked" \notin MayBeSkipped => NothingDropped

IInv == /\ TypeOK
        /\ BucketsPartition
        /\ ConfirmedEligible
        /\ BackThenKept
        /\ TableMergesStay
        /\ IdsKept
        /\ OnlyBlockedOut
        /\ NothingMergedYet
        /\ StrandedMerged
        /\ MergedGone
        /\ NothingRoutedYet
        /\ CountKept

LEMMA InitInv == Init => IInv
  <1> SUFFICES ASSUME Init PROVE IInv
    OBVIOUS
  <1>1. TypeOK
    BY DispositionAssumption
    DEF Init, TypeOK, After, Findings, Buckets
  <1>2. IdsKept
    BY DEF Init, IdsKept, Findings
  <1>3. BucketsPartition
    BY <1>2, DispositionAssumption
    DEF Init, BucketsPartition, DistinctIds, IdsKept
  <1>4. QED
    BY <1>1, <1>2, <1>3 DEF Init, IInv, ConfirmedEligible,
      BackThenKept, NothingDropped, Reviewed, TableMergesStay, OnlyBlockedOut,
      Pending, StrandedMerged,
      NothingMergedYet, MergedGone, Merged, NothingRoutedYet, Rows, Merging,
      CountKept, CountTaken, Buckets

-----------------------------------------------------------------------------
(* Most passes only move rows. What such a pass must respect: eligibility, *)
(* unless the analyst took the row; after the first merge a row leaves     *)
(* neither the findings table nor, once they are counted, the confirmed    *)
(* ones, unless the counts are taken anew; without the analyst no row      *)
(* becomes a synthesis narrative and no confirmed one inconclusive.        *)
Moving(S, to) ==
    /\ pc \in DOMAIN After \ {"collect", "route", "blocked", "counts"}
    /\ pc' = After[pc] \/ (pc = "analyst" /\ pc' = pc)
    /\ S \subseteq Rows
    /\ \A f \in S :
          /\ to[f] \in Buckets
          /\ to[f] = "confirmed" => Eligible(kind[f]) \/ f \in overruled'
          /\ pc \in Merging => to[f] \in Table \/ f \in overruled'
    /\ buckets' = Rehomed(S, to)
    /\ \/ /\ overruled' = overruled
          /\ \A f \in S :
                /\ to[f] # "synthesis"
                /\ to[f] = "confirmed" => Eligible(kind[f])
                /\ f \in buckets["confirmed"] => to[f] # "inconclusive"
       \/ \E f \in Findings : S = {f} /\ overruled' = overruled \cup {f}
    /\ UNCHANGED <<inputs, id, final, absorbed, stranded>>
    /\ CountKept'

LEMMA MovingInv ==
    ASSUME IInv, NEW S, NEW to, Moving(S, to), TypeOK'
    PROVE  IInv'
  <1>1. /\ Rows' = Rows
        /\ Disjoint'
        /\ Rows = final \ stranded
    BY RehomedKeeps DEF Moving, IInv, BucketsPartition
  <1>2. BucketsPartition'
    BY <1>1 DEF Moving, IInv, BucketsPartition, DistinctIds, After
  <1>3. ConfirmedEligible'
    BY DEF Moving, IInv, ConfirmedEligible, Rehomed, Buckets, inputs
  <1>4. /\ pc' \in Reviewed => pc \in Reviewed
        /\ pc' \in Pending \cup {"collect"} => pc \in Pending
        /\ pc' \notin Merging => pc \notin Merging
        /\ pc' \notin {"collect", "route"}
        /\ pc \notin Merging => pc' \notin Merging \/ pc = "dedup"
    BY DEF Moving, After, Reviewed, Pending, Merging
  <1>5. BackThenKept'
    BY <1>1, <1>4
    DEF Moving, IInv, BackThenKept, NothingDropped, Merged, inputs
  <1>6. TableMergesStay'
    <2>1. CASE pc \notin Merging
      BY <2>1 DEF IInv, NothingMergedYet, TableMergesStay, Moving
    <2>2. CASE pc \in Merging
      <3> SUFFICES ASSUME NEW m \in absorbed, m.from \in Table
                   PROVE  \/ m.rep \in (buckets["confirmed"]
                                        \cup buckets["review"] \cup overruled)'
                          \/ \E n \in absorbed : n.row = m.rep
                                                 /\ n.from \in Table
        BY DEF TableMergesStay, Moving
      <3>1. ASSUME m.rep \in buckets["confirmed"] \cup buckets["review"]
            PROVE  m.rep \in (buckets["confirmed"] \cup buckets["review"]
                              \cup overruled)'
        BY <2>2, <3>1 DEF Moving, Rehomed, Buckets, Table
      <3>2. QED
        BY <3>1 DEF IInv, TableMergesStay, Moving
    <2>3. QED
      BY <2>1, <2>2
  <1>7. /\ OnlyBlockedOut' /\ NothingMergedYet' /\ MergedGone'
        /\ NothingRoutedYet' /\ IdsKept' /\ StrandedMerged'
    BY <1>1, <1>4
    DEF MergedGone, Merged, NothingRoutedYet, Moving, IInv, OnlyBlockedOut,
      NothingMergedYet, IdsKept, StrandedMerged, inputs
  <1>8. QED
    BY <1>2, <1>3, <1>5, <1>6, <1>7 DEF IInv, Moving

-----------------------------------------------------------------------------
(* Where a finding stands on the ladder, before and after a step.          *)
LEMMA PlaceIs ==
    ASSUME Disjoint, MergedGone, NEW f \in Findings
    PROVE  /\ f \in Merged => Place[f] = "merged"
           /\ \A b \in Buckets : f \in buckets[b] => Place[f] = b
           /\ f \notin Merged \cup Rows => Place[f] = "outside"
  <1>1. ASSUME NEW b \in Buckets, f \in buckets[b] PROVE Place[f] = b
    <2>1. f \in Rows /\ f \notin Merged
      BY <1>1 DEF Rows, MergedGone
    <2>2. BucketOf(f) = b
      BY <1>1, BucketOfIs
    <2>3. QED
      BY <2>1, <2>2 DEF Place
  <1>2. QED
    BY <1>1 DEF Place

LEMMA PlaceIsPrimed ==
    ASSUME Disjoint', MergedGone', NEW f \in Findings
    PROVE  /\ f \in Merged' => Place'[f] = "merged"
           /\ \A b \in Buckets : f \in buckets'[b] => Place'[f] = b
           /\ f \notin Merged' \cup Rows' => Place'[f] = "outside"
  <1>1. ASSUME NEW b \in Buckets, f \in buckets'[b] PROVE Place'[f] = b
    <2>1. f \in Rows' /\ f \notin Merged'
      BY <1>1 DEF Rows, MergedGone
    <2>2. BucketOf(f)' = b
      BY <1>1 DEF BucketOf, Disjoint
    <2>3. QED
      BY <2>1, <2>2 DEF Place
  <1>2. QED
    BY <1>1 DEF Place

LadderStep == [Ladder!Next]_(Ladder!vars)

(* A step that leaves the kinds and the analyst's rows alone, and in which *)
(* every finding stays or climbs down or up a rung it may.                 *)
LEMMA AdvanceStep ==
    ASSUME UNCHANGED <<kind, overruled>>,
           \A f \in Findings : \/ Place'[f] = Place[f]
                               \/ Ladder!Enter(f)
                               \/ Ladder!Move(f)
                               \/ Ladder!Merge(f)
    PROVE  LadderStep
  BY DEF LadderStep, Ladder!Next, Ladder!Advance

LEMMA MovingClimbs ==
    ASSUME IInv, IInv', NEW S, NEW to, Moving(S, to)
    PROVE  LadderStep
  <1>1. /\ Rows' = Rows /\ Merged' = Merged
        /\ Disjoint /\ Disjoint' /\ MergedGone /\ MergedGone'
        /\ UNCHANGED kind
    <2>1. Disjoint
      BY DEF Moving, IInv, BucketsPartition
    <2>2. Rows' = Rows /\ Disjoint'
      BY <2>1, RehomedKeeps DEF Moving
    <2>3. Merged' = Merged /\ UNCHANGED kind
      BY DEF Moving, Merged, inputs
    <2>4. QED
      BY <2>1, <2>2, <2>3 DEF IInv
  <1>2. ASSUME NEW f \in Findings \ S PROVE Place'[f] = Place[f]
    <2>1. CASE f \in Rows
      <3>1. PICK b \in Buckets : f \in buckets[b]
        BY <2>1 DEF Rows
      <3>2. f \in buckets'[b]
        BY <3>1 DEF Moving, Rehomed
      <3>3. QED
        BY <1>1, <3>1, <3>2, PlaceIs, PlaceIsPrimed
    <2>2. CASE f \notin Rows
      BY <1>1, <2>2, PlaceIs, PlaceIsPrimed
    <2>3. QED
      BY <2>1, <2>2
  <1>3. ASSUME NEW f \in S
        PROVE  /\ f \in Findings
               /\ Place[f] \in Buckets
               /\ Place[f] = "confirmed" => f \in buckets["confirmed"]
               /\ Place'[f] = to[f]
               /\ to[f] \in Buckets
    <2>1. f \in Findings /\ f \in Rows
      BY DEF IInv, TypeOK, Moving, Rows
    <2>2. PICK b \in Buckets : f \in buckets[b]
      BY <2>1 DEF Rows
    <2>3. to[f] \in Buckets /\ f \in buckets'[to[f]]
      BY DEF Moving, Rehomed
    <2>4. QED
      BY <1>1, <2>1, <2>2, <2>3, PlaceIs, PlaceIsPrimed
  <1>4. CASE /\ overruled' = overruled
             /\ \A f \in S :
                   /\ to[f] # "synthesis"
                   /\ to[f] = "confirmed" => Eligible(kind[f])
                   /\ f \in buckets["confirmed"] => to[f] # "inconclusive"
    <2>1. \A f \in S : Ladder!Move(f)
      BY <1>3, <1>4 DEF Ladder!Move, Ladder!Buckets, Buckets
    <2>2. QED
      BY <1>1, <1>2, <1>4, <2>1, AdvanceStep
  <1>5. CASE \E f \in Findings : S = {f} /\ overruled' = overruled \cup {f}
    <2>1. PICK f \in Findings : S = {f} /\ overruled' = overruled \cup {f}
      BY <1>5
    <2>2. Place' = [Place EXCEPT ![f] = to[f]]
      <3>1. Place' = [g \in Findings |-> Place'[g]]
        BY DEF Place
      <3>2. Place = [g \in Findings |-> Place[g]]
        BY DEF Place
      <3>3. QED
        BY <1>2, <1>3, <2>1, <3>1, <3>2
    <2>3. Ladder!Overrule(f)
      BY <1>3, <2>1, <2>2 DEF Ladder!Overrule, Ladder!Buckets, Buckets
    <2>4. QED
      BY <1>1, <2>1, <2>3 DEF LadderStep, Ladder!Next
  <1>6. QED
    BY <1>4, <1>5 DEF Moving

LEMMA RehomedType ==
    ASSUME TypeOK, NEW S, S \subseteq Rows, NEW to
    PROVE  /\ Rows \subseteq Findings
           /\ Rehomed(S, to) \in [Buckets -> SUBSET Findings]
           /\ Counted(Rehomed(S, to)) \in [Buckets -> Nat]
  <1>1. Rows \subseteq Findings
    BY DEF TypeOK, Rows
  <1>2. Rehomed(S, to) \in [Buckets -> SUBSET Findings]
    BY <1>1 DEF Rehomed, TypeOK
  <1>3. QED
    BY <1>1, <1>2, CountedType

USE DEF Proceed, inputs, ledgers, prints

LEMMA DemoteContradictedInv ==
    ASSUME IInv, DemoteContradicted
    PROVE  IInv' /\ LadderStep
  <1>1. moved' \subseteq Rows
    BY DEF DemoteContradicted, Rows, Buckets
  <1>2. TypeOK'
    <2>1. /\ buckets' \in [Buckets -> SUBSET Findings]
          /\ moved' \subseteq Findings
      BY <1>1, RehomedType DEF DemoteContradicted, IInv, Sent
    <2>2. QED
      BY <2>1 DEF DemoteContradicted, IInv, TypeOK, After
  <1>3. Moving(moved', [f \in moved' |-> "review"])
    BY <1>1 DEF DemoteContradicted, Moving, Sent, After, Buckets, Merging,
      CountKept, CountTaken
  <1>4. QED
    BY <1>2, <1>3, MovingInv, MovingClimbs

LEMMA PropagateEntitiesInv ==
    ASSUME IInv, PropagateEntities
    PROVE  IInv' /\ LadderStep
  <1> DEFINE S == ToReview \cup ToBenign
             to == [f \in S |-> IF f \in ToReview THEN "review" ELSE "benign"]
  <1>1. S \subseteq Rows
    BY DEF ToReview, ToBenign, Rows, Buckets
  <1>2. TypeOK'
    <2>1. /\ buckets' \in [Buckets -> SUBSET Findings]
          /\ S \subseteq Findings
      BY <1>1, RehomedType DEF PropagateEntities, IInv
    <2>2. moved' \subseteq Findings
      BY <2>1 DEF PropagateEntities, IInv, TypeOK
    <2>3. QED
      BY <2>1, <2>2 DEF PropagateEntities, IInv, TypeOK, After
  <1>3. Moving(S, to)
    BY <1>1 DEF PropagateEntities, Moving, After, Buckets, Merging,
      CountKept, CountTaken
  <1>4. QED
    BY <1>2, <1>3, MovingInv, MovingClimbs

LEMMA DemoteDependentsInv ==
    ASSUME IInv, DemoteDependents
    PROVE  IInv' /\ LadderStep
  <1>1. Dependents \subseteq Rows
    BY DEF Dependents
  <1>2. TypeOK'
    BY <1>1, RehomedType DEF DemoteDependents, IInv, TypeOK, Sent, After
  <1>3. Moving(Dependents, [f \in Dependents |-> "review"])
    BY <1>1 DEF DemoteDependents, Moving, Sent, After, Buckets, Merging,
      CountKept, CountTaken
  <1>4. QED
    BY <1>2, <1>3, MovingInv, MovingClimbs

LEMMA LateBenignInv ==
    ASSUME IInv, LateBenign
    PROVE  IInv' /\ LadderStep
  <1>1. Misrouted \subseteq Rows
    BY DEF Misrouted, Rows, Buckets
  <1>2. TypeOK'
    BY <1>1, RehomedType DEF LateBenign, IInv, TypeOK, Sent, After
  <1>3. Moving(Misrouted, [f \in Misrouted |-> "benign"])
    BY <1>1 DEF LateBenign, Moving, Sent, After, Buckets, Merging,
      CountKept, CountTaken
  <1>4. QED
    BY <1>2, <1>3, MovingInv, MovingClimbs

(* The two passes of Step 13Z together move every row once.                *)
LEMMA AlignInv ==
    ASSUME IInv, NEW at \in {"align", "realign"}, Align(at)
    PROVE  IInv' /\ LadderStep
  <1> DEFINE home == [f \in Rhyming |-> Settled(f, buckets)]
             up == Escalated(Rehomed(Rhyming, home))
             S == Rhyming \cup up
             to == [f \in S |-> IF f \in up THEN "review"
                                ELSE Settled(f, buckets)]
  <1>1. Rhyming \subseteq Rows /\ up \subseteq Rows
    BY DEF Rhyming, Escalated, Rehomed, Rows, Buckets
  <1>2. \A f : Settled(f, buckets) \in Buckets \ {"confirmed", "synthesis"}
    BY DEF Settled, Buckets
  <1>3. Aligned = Rehomed(S, to)
    <2>1. ASSUME NEW b \in Buckets
          PROVE  Aligned[b] = Rehomed(S, to)[b]
      BY DEF Aligned, Rehomed
    <2>2. QED
      BY <2>1 DEF Aligned, Rehomed
  <1>4. TypeOK'
    <2>1. Aligned \in [Buckets -> SUBSET Findings]
      <3> HIDE DEF S, to
      <3>1. S \subseteq Rows
        BY <1>1 DEF S
      <3>2. QED
        BY <1>3, <3>1, RehomedType DEF IInv
    <2>2. QED
      BY <2>1 DEF Align, IInv, TypeOK, After
  <1>5. Rhyming \cap buckets["confirmed"] = {}
    <2>1. Disjoint
      BY DEF IInv, BucketsPartition, Align
    <2>2. QED
      BY <2>1 DEF Rhyming, Disjoint, Buckets
  <1>6. Moving(S, to)
    BY <1>1, <1>2, <1>3, <1>5 DEF Align, Moving, After, Buckets, Merging,
      CountKept, CountTaken
  <1>7. QED
    BY <1>4, <1>6, MovingInv, MovingClimbs

LEMMA FinalizeInv ==
    ASSUME IInv, Finalize
    PROVE  IInv' /\ LadderStep
  <1>0. PICK answered \in SUBSET {id[f] : f \in Answerable} :
           \E token \in [answered -> Tokens] :
              LET S == {f \in Answerable :
                          /\ id[f] \in answered
                          /\ f \notin buckets[Clamped(f, token[id[f]])]}
              IN  /\ buckets' = Rehomed(S, [f \in S |->
                                              Clamped(f, token[id[f]])])
                  /\ cleared' = cleared \cup
                        {f \in S : token[id[f]] = "false_positive"}
    BY DEF Finalize
  <1>1. PICK token \in [answered -> Tokens] :
           LET S == {f \in Answerable :
                       /\ id[f] \in answered
                       /\ f \notin buckets[Clamped(f, token[id[f]])]}
           IN  /\ buckets' = Rehomed(S, [f \in S |-> Clamped(f, token[id[f]])])
               /\ cleared' = cleared \cup
                     {f \in S : token[id[f]] = "false_positive"}
    BY <1>0
  <1> DEFINE S == {f \in Answerable :
                     /\ id[f] \in answered
                     /\ f \notin buckets[Clamped(f, token[id[f]])]}
             to == [f \in S |-> Clamped(f, token[id[f]])]
  <1>2. S \subseteq Rows
    BY DEF Answerable, Ambiguous, Rows, Buckets
  <1>3. TypeOK'
    <2>1. /\ buckets' \in [Buckets -> SUBSET Findings]
          /\ S \subseteq Findings
      BY <1>1, <1>2, RehomedType DEF IInv
    <2>2. cleared' \subseteq Findings
      BY <1>1, <2>1 DEF IInv, TypeOK
    <2>3. QED
      BY <2>1, <2>2 DEF Finalize, IInv, TypeOK, After
  <1>4. \A f \in S : /\ to[f] \in Buckets
                     /\ to[f] # "synthesis"
                     /\ to[f] = "confirmed" => Eligible(kind[f])
                     /\ f \notin buckets["confirmed"]
    BY DEF Clamped, Buckets, Answerable
  <1>5. Moving(S, to)
    BY <1>1, <1>2, <1>4 DEF Finalize, Moving, After, Merging,
      CountKept, CountTaken
  <1>6. QED
    BY <1>3, <1>5, MovingInv, MovingClimbs

LEMMA OneTableInv ==
    ASSUME IInv, OneTable
    PROVE  IInv' /\ LadderStep
  <1> DEFINE up == {f \in Scanned : PulledUp(f)}
             down == {f \in Scanned : PulledDown(f)}
             to == [f \in up \cup down |->
                      IF f \in up THEN "review" ELSE "benign"]
  <1>1. up \cup down \subseteq Rows /\ down \subseteq Rows
    BY DEF Scanned
  <1>2. TypeOK'
    BY <1>1, RehomedType DEF OneTable, IInv, TypeOK, After
  <1>3. Moving(up \cup down, to)
    BY <1>1 DEF OneTable, Moving, After, Buckets, Merging,
      CountKept, CountTaken
  <1>4. QED
    BY <1>2, <1>3, MovingInv, MovingClimbs

LEMMA PrecisionGatesInv ==
    ASSUME IInv, PrecisionGates
    PROVE  IInv' /\ LadderStep
  <1> DEFINE S == {f \in buckets["confirmed"] : kind[f].frail}
  <1>1. S \subseteq Rows
    BY DEF Rows, Buckets
  <1>2. TypeOK'
    BY <1>1, RehomedType DEF PrecisionGates, IInv, TypeOK, Sent, After
  <1>3. Moving(S, [f \in S |-> "review"])
    BY <1>1 DEF PrecisionGates, Moving, Sent, After, Buckets, Merging,
      CountKept, CountTaken
  <1>4. QED
    BY <1>2, <1>3, MovingInv, MovingClimbs

LEMMA OverrideInv ==
    ASSUME IInv, Override
    PROVE  IInv' /\ LadderStep
  <1>1. PICK f \in Rows \cap Overridable, b \in Buckets :
           /\ buckets' = Sent({f}, b)
           /\ overruled' = overruled \cup {f}
    BY DEF Override
  <1> DEFINE to == [g \in {f} |-> b]
  <1>2. f \in Rows /\ f \in Findings
    BY RehomedType DEF IInv
  <1>3. buckets' = Rehomed({f}, to)
    BY <1>1 DEF Sent
  <1>4. TypeOK'
    <2>1. buckets' \in [Buckets -> SUBSET Findings]
      BY <1>2, <1>3, RehomedType DEF IInv
    <2>2. QED
      BY <1>1, <1>2, <2>1 DEF Override, IInv, TypeOK
  <1>5. CountKept'
    BY <1>1 DEF Override, CountKept
  <1>6. Moving({f}, to)
    BY <1>1, <1>2, <1>3, <1>5
    DEF Override, Moving, After, Merging
  <1>7. QED
    BY <1>4, <1>6, MovingInv, MovingClimbs

LEMMA DemoteUnfoundedInv ==
    ASSUME IInv, DemoteUnfounded
    PROVE  IInv' /\ LadderStep
  <1> DEFINE to == [f \in Unfounded |-> "review"]
  <1>1. Unfounded \subseteq Rows
    BY DEF Unfounded
  <1>2. buckets' = Rehomed(Unfounded, to) /\ counts' = Counted(buckets')
    BY DEF Sent, DemoteUnfounded
  <1>3. TypeOK'
    <2>1. buckets' \in [Buckets -> SUBSET Findings]
      BY <1>1, <1>2, RehomedType DEF IInv
    <2>2. counts' \in [Buckets -> Nat]
      BY <2>1, <1>2, CountedType
    <2>3. QED
      BY <2>1, <2>2 DEF DemoteUnfounded, IInv, TypeOK, After
  <1>4. CountKept'
    BY <1>2 DEF CountKept, Counted, Buckets
  <1>5. Moving(Unfounded, to)
    BY <1>1, <1>2, <1>4
    DEF DemoteUnfounded, Moving, After, Buckets, Merging, Table
  <1>6. QED
    BY <1>3, <1>5, MovingInv, MovingClimbs

(* What Fidelity moves is benign, so the confirmed count stays right.      *)
LEMMA FidelityInv ==
    ASSUME IInv, Fidelity
    PROVE  IInv' /\ LadderStep
  <1> DEFINE to == [f \in Withheld |-> "review"]
  <1>1. Withheld \subseteq Rows
    BY DEF Withheld, Rows, Buckets
  <1>2. buckets' = Rehomed(Withheld, to)
    BY DEF Sent, Fidelity
  <1>3. TypeOK'
    <2>1. buckets' \in [Buckets -> SUBSET Findings]
      BY <1>1, <1>2, RehomedType DEF IInv
    <2>2. pc' = "partition"
      BY DEF Fidelity, After
    <2>3. QED
      BY <2>1, <2>2 DEF Fidelity, IInv, TypeOK
  <1>4. buckets'["confirmed"] = buckets["confirmed"]
    <2>1. Withheld \cap buckets["confirmed"] = {}
      BY DEF Withheld, Fidelity, IInv, BucketsPartition, Disjoint, Buckets
    <2>2. QED
      BY <1>2, <2>1 DEF Rehomed, Buckets
  <1>5. CountKept'
    BY <1>4 DEF CountKept, CountTaken, Fidelity, IInv
  <1>6. Moving(Withheld, to)
    BY <1>1, <1>2, <1>5
    DEF Fidelity, Moving, After, Buckets, Merging, Table
  <1>7. QED
    BY <1>3, <1>6, MovingInv, MovingClimbs

-----------------------------------------------------------------------------
(* The passes that are no mere moves.                                      *)
LEMMA CollectInv ==
    ASSUME IInv, Collect
    PROVE  IInv' /\ LadderStep
  <1>1. PICK top \in Taken \cup {0} :
           /\ \A n \in Taken : n <= top
           /\ \E number \in [Synthesised ->
                                (top + 1) .. (top + Cardinality(Synthesised))] :
                 /\ \A f, g \in Synthesised : number[f] = number[g] => f = g
                 /\ id' = [f \in Findings |->
                              IF f \in Synthesised THEN number[f] ELSE id[f]]
    BY DEF Collect
  <1>2. top \in Nat
    BY DEF Taken, IInv, TypeOK
  <1>3. Cardinality(Synthesised) \in Nat
    BY FS_Subset, FS_CardinalityType, DispositionAssumption DEF Findings
  <1>4. (top + 1) .. (top + Cardinality(Synthesised)) \subseteq Nat
    BY <1>2, <1>3
  <1>5. id' \in [Findings -> Nat]
    BY <1>1, <1>4 DEF IInv, TypeOK, Findings
  <1>6. TypeOK'
    <2>1. final' \subseteq Findings
      BY DEF Collect, IInv, TypeOK, Findings
    <2>2. QED
      BY <1>5, <2>1 DEF Collect, IInv, TypeOK, After
  <1>7. pc = "collect" /\ pc' = "route"
    BY DEF Collect, After
  <1>8. OnlyBlockedOut'
    BY <1>7 DEF Collect, OnlyBlockedOut, Findings, IInv
  <1>12. IdsKept'
    BY <1>1, DispositionAssumption DEF IInv, IdsKept, Findings
  <1>13. DistinctIds'
    <2>1. PICK number \in [Synthesised ->
                              (top + 1) .. (top + Cardinality(Synthesised))] :
             /\ \A f, g \in Synthesised : number[f] = number[g] => f = g
             /\ id' = [f \in Findings |->
                          IF f \in Synthesised THEN number[f] ELSE id[f]]
      BY <1>1
    <2>2. final' = final \cup Synthesised /\ final \subseteq Findings
      BY DEF Collect, IInv, TypeOK
    <2>3. \A f \in Synthesised : id'[f] = number[f] /\ id'[f] > top
      BY <1>2, <1>3, <2>1 DEF Findings
    <2>4. \A f \in final \ Synthesised : id'[f] = id[f] /\ id'[f] <= top
      BY <1>1, <2>1, <2>2 DEF Taken
    <2>5. \A f \in final : id[f] \in Nat
      BY <2>2 DEF IInv, TypeOK
    <2>6. ASSUME NEW f \in Synthesised, NEW g \in final \ Synthesised
          PROVE  id'[f] # id'[g]
      <3>1. id'[g] \in Nat /\ id'[g] <= top
        BY <2>4, <2>5
      <3>2. number[f] \in (top + 1) .. (top + Cardinality(Synthesised))
        BY <2>1
      <3>3. QED
        BY <1>2, <1>3, <2>3, <3>1, <3>2
    <2>7. \A f, g \in final : id[f] = id[g] => f = g
      BY DEF IInv, BucketsPartition, DistinctIds
    <2>8. QED
      BY <2>1, <2>2, <2>3, <2>4, <2>6, <2>7 DEF DistinctIds
  <1>9. IInv'
    BY <1>6, <1>7, <1>8, <1>12, <1>13
    DEF Collect, IInv, BucketsPartition, StrandedMerged, ConfirmedEligible, BackThenKept,
      NothingDropped, Reviewed, TableMergesStay, NothingMergedYet, MergedGone,
      Merged, NothingRoutedYet, Rows, Merging, CountKept, CountTaken
  <1>10. LadderStep
    BY DEF Collect, LadderStep, Ladder!vars, Place, Merged, Rows, BucketOf
  <1>11. QED
    BY <1>9, <1>10

LEMMA RouteInv ==
    ASSUME IInv, Route
    PROVE  IInv' /\ LadderStep
  <1>1. \A b \in Buckets :
           buckets'[b] = {f \in final : Derived(f, Propagated) = b}
    BY DEF Route
  <1>2. Rows' = final'
    BY <1>1, DerivedBucket DEF Route, Rows
  <1>3. Disjoint'
    <2> SUFFICES ASSUME NEW b \in Buckets, NEW c \in Buckets, b # c,
                        NEW f \in buckets'[b] \cap buckets'[c]
                 PROVE  FALSE
      BY DEF Disjoint
    <2>1. Derived(f, Propagated) = b /\ Derived(f, Propagated) = c
      BY <1>1
    <2>2. QED
      BY <2>1
  <1>4. ConfirmedEligible'
    BY <1>1, DerivedBucket DEF Route, ConfirmedEligible, Buckets
  <1>5. TypeOK'
    <2>1. buckets' \in [Buckets -> SUBSET Findings]
      BY DEF Route, IInv, TypeOK
    <2>2. Propagated \subseteq Findings
      BY DEF Propagated, IInv, TypeOK
    <2>3. violating' \subseteq Findings
      BY <2>1 DEF Route, Buckets
    <2>4. QED
      BY <2>1, <2>2, <2>3 DEF Route, IInv, TypeOK, After
  <1>6. pc = "route" /\ pc' = "reconcile"
    BY DEF Route, After
  <1>7. IInv'
    BY <1>2, <1>3, <1>4, <1>5, <1>6
    DEF Route, IInv, BucketsPartition, DistinctIds, IdsKept, StrandedMerged,
      BackThenKept, NothingDropped, Reviewed,
      TableMergesStay, OnlyBlockedOut, Pending, NothingMergedYet, MergedGone,
      Merged, NothingRoutedYet, Merging, CountKept, CountTaken
  <1>8. LadderStep
    <2>1. \A b \in Buckets : buckets[b] = {}
      BY <1>6 DEF IInv, NothingRoutedYet, Rows
    <2>2. /\ Rows = {} /\ Merged = {} /\ Merged' = {} /\ Disjoint
          /\ UNCHANGED <<kind, overruled>>
      BY <1>6, <2>1
      DEF IInv, NothingRoutedYet, NothingMergedYet, Merging, Merged, Route,
        Disjoint
    <2>3. ASSUME NEW f \in final PROVE Ladder!Enter(f)
      <3>1. f \in Findings
        BY DEF IInv, TypeOK
      <3>2. Place[f] = "outside"
        BY <2>2, <3>1 DEF Place
      <3>3. PICK b \in Buckets : f \in buckets'[b]
        BY <1>2 DEF Route, Rows
      <3>4. Place'[f] = b
        BY <1>3, <1>7, <3>1, <3>3, PlaceIsPrimed DEF IInv
      <3>5. b = "confirmed" => Eligible(kind[f])
        BY <1>1, <3>3, DerivedBucket
      <3>6. QED
        BY <3>1, <3>2, <3>4, <3>5
        DEF Ladder!Enter, Ladder!Buckets, Buckets
    <2>4. ASSUME NEW f \in Findings \ final PROVE Place'[f] = Place[f]
      <3>1. f \notin Rows' \cup Merged'
        BY <1>2, <2>2 DEF Route
      <3>2. Place'[f] = "outside"
        BY <1>3, <1>7, <3>1, PlaceIsPrimed DEF IInv
      <3>3. QED
        BY <2>2, <3>2 DEF Place
    <2>5. QED
      BY <2>2, <2>3, <2>4, AdvanceStep
  <1>9. QED
    BY <1>7, <1>8

(* The blocked findings that return are no rows yet.                       *)
LEMMA ReviewBlockedInv ==
    ASSUME IInv, ReviewBlocked
    PROVE  IInv' /\ LadderStep
  <1>1. /\ pc = "blocked" /\ pc' = "finalize"
        /\ Rows = final /\ Disjoint /\ absorbed = {} /\ stranded = {}
    BY DEF ReviewBlocked, After, IInv, BucketsPartition, NothingMergedYet, Merging
  <1>2. Returning \cap Rows = {} /\ Returning \subseteq Findings
    BY DispositionAssumption
    DEF Returning, IInv, TypeOK, Findings
  <1>3. \A b \in Buckets :
           buckets'[b] = IF b = "inconclusive" THEN buckets[b] \cup Returning
                         ELSE buckets[b]
    BY DEF ReviewBlocked, IInv, TypeOK
  <1>4. Rows' = Rows \cup Returning
    BY <1>3 DEF Rows, Buckets
  <1>5. Disjoint'
    <2>1. \A b \in Buckets : buckets[b] \cap Returning = {}
      BY <1>2 DEF Rows
    <2>2. QED
      BY <1>1, <1>3, <2>1 DEF Disjoint
  <1>6. TypeOK'
    <2>1. \A b \in Buckets : buckets'[b] \subseteq Findings
      BY <1>2, <1>3 DEF IInv, TypeOK
    <2>2. buckets' \in [Buckets -> SUBSET Findings]
      BY <2>1 DEF ReviewBlocked, IInv, TypeOK
    <2>3. QED
      BY <1>2, <2>2 DEF ReviewBlocked, IInv, TypeOK, After
  <1>7. NothingDropped'
    <2> SUFFICES ASSUME NEW f \in Findings \ (Rows \cup Returning)
                 PROVE  f \in blocked
                        /\ \E g \in Findings \ {f} : id[g] = id[f]
      BY <1>1, <1>4 DEF NothingDropped, Merged, ReviewBlocked
    <2>1. f \in blocked
      BY <1>1 DEF IInv, OnlyBlockedOut, Pending, Findings
    <2>2. PICK g \in Rows : id[g] = id[f]
      BY <2>1 DEF Returning
    <2>3. g \in Findings /\ g # f
      BY DEF IInv, TypeOK, Rows
    <2>4. QED
      BY <2>1, <2>2, <2>3
  <1>11. DistinctIds'
    <2>1. Returning \subseteq Reported
      BY DispositionAssumption DEF Returning, IInv, TypeOK
    <2>2. \A f, g \in Returning : id[f] = id[g] => f = g
      BY <2>1, DispositionAssumption DEF IInv, IdsKept
    <2>3. \A f \in Returning, g \in final : id[f] # id[g]
      BY <1>1 DEF Returning
    <2>4. \A f, g \in final : id[f] = id[g] => f = g
      BY DEF IInv, BucketsPartition, DistinctIds
    <2>5. final' = final \cup Returning /\ id' = id
      BY DEF ReviewBlocked
    <2>6. QED
      BY <2>2, <2>3, <2>4, <2>5 DEF DistinctIds
  <1>8. IInv'
    BY <1>1, <1>3, <1>4, <1>5, <1>6, <1>7, <1>11
    DEF ReviewBlocked, IdsKept, StrandedMerged, IInv, BucketsPartition, ConfirmedEligible, BackThenKept,
      Buckets,
      TableMergesStay, OnlyBlockedOut, Pending, NothingMergedYet, MergedGone,
      Merged, NothingRoutedYet, CountKept, CountTaken
  <1>9. LadderStep
    <2>1. /\ MergedGone /\ MergedGone' /\ Merged = {} /\ Merged' = {}
          /\ UNCHANGED <<kind, overruled>>
      BY <1>1, <1>8 DEF IInv, Merged, ReviewBlocked
    <2>2. ASSUME NEW f \in Returning PROVE Ladder!Enter(f)
      <3>1. Place[f] = "outside"
        BY <1>1, <1>2, <2>1, PlaceIs
      <3>2. Place'[f] = "inconclusive"
        BY <1>2, <1>3, <1>5, <2>1, PlaceIsPrimed DEF Buckets
      <3>3. QED
        BY <3>1, <3>2 DEF Ladder!Enter, Ladder!Buckets
    <2>3. ASSUME NEW f \in Findings \ Returning PROVE Place'[f] = Place[f]
      <3>1. CASE f \in Rows
        <4>1. PICK b \in Buckets : f \in buckets[b]
          BY <3>1 DEF Rows
        <4>2. f \in buckets'[b]
          BY <1>3, <4>1
        <4>3. QED
          BY <1>1, <1>5, <2>1, <4>1, <4>2, PlaceIs, PlaceIsPrimed
      <3>2. CASE f \notin Rows
        BY <1>1, <1>4, <1>5, <2>1, <3>2, PlaceIs, PlaceIsPrimed
      <3>3. QED
        BY <3>1, <3>2
    <2>4. QED
      BY <2>1, <2>2, <2>3, AdvanceStep
  <1>10. QED
    BY <1>8, <1>9

-----------------------------------------------------------------------------
(* Merging: the rows D go, each into a row that stays, and into one of the *)
(* findings table if it was there itself.                                  *)
Merges(D, rep) ==
    /\ D \subseteq Rows
    /\ \A f \in D : /\ rep[f] \in Rows \ D
                    /\ BucketOf(f) \in Table => BucketOf(rep[f]) \in Table
    /\ Leave(D, rep)
    /\ \/ /\ final' = {f \in final : id[f] \notin {id[g] : g \in D}}
          /\ UNCHANGED stranded
       \/ /\ pc = "dedup" /\ UNCHANGED final
          /\ stranded' = D

(* Where the rows of the table that were merged went.                      *)
LEMMA MergesTable ==
    ASSUME IInv, pc \notin {"collect", "route"},
           NEW D, NEW rep, Merges(D, rep)
    PROVE  TableMergesStay'
  <1>1. Disjoint
    BY DEF IInv, BucketsPartition
  <1>2. buckets' = [b \in Buckets |-> buckets[b] \ D]
    BY DEF Merges, Leave
  <1>3. \A f \in Rows \ D : BucketOf(f) \in Table =>
           f \in buckets'["confirmed"] \cup buckets'["review"]
    <2> SUFFICES ASSUME NEW f \in Rows \ D, BucketOf(f) \in Table
                 PROVE  f \in buckets'["confirmed"] \cup buckets'["review"]
      OBVIOUS
    <2>1. f \in buckets[BucketOf(f)]
      BY BucketOfRow
    <2>2. QED
      BY <1>2, <2>1 DEF Table, Buckets
  <1> SUFFICES ASSUME NEW m \in absorbed', m.from \in Table
               PROVE  \/ m.rep \in (buckets["confirmed"] \cup buckets["review"]
                                    \cup overruled)'
                      \/ \E n \in absorbed' : n.row = m.rep /\ n.from \in Table
    BY DEF TableMergesStay
  <1>4. CASE m \in absorbed
    <2>1. CASE m.rep \in D /\ m.rep \in buckets["confirmed"]
                                        \cup buckets["review"]
      <3> DEFINE n == [row |-> m.rep, rep |-> rep[m.rep],
                       from |-> BucketOf(m.rep)]
      <3>1. n \in absorbed'
        BY <2>1 DEF Merges, Leave
      <3>2. n.row = m.rep /\ n.from \in Table
        BY <1>1, <2>1, BucketOfIs DEF Buckets, Table
      <3>3. QED
        BY <3>1, <3>2
    <2>2. CASE m.rep \notin D
      BY <1>2, <1>4, <2>2 DEF IInv, TableMergesStay, Merges, Leave, Buckets
    <2>3. CASE m.rep \notin buckets["confirmed"] \cup buckets["review"]
      BY <1>4, <2>3 DEF IInv, TableMergesStay, Merges, Leave
    <2>4. QED
      BY <2>1, <2>2, <2>3
  <1>5. CASE m \notin absorbed
    <2>1. PICK f \in D : m = [row |-> f, rep |-> rep[f], from |-> BucketOf(f)]
      BY <1>5 DEF Merges, Leave
    <2>2. rep[f] \in Rows \ D /\ BucketOf(rep[f]) \in Table
      BY <2>1 DEF Merges
    <2>3. QED
      BY <1>3, <2>1, <2>2
  <1>6. QED
    BY <1>4, <1>5

LEMMA MergesInv ==
    ASSUME IInv, pc \in {"dedup", "xdedup", "llm"},
           pc' \in {"xdedup", "llm", "counts"},
           NEW D, NEW rep, Merges(D, rep)
    PROVE  IInv'
  <1>1. /\ \A b \in Buckets : buckets'[b] = buckets[b] \ D
        /\ Rows = final \ stranded /\ Disjoint /\ D \subseteq Rows
        /\ pc = "dedup" => stranded = {}
    BY DEF Merges, Leave, IInv, BucketsPartition, NothingMergedYet, Merging
  <1>0. \/ final' = final \ D /\ stranded' = stranded
        \/ pc = "dedup" /\ final' = final /\ stranded' = D
    <2>1. \A f \in final : (id[f] \in {id[g] : g \in D}) <=> f \in D
      BY <1>1 DEF IInv, BucketsPartition, DistinctIds
    <2>2. QED
      BY <2>1 DEF Merges
  <1>2. Rows' = Rows \ D
    BY <1>1 DEF Rows
  <1>3. Disjoint'
    BY <1>1 DEF Disjoint
  <1>4. BucketsPartition' /\ ConfirmedEligible'
    <2>1. Rows' = final' \ stranded'
      BY <1>0, <1>1, <1>2
    <2>2. DistinctIds'
      BY <1>0 DEF IInv, BucketsPartition, DistinctIds, Merges, Leave
    <2>3. ConfirmedEligible'
      BY <1>1 DEF IInv, ConfirmedEligible, Merges, Leave, Buckets
    <2>4. QED
      BY <1>3, <2>1, <2>2, <2>3 DEF BucketsPartition
  <1>5. Merged' = Merged \cup D
    <2>1. absorbed' = absorbed \cup
             {[row |-> f, rep |-> rep[f], from |-> BucketOf(f)] : f \in D}
      BY DEF Merges, Leave
    <2>2. \A m \in absorbed' : m.row \in Merged \cup D
      BY <2>1 DEF Merged
    <2>3. ASSUME NEW f \in D PROVE f \in Merged'
      <3>1. [row |-> f, rep |-> rep[f], from |-> BucketOf(f)] \in absorbed'
        BY <2>1
      <3>2. QED
        BY <3>1 DEF Merged
    <2>4. QED
      BY <2>1, <2>2, <2>3 DEF Merged
  <1>6. BackThenKept'
    <2> SUFFICES ASSUME "blocked" \notin MayBeSkipped PROVE NothingDropped'
      BY DEF BackThenKept
    <2>1. \A f \in Findings \ (Rows \cup Merged) :
             f \in blocked /\ \E g \in Findings \ {f} : id[g] = id[f]
      BY DEF IInv, BackThenKept, NothingDropped, Reviewed
    <2>2. Rows' \cup Merged' = Rows \cup Merged
      BY <1>2, <1>5 DEF Merges
    <2>3. \A m \in absorbed' : m.rep \in Rows \cup Merged
      BY DEF IInv, BackThenKept, NothingDropped, Reviewed, Merges, Leave
    <2>4. QED
      BY <2>1, <2>2, <2>3 DEF NothingDropped, Merges, Leave
  <1>7. TypeOK'
    <2>1. buckets' \in [Buckets -> SUBSET Findings]
      BY DEF Merges, Leave, IInv, TypeOK
    <2>2. \A f \in D : /\ f \in Findings /\ rep[f] \in Findings
                       /\ BucketOf(f) \in Buckets
      BY BucketOfRow DEF Merges, IInv, TypeOK, Rows
    <2>3. absorbed' \subseteq [row : Findings, rep : Findings, from : Buckets]
      BY <2>2 DEF Merges, Leave, IInv, TypeOK
    <2>4. final' \subseteq Findings /\ stranded' \subseteq Findings
      BY <1>0, <2>2 DEF IInv, TypeOK
    <2>5. QED
      BY <2>1, <2>3, <2>4 DEF Merges, Leave, IInv, TypeOK, After
  <1>8. MergedGone'
    BY <1>2, <1>5 DEF IInv, MergedGone
  <1>10. StrandedMerged'
    BY <1>0, <1>1, <1>5 DEF IInv, StrandedMerged, MergedGone
  <1>11. IdsKept'
    BY DEF IInv, IdsKept, Merges, Leave
  <1>9. QED
    BY <1>4, <1>6, <1>7, <1>8, <1>10, <1>11, MergesTable
    DEF IInv, OnlyBlockedOut, Pending, NothingMergedYet, NothingRoutedYet,
      Merging, CountKept, CountTaken

LEMMA MergesClimbs ==
    ASSUME IInv, IInv', pc \in {"dedup", "xdedup", "llm"},
           pc' \in {"xdedup", "llm", "counts"},
           NEW D, NEW rep, Merges(D, rep)
    PROVE  LadderStep
  <1>1. /\ \A b \in Buckets : buckets'[b] = buckets[b] \ D
        /\ Disjoint /\ Disjoint' /\ MergedGone /\ MergedGone'
        /\ UNCHANGED <<kind, overruled>>
    BY DEF Merges, Leave, IInv, BucketsPartition
  <1>2. D \subseteq Findings /\ D \subseteq Merged' /\ Merged \subseteq Merged'
    <2>1. absorbed' = absorbed \cup
             {[row |-> f, rep |-> rep[f], from |-> BucketOf(f)] : f \in D}
      BY DEF Merges, Leave
    <2>2. ASSUME NEW f \in D PROVE f \in Merged'
      <3>1. [row |-> f, rep |-> rep[f], from |-> BucketOf(f)] \in absorbed'
        BY <2>1
      <3>2. QED
        BY <3>1 DEF Merged
    <2>3. QED
      BY <2>1, <2>2 DEF Merged, Merges, IInv, TypeOK, Rows
  <1>3. Merged' \subseteq Merged \cup D
    BY DEF Merges, Leave, Merged
  <1>4. ASSUME NEW f \in Findings \ D PROVE Place'[f] = Place[f]
    <2>1. CASE f \in Rows
      BY <1>1, <2>1, PlaceIs, PlaceIsPrimed DEF Rows
    <2>2. CASE f \in Merged
      BY <1>1, <1>2, <2>2, PlaceIs, PlaceIsPrimed
    <2>3. CASE f \notin Rows \cup Merged
      <3>1. f \notin Rows' \cup Merged'
        BY <1>1, <1>3, <2>3 DEF Rows
      <3>2. QED
        BY <1>1, <2>3, <3>1, PlaceIs, PlaceIsPrimed
    <2>4. QED
      BY <2>1, <2>2, <2>3
  <1>5. ASSUME NEW f \in D PROVE Ladder!Merge(f)
    <2>1. Place[f] = BucketOf(f) /\ BucketOf(f) \in Buckets
      BY <1>1, <1>2, BucketOfRow, PlaceIs DEF Merges
    <2>2. Place'[f] = "merged"
      BY <1>1, <1>2, PlaceIsPrimed
    <2>3. rep[f] \in Findings /\ rep[f] \in Rows \ D /\ rep[f] # f
      BY DEF Merges, IInv, TypeOK, Rows
    <2>4. /\ Place'[rep[f]] = BucketOf(rep[f])
          /\ BucketOf(rep[f]) \in Buckets
      BY <1>1, <1>4, <2>3, BucketOfRow, PlaceIs
    <2>5. BucketOf(f) \in Table => BucketOf(rep[f]) \in Table
      BY DEF Merges
    <2>6. QED
      BY <2>1, <2>2, <2>3, <2>4, <2>5
      DEF Ladder!Merge, Ladder!Buckets, Ladder!Table, Buckets, Table
  <1>6. QED
    BY <1>1, <1>4, <1>5, AdvanceStep

(* A representative of the rows S that each of them is the same as.        *)
LEMMA KeptRep ==
    ASSUME NEW S, NEW K \in Kept(S), NEW f \in S
    PROVE  (CHOOSE g \in K : SameArtefact(f, g)) \in K
  BY DEF Kept

LEMMA DedupBucketsInv ==
    ASSUME IInv, DedupBuckets
    PROVE  IInv' /\ LadderStep
  <1> DEFINE Home(f, C, R) == IF f \in buckets["confirmed"] THEN C ELSE R
             Gone(C, R) == (buckets["confirmed"] \ C) \cup (buckets["review"] \ R)
             Rep(C, R) == [f \in Gone(C, R) |->
                             CHOOSE g \in Home(f, C, R) : SameArtefact(f, g)]
  <1>1. PICK C \in Kept(buckets["confirmed"]), R \in Kept(buckets["review"]) :
           Absorb(Gone(C, R), Rep(C, R))
    BY DEF DedupBuckets
  <1>2. /\ C \subseteq buckets["confirmed"] /\ R \subseteq buckets["review"]
        /\ Disjoint
    BY DEF Kept, DedupBuckets, IInv, BucketsPartition
  <1>3. Gone(C, R) \subseteq Rows
    BY DEF Rows, Buckets
  <1>4. ASSUME NEW f \in Gone(C, R)
        PROVE  /\ Rep(C, R)[f] \in Rows \ Gone(C, R)
               /\ BucketOf(Rep(C, R)[f]) \in Table
    <2>1. Rep(C, R)[f] \in Home(f, C, R)
      BY KeptRep
    <2>2. CASE Rep(C, R)[f] \in C
      BY <1>2, <2>2, BucketOfIs DEF Rows, Buckets, Table, Disjoint
    <2>3. CASE Rep(C, R)[f] \in R
      BY <1>2, <2>3, BucketOfIs DEF Rows, Buckets, Table, Disjoint
    <2>4. QED
      BY <2>1, <2>2, <2>3
  <1>5. Merges(Gone(C, R), Rep(C, R))
    BY <1>1, <1>3, <1>4 DEF Merges, Absorb
  <1>6. pc = "dedup" /\ pc' = "xdedup"
    BY DEF DedupBuckets, After
  <1>7. QED
    BY <1>5, <1>6, MergesInv, MergesClimbs

LEMMA DedupBrokenInv ==
    ASSUME IInv, DedupBroken
    PROVE  IInv' /\ LadderStep
  <1> DEFINE Gone(C) == buckets["confirmed"] \ C
             Rep(C) == [f \in Gone(C) |-> CHOOSE g \in C : SameArtefact(f, g)]
  <1>1. PICK C \in Kept(buckets["confirmed"]) :
           Leave(Gone(C), Rep(C)) /\ stranded' = Gone(C)
    BY DEF DedupBroken
  <1>2. C \subseteq buckets["confirmed"] /\ Disjoint
    BY DEF Kept, DedupBroken, IInv, BucketsPartition
  <1>3. Gone(C) \subseteq Rows
    BY DEF Rows, Buckets
  <1>4. ASSUME NEW f \in Gone(C)
        PROVE  /\ Rep(C)[f] \in Rows \ Gone(C)
               /\ BucketOf(Rep(C)[f]) \in Table
    <2>1. Rep(C)[f] \in C
      BY KeptRep
    <2>2. QED
      BY <1>2, <2>1, BucketOfIs DEF Rows, Buckets, Table
  <1>5. pc = "dedup" /\ pc' = "xdedup"
    BY DEF DedupBroken, After
  <1>6. Merges(Gone(C), Rep(C))
    BY <1>1, <1>3, <1>4, <1>5 DEF Merges, DedupBroken
  <1>7. QED
    BY <1>5, <1>6, MergesInv, MergesClimbs

LEMMA DedupAcrossInv ==
    ASSUME IInv, DedupAcross
    PROVE  IInv' /\ LadderStep
  <1> DEFINE All == {f \in Span : Spanning(f)}
             Rep(K) == [f \in All \ K |-> CHOOSE g \in K : SameArtefact(f, g)]
  <1>1. PICK K \in Kept(All) :
           /\ \A f \in Span, g \in K :
                 Spanning(f) /\ SameArtefact(f, g) => Above(g, f)
           /\ Absorb(All \ K, Rep(K))
    BY DEF DedupAcross
  <1>2. All \subseteq Rows /\ K \subseteq All /\ Disjoint
    BY DEF Kept, Span, Rows, Buckets, DedupAcross, IInv, BucketsPartition
  <1>3. ASSUME NEW f \in All \ K
        PROVE  /\ Rep(K)[f] \in Rows \ (All \ K)
               /\ BucketOf(f) \in Table => BucketOf(Rep(K)[f]) \in Table
    <2> DEFINE g == Rep(K)[f]
    <2>1. g \in K /\ SameArtefact(f, g)
      BY <1>3 DEF Kept
    <2>2. Above(g, f)
      BY <1>1, <2>1
    <2>3. ASSUME BucketOf(f) \in Table PROVE BucketOf(g) \in Table
      <3>1. f \in buckets[BucketOf(f)]
        BY <1>2, BucketOfRow
      <3>2. f \notin buckets["benign"]
        BY <1>2, <2>3, <3>1 DEF Disjoint, Table, Buckets
      <3>3. g \in buckets["confirmed"] \cup buckets["review"]
        BY <2>2, <3>2 DEF Above
      <3>4. QED
        BY <1>2, <3>3, BucketOfIs DEF Table, Buckets
    <2>4. QED
      BY <1>2, <2>1, <2>3
  <1>4. Merges(All \ K, Rep(K))
    BY <1>1, <1>2, <1>3 DEF Merges, Absorb
  <1>5. pc = "xdedup" /\ pc' = "llm"
    BY DEF DedupAcross, After
  <1>6. QED
    BY <1>4, <1>5, MergesInv, MergesClimbs

LEMMA MergeProposedInv ==
    ASSUME IInv, MergeProposed
    PROVE  IInv' /\ LadderStep
  <1>1. PICK T \in LLMTables :
           \E f, g \in UNION {buckets[b] : b \in T} :
              f # g /\ Absorb({f}, [h \in {f} |-> g])
    BY DEF MergeProposed
  <1>2. PICK f \in UNION {buckets[b] : b \in T},
             g \in UNION {buckets[b] : b \in T} :
           f # g /\ Absorb({f}, [h \in {f} |-> g])
    BY <1>1
  <1>3. Disjoint /\ T \subseteq Buckets
    BY DEF MergeProposed, IInv, BucketsPartition, LLMTables, Table, Buckets
  <1>4. f \in Rows /\ g \in Rows /\ BucketOf(f) \in T /\ BucketOf(g) \in T
    BY <1>3, BucketOfIs DEF Rows
  <1>5. BucketOf(f) \in Table => BucketOf(g) \in Table
    BY <1>4 DEF LLMTables, Table
  <1>6. Merges({f}, [h \in {f} |-> g])
    BY <1>2, <1>4, <1>5 DEF Merges, Absorb
  <1>7. QED
    BY <1>6, MergesInv, MergesClimbs DEF MergeProposed

-----------------------------------------------------------------------------
(* Passes that leave every row where it is.                                *)
Still == /\ \/ /\ pc \in DOMAIN After \ {"collect", "route"}
               /\ pc = "blocked" => "blocked" \in MayBeSkipped
               /\ pc' = After[pc]
            \/ pc \in {"reconcile", "propagate"} /\ pc' = "late"
            \/ /\ pc = "partition" /\ pc' \in {"report", "aborted"}
               /\ pc' = "report" => stranded = {}
            \/ pc = "analyst" /\ pc' = "aborted"
         /\ UNCHANGED <<inputs, id, final, buckets, absorbed, stranded, overruled>>
         /\ CountKept'

LEMMA StillInv ==
    ASSUME IInv, Still, TypeOK'
    PROVE  IInv'
  <1>1. /\ pc \notin {"collect", "route"}
        /\ pc' \in Reviewed => pc \in Reviewed \/ "blocked" \in MayBeSkipped
        /\ pc' \in Pending \cup {"collect"} => pc \in Pending
        /\ pc' \notin Merging => pc \notin Merging
        /\ pc' \notin {"collect", "route"}
    BY DEF Still, After, Reviewed, Pending, Merging, IInv, TypeOK
  <1>2. pc' = "report" => stranded = {}
    BY DEF Still, After
  <1>3. QED
    BY <1>1, <1>2 DEF Still, IInv, BucketsPartition, DistinctIds,
      ConfirmedEligible,
      BackThenKept, NothingDropped, Merged, TableMergesStay, OnlyBlockedOut,
      NothingMergedYet, MergedGone, NothingRoutedYet, Rows, Disjoint,
      IdsKept, StrandedMerged

LEMMA StillClimbs == ASSUME Still PROVE LadderStep
  <1>1. Place' = Place /\ UNCHANGED <<kind, overruled>>
    BY DEF Still, Place, Merged, Rows, BucketOf
  <1>2. QED
    BY <1>1 DEF LadderStep, Ladder!vars

LEMMA EndMergingInv == ASSUME IInv, EndMerging PROVE IInv' /\ LadderStep
  <1>1. pc = "llm" /\ pc' = "counts"
    BY DEF EndMerging, After
  <1>2. TypeOK'
    BY <1>1 DEF EndMerging, IInv, TypeOK, After
  <1>3. Still
    BY <1>1 DEF EndMerging, Still, After, CountKept, CountTaken
  <1>4. QED
    BY <1>2, <1>3, StillInv, StillClimbs

LEMMA PrintCountsInv == ASSUME IInv, PrintCounts PROVE IInv' /\ LadderStep
  <1>1. pc = "counts" /\ pc' = "analyst"
    BY DEF PrintCounts, After
  <1>2. counts' \in [Buckets -> Nat]
    BY CountedType DEF PrintCounts, IInv, TypeOK
  <1>3. TypeOK'
    BY <1>1, <1>2 DEF PrintCounts, IInv, TypeOK, After
  <1>4. CountKept'
    BY DEF PrintCounts, CountKept, Counted, Buckets
  <1>5. Still
    BY <1>1, <1>4 DEF PrintCounts, Still, After
  <1>6. QED
    BY <1>3, <1>5, StillInv, StillClimbs

LEMMA ApproveInv == ASSUME IInv, Approve PROVE IInv' /\ LadderStep
  <1>1. pc = "analyst" /\ pc' = "synthesis"
    BY DEF Approve, After
  <1>2. counts' \in [Buckets -> Nat]
    BY CountedType DEF Approve, IInv, TypeOK
  <1>3. TypeOK'
    BY <1>1, <1>2 DEF Approve, IInv, TypeOK, After
  <1>4. CountKept'
    BY <1>1 DEF Approve, IInv, CountKept, CountTaken, Counted, Buckets
  <1>5. Still
    BY <1>1, <1>4 DEF Approve, Still, After
  <1>6. QED
    BY <1>3, <1>5, StillInv, StillClimbs

LEMMA QuitInv == ASSUME IInv, Quit PROVE IInv' /\ LadderStep
  <1>1. TypeOK'
    BY DEF Quit, IInv, TypeOK
  <1>2. Still
    BY DEF Quit, Still, CountKept, CountTaken
  <1>3. QED
    BY <1>1, <1>2, StillInv, StillClimbs

LEMMA PartitionGateInv == ASSUME IInv, PartitionGate PROVE IInv' /\ LadderStep
  <1>1. TypeOK'
    BY DEF PartitionGate, IInv, TypeOK
  <1>2. CountKept'
    BY DEF PartitionGate, IInv, CountKept, CountTaken
  <1>3. pc' = "report" => stranded = {}
    BY DEF PartitionGate, IInv, StrandedMerged, MergedGone
  <1>4. Still
    BY <1>2, <1>3 DEF PartitionGate, Still
  <1>5. QED
    BY <1>1, <1>4, StillInv, StillClimbs

(* "blocked" may be skipped too: then the findings stay out of the rows.   *)
LEMMA SkipInv == ASSUME IInv, Skip PROVE IInv' /\ LadderStep
  <1>1. pc \in Optional
    BY DispositionAssumption DEF Skip
  <1>2. pc' \in DOMAIN After
    BY <1>1 DEF Skip, Optional, After
  <1>3. TypeOK'
    BY <1>2 DEF Skip, IInv, TypeOK
  <1>4. CountKept'
    BY <1>1 DEF Skip, IInv, CountKept, CountTaken, Optional, After
  <1>5. Still
    BY <1>1, <1>4 DEF Skip, Still, Optional, After
  <1>6. QED
    BY <1>3, <1>5, StillInv, StillClimbs

LEMMA NextInv == ASSUME IInv, [Next]_vars PROVE IInv' /\ LadderStep
  <1>1. CASE UNCHANGED vars
    <2>1. IInv'
      BY <1>1 DEF vars, IInv, TypeOK, BucketsPartition, DistinctIds, IdsKept,
        StrandedMerged, ConfirmedEligible,
        BackThenKept, NothingDropped, TableMergesStay, OnlyBlockedOut,
        NothingMergedYet, MergedGone, Merged, NothingRoutedYet, CountKept,
        Rows, Disjoint
    <2>2. LadderStep
      BY <1>1 DEF vars, LadderStep, Ladder!vars, Place, Merged, Rows, BucketOf
    <2>3. QED
      BY <2>1, <2>2
  <1>2. CASE Next
    BY <1>2, CollectInv, RouteInv, DemoteContradictedInv,
      PropagateEntitiesInv, DemoteDependentsInv, LateBenignInv, AlignInv,
      ReviewBlockedInv, FinalizeInv, OneTableInv, PrecisionGatesInv,
      DedupBucketsInv, DedupBrokenInv, DedupAcrossInv, MergeProposedInv, EndMergingInv,
      PrintCountsInv, OverrideInv, ApproveInv, QuitInv, DemoteUnfoundedInv,
      FidelityInv, PartitionGateInv, SkipInv
    DEF Next
  <1>3. QED
    BY <1>1, <1>2

LEMMA SpecInv == Spec => []IInv
  BY InitInv, NextInv, PTL DEF Spec

-----------------------------------------------------------------------------
(* Step 13 keeps its types.                                                *)
THEOREM TypeCorrect == Spec => []TypeOK
  BY SpecInv, PTL DEF IInv

(* Whatever passes are switched off or fail, and whatever the AI answers,  *)
(* the buckets partition findings_final between any two passes and its ids *)
(* are distinct; if Step 13AC raises half way the run never reports.       *)
THEOREM PartitionTheorem == Spec => []BucketsPartition
  BY SpecInv, PTL DEF IInv

(* Only an analyst confirms a finding whose evidence is not eligible.      *)
THEOREM EligibleTheorem == Spec => []ConfirmedEligible
  BY SpecInv, PTL DEF IInv

(* If the blocked findings are sent back at all, nothing disappears but by *)
(* a merge, or because its number was taken.                               *)
THEOREM DroppedTheorem ==
    ASSUME "blocked" \notin MayBeSkipped
    PROVE  Spec => []NothingDropped
  <1>1. IInv => NothingDropped
    BY DEF IInv, BackThenKept
  <1>2. QED
    BY <1>1, SpecInv, PTL

(* What a row of the findings table is merged into stays in that table.    *)
THEOREM TableTheorem == Spec => []TableMergesStay
  BY SpecInv, PTL DEF IInv

(* The confirmed count of the report is that of its confirmed bucket.      *)
THEOREM CountTheorem == Spec => []ConfirmedCountRight
  <1>1. IInv => ConfirmedCountRight
    BY DEF IInv, CountKept, CountTaken, ConfirmedCountRight
  <1>2. QED
    BY <1>1, SpecInv, PTL

(* Step 13 implements the ladder: no pass confirms without evidence, makes *)
(* a narrative, calls a confirmed finding inconclusive, or lets a row      *)
(* disappear but into another one.                                         *)
THEOREM LadderTheorem == Spec => KeepsLadder
  <1>1. Init => Ladder!Init
    <2> SUFFICES ASSUME Init PROVE Ladder!Init
      OBVIOUS
    <2>1. Rows = {} /\ Merged = {}
      BY DEF Init, Rows, Merged
    <2>2. QED
      BY <2>1 DEF Init, Ladder!Init, Place
  <1>2. IInv /\ [Next]_vars => [Ladder!Next]_(Ladder!vars)
    BY NextInv DEF LadderStep
  <1>3. QED
    BY <1>1, <1>2, SpecInv, PTL DEF Spec, KeepsLadder, Ladder!Spec
================================================================================
