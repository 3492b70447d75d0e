---------------------------- MODULE EnsembleProofs ----------------------------
(***************************************************************************)
(* Proofs about the ensemble: it implements Survey, what it learns about *)
(* a model is used as intended, for any roster, any findings and any order   *)
(* of completion; its report is a function of the answers and names the     *)
(* members that gave them, and every ensemble ends.                         *)
(***************************************************************************)
EXTENDS Ensemble, Descent, SequenceTheorems

-----------------------------------------------------------------------------
(* The inductive invariant.  A thread runs only once it was submitted, the  *)
(* first one has ended under the full stagger when another is, and a        *)
(* reserve is read only from what an answered retry taught.                 *)
Started ==
  \A m \in Members :
    /\ call[m] = "idle" => calls[m] = 0 /\ reserve[m] = "no"
    /\ call[m] # "idle" => m <= submitted
    /\ reserve[m] = "yes" => calls[m] <= 1

FirstEndsFirst == full = "yes" /\ submitted > 1 => call[1] = "done"

AnsweredTeach ==
  /\ \A m \in answered : call[m] = "done" /\ ModelOf[m] \in learned
  /\ \A x \in learned : \E m \in answered : ModelOf[m] = x

Spared ==
  full = "yes" /\ 1 \in answered =>
    \A m \in Members \ {1} :
      ModelOf[m] = ModelOf[1] /\ call[m] # "idle" => reserve[m] = "yes"

(* order lists the entries of per_model without repetition, and every       *)
(* fingerprint in them has a first entry.                                   *)
InOrder ==
  /\ \A i \in 1..Len(order) : order[i] \in DOMAIN perModel
  /\ \A m \in DOMAIN perModel : \E i \in 1..Len(order) : order[i] = m
  /\ \A i, j \in 1..Len(order) : order[i] = order[j] => i = j

Named == [m \in DOMAIN perModel |-> Keys(m)]

HasFirst ==
  \A m \in DOMAIN perModel : \A k \in Named[m] : \E i \in 1..Len(order) :
    k \in Named[order[i]] /\ \A j \in 1..(i - 1) : k \notin Named[order[j]]

Closed == stage # "running" => DOMAIN perModel = Members

Learning == Started /\ FirstEndsFirst /\ AnsweredTeach /\ Spared /\ LearnedFromAnswer
(* A merged fingerprint is credited to one of its finders.                  *)
Credited == stage = "merged" => \A k \in DOMAIN report : survivor[k] \in report[k]

Merging  == InOrder /\ HasFirst /\ Closed /\ Credited

IInv == TypeOK /\ Learning /\ Merging

-----------------------------------------------------------------------------
(* Types.                                                                  *)

LEMMA MembersAre == Members \subseteq Nat /\ 1 \in Members
  BY EnsembleAssumption DEF Members

LEMMA OutcomeType ==
    ASSUME NEW r \in Outcomes
    PROVE  r \in [sized : {"yes", "no"}, findings : SUBSET Finding]
  BY EnsembleAssumption DEF Outcomes, List, Unusable

LEMMA EmptyOutcome == List({}) \in Outcomes
  BY DEF Outcomes

LEMMA TypeInit == Init => TypeOK
  <1> SUFFICES ASSUME Init PROVE TypeOK
    OBVIOUS
  <1>1. result \in [Members -> [sized : {"yes", "no"}, findings : SUBSET Finding]]
    BY EmptyOutcome, OutcomeType DEF Init
  <1>2. perModel \in [DOMAIN perModel -> SUBSET Finding] /\ DOMAIN perModel \subseteq Members
    BY DEF Init, NoEntries
  <1>3. order \in Seq(Members)
    BY EmptySeq DEF Init
  <1>4. submitted \in 0..NumMembers
    BY EnsembleAssumption DEF Init
  <1>5. QED
    BY <1>1, <1>2, <1>3, <1>4 DEF Init, TypeOK

LEMMA TypeNext == TypeOK /\ [Next]_vars => TypeOK'
  <1> SUFFICES ASSUME TypeOK, [Next]_vars PROVE TypeOK'
    OBVIOUS
  <1>1. CASE Submit
    BY <1>1, EnsembleAssumption DEF TypeOK, Submit, threads
  <1>2. CASE Merge
    BY <1>2 DEF TypeOK, Merge, threads
  <1>3. CASE MergeRaises
    BY <1>3 DEF TypeOK, MergeRaises, threads
  <1>4. ASSUME NEW m \in Members, Collect(m) PROVE TypeOK'
    <2>1. order' \in Seq(Members)
      BY <1>4, AppendProperties DEF TypeOK, Collect
    <2>2. DOMAIN perModel' = DOMAIN perModel \cup {m}
      BY <1>4 DEF Collect
    <2>3. result[m].findings \in SUBSET Finding
      BY DEF TypeOK
    <2>4. perModel' \in [DOMAIN perModel' -> SUBSET Finding]
      BY <1>4, <2>2, <2>3 DEF TypeOK, Collect
    <2>5. QED
      BY <1>4, <2>1, <2>2, <2>4 DEF TypeOK, Collect, threads
  <1>5. ASSUME NEW m \in Members, Begin(m) PROVE TypeOK'
    BY <1>5 DEF TypeOK, Begin, conductor
  <1>6. ASSUME NEW m \in Members, NEW r \in Outcomes, Finish(m, r)
        PROVE  /\ call' \in [Members -> {"idle", "first", "retry", "done"}]
               /\ result' \in [Members -> [sized : {"yes", "no"}, findings : SUBSET Finding]]
    BY <1>6, OutcomeType DEF TypeOK, Finish
  <1>7. ASSUME NEW m \in Members, Answer(m) PROVE TypeOK'
    BY <1>6, <1>7 DEF TypeOK, Answer, conductor
  <1>8. ASSUME NEW m \in Members, Fail(m) PROVE TypeOK'
    BY <1>6, <1>8, EmptyOutcome DEF TypeOK, Fail, conductor
  <1>9. ASSUME NEW m \in Members, Empty(m) PROVE TypeOK'
    BY <1>9 DEF TypeOK, Empty, conductor
  <1>10. ASSUME NEW m \in Members, RetryAnswer(m) PROVE TypeOK'
    <2>1. learned' \subseteq Models
      BY <1>10 DEF TypeOK, RetryAnswer, Models
    <2>2. QED
      BY <1>6, <1>10, <2>1 DEF TypeOK, RetryAnswer, conductor
  <1>11. ASSUME NEW m \in Members, RetryFail(m) PROVE TypeOK'
    BY <1>6, <1>11, EmptyOutcome DEF TypeOK, RetryFail, conductor
  <1>12. CASE UNCHANGED vars
    BY <1>12 DEF TypeOK, vars, conductor, threads
  <1>13. QED
    BY <1>1, <1>2, <1>3, <1>4, <1>5, <1>7, <1>8, <1>9, <1>10, <1>11, <1>12
    DEF Next, Conductor, Member

-----------------------------------------------------------------------------
(* What the threads learn from each other.                                 *)

LEMMA LearningInit == Init => Learning
  BY EnsembleAssumption DEF Init, Learning, Started, FirstEndsFirst, AnsweredTeach, Spared,
     LearnedFromAnswer

LEMMA SubmitLearning ==
    ASSUME TypeOK, Learning, Submit
    PROVE  Learning'
  <1>1. Started' /\ FirstEndsFirst'
    BY MembersAre DEF TypeOK, Learning, Submit, MaySubmit, threads, Started, FirstEndsFirst
  <1>2. AnsweredTeach' /\ Spared' /\ LearnedFromAnswer'
    BY DEF Learning, Submit, threads, AnsweredTeach, Spared, LearnedFromAnswer
  <1>3. QED
    BY <1>1, <1>2 DEF Learning

LEMMA BeginLearning ==
    ASSUME TypeOK, Learning, NEW m \in Members, Begin(m)
    PROVE  Learning'
  <1>1. m \notin answered /\ answered' = answered /\ learned' = learned
    BY DEF Learning, Begin, AnsweredTeach
  <1>2. Started' /\ FirstEndsFirst'
    BY MembersAre DEF TypeOK, Learning, Begin, conductor, Started, FirstEndsFirst
  <1>3. AnsweredTeach'
    BY <1>1 DEF TypeOK, Learning, Begin, AnsweredTeach
  <1>4. Spared'
    BY <1>1, MembersAre DEF TypeOK, Learning, Begin, conductor, AnsweredTeach, Spared
  <1>5. LearnedFromAnswer'
    BY <1>1 DEF TypeOK, Learning, Begin, AnsweredTeach, LearnedFromAnswer
  <1>6. QED
    BY <1>2, <1>3, <1>4, <1>5 DEF Learning

(* A thread that ends, or calls again without a reserve, teaches nothing.   *)
LEMMA QuietLearning ==
    ASSUME TypeOK, Learning, NEW m \in Members,
           Answer(m) \/ Fail(m) \/ Empty(m) \/ RetryFail(m)
    PROVE  Learning'
  <1>1. /\ UNCHANGED <<full, submitted, reserve, learned, answered>>
        /\ call[m] \in {"first", "retry"}
        /\ call' = [call EXCEPT ![m] = call'[m]] /\ call'[m] \in {"retry", "done"}
        /\ calls' = calls \/ (reserve[m] = "no" /\ calls' = [calls EXCEPT ![m] = 2])
    BY DEF TypeOK, Answer, Fail, Empty, RetryFail, Finish, conductor
  <1>2. m \notin answered
    BY <1>1 DEF Learning, AnsweredTeach
  <1>3. Started' /\ FirstEndsFirst'
    BY <1>1, MembersAre DEF TypeOK, Learning, Started, FirstEndsFirst
  <1>4. AnsweredTeach' /\ Spared' /\ LearnedFromAnswer'
    BY <1>1, <1>2 DEF TypeOK, Learning, AnsweredTeach, Spared, LearnedFromAnswer
  <1>5. QED
    BY <1>3, <1>4 DEF Learning

LEMMA RetryAnswerLearning ==
    ASSUME TypeOK, Learning, NEW m \in Members, RetryAnswer(m)
    PROVE  Learning'
  <1>1. /\ UNCHANGED <<full, submitted, reserve, calls>>
        /\ call[m] = "retry" /\ call' = [call EXCEPT ![m] = "done"]
        /\ learned' = learned \cup {ModelOf[m]} /\ answered' = answered \cup {m}
    BY DEF RetryAnswer, Finish, conductor
  <1>2. Started' /\ FirstEndsFirst'
    BY <1>1, MembersAre DEF TypeOK, Learning, Started, FirstEndsFirst
  <1>3. AnsweredTeach' /\ LearnedFromAnswer'
    BY <1>1 DEF TypeOK, Learning, AnsweredTeach, LearnedFromAnswer
  <1>4. Spared'
    <2>1. CASE m = 1 /\ full = "yes"
      <3>1. submitted <= 1
        BY <1>1, <2>1 DEF TypeOK, Learning, FirstEndsFirst
      <3>2. \A n \in Members \ {1} : call[n] = "idle"
        BY <3>1, MembersAre DEF TypeOK, Learning, Started, Members
      <3>3. QED
        BY <1>1, <2>1, <3>2 DEF TypeOK, Spared
    <2>2. CASE m # 1
      BY <1>1, <2>2 DEF TypeOK, Learning, Spared
    <2>3. CASE full # "yes"
      BY <1>1, <2>3 DEF Spared
    <2>4. QED
      BY <2>1, <2>2, <2>3
  <1>5. QED
    BY <1>2, <1>3, <1>4 DEF Learning

LEMMA LearningNext == TypeOK /\ Learning /\ [Next]_vars => Learning'
  <1> SUFFICES ASSUME TypeOK, Learning, [Next]_vars PROVE Learning'
    OBVIOUS
  <1>1. ASSUME UNCHANGED <<full, submitted, threads>> PROVE Learning'
    BY <1>1 DEF threads, Learning, Started, FirstEndsFirst, AnsweredTeach, Spared,
       LearnedFromAnswer
  <1>2. CASE Merge \/ MergeRaises \/ \E m \in Members : Collect(m)
    BY <1>1, <1>2 DEF Merge, MergeRaises, Collect
  <1>3. CASE UNCHANGED vars
    BY <1>1, <1>3 DEF vars, conductor
  <1>4. QED
    BY <1>2, <1>3, SubmitLearning, BeginLearning, QuietLearning, RetryAnswerLearning
    DEF Next, Conductor, Member

-----------------------------------------------------------------------------
(* Collection and merge.                                                   *)

LEMMA NamedSame == perModel' = perModel => Named' = Named
  BY DEF Named, Keys

LEMMA NamedGrows ==
    ASSUME NEW m \in Members, Collect(m)
    PROVE  /\ DOMAIN perModel' = DOMAIN perModel \cup {m} /\ m \notin DOMAIN perModel
           /\ \A x \in DOMAIN perModel : Named'[x] = Named[x]
  <1>1. /\ DOMAIN perModel' = DOMAIN perModel \cup {m} /\ m \notin DOMAIN perModel
        /\ \A x \in DOMAIN perModel : perModel'[x] = perModel[x]
    BY DEF Collect
  <1>2. \A x \in DOMAIN perModel : Keys(x)' = Keys(x)
    BY <1>1 DEF Keys
  <1>3. QED
    BY <1>1, <1>2 DEF Named

LEMMA MergingInit == Init => Merging
  BY DEF Init, NoEntries, Merging, InOrder, HasFirst, Closed, Credited

LEMMA CollectMerging ==
    ASSUME TypeOK, Merging, NEW m \in Members, Collect(m)
    PROVE  Merging'
  <1> DEFINE n == Len(order)
  <1>1. /\ n \in Nat /\ Len(order') = n + 1 /\ order'[n + 1] = m
        /\ \A i \in 1..n : order'[i] = order[i]
    BY AppendProperties DEF TypeOK, Collect
  <1>2. DOMAIN perModel' = DOMAIN perModel \cup {m} /\ m \notin DOMAIN perModel
    BY NamedGrows
  <1>3. /\ \A i \in 1..n : order[i] \in DOMAIN perModel
        /\ \A i \in 1..n : Named'[order'[i]] = Named[order[i]]
    BY <1>1, NamedGrows DEF Merging, InOrder
  <1>4. InOrder'
    BY <1>1, <1>2 DEF Merging, InOrder
  <1>5. HasFirst'
    <2> SUFFICES ASSUME NEW x \in DOMAIN perModel', NEW k \in Named'[x]
                 PROVE  \E i \in 1..Len(order') :
                          /\ k \in Named'[order'[i]]
                          /\ \A j \in 1..(i - 1) : k \notin Named'[order'[j]]
      BY DEF HasFirst
    <2>1. CASE \E y \in DOMAIN perModel : k \in Named[y]
      <3>1. PICK i \in 1..n : /\ k \in Named[order[i]]
                              /\ \A j \in 1..(i - 1) : k \notin Named[order[j]]
        BY <2>1 DEF Merging, HasFirst
      <3>2. i \in 1..Len(order') /\ k \in Named'[order'[i]]
        BY <1>1, <1>3, <3>1
      <3>3. ASSUME NEW j \in 1..(i - 1) PROVE k \notin Named'[order'[j]]
        <4>1. j \in 1..n
          BY <1>1
        <4>2. QED
          BY <1>3, <3>1, <4>1
      <3>4. QED
        BY <3>2, <3>3
    <2>2. CASE \A y \in DOMAIN perModel : k \notin Named[y]
      <3>1. x = m
        BY <1>2, <2>2, NamedGrows
      <3>2. QED
        BY <1>1, <1>3, <2>2, <3>1
    <2>3. QED
      BY <2>1, <2>2
  <1>6. Closed' /\ Credited'
    <2>1. stage = "running" /\ stage' = stage
      BY <1>2 DEF Merging, Closed, Collect
    <2>2. QED
      BY <2>1 DEF Closed, Credited
  <1>7. QED
    BY <1>4, <1>5, <1>6 DEF Merging

LEMMA FirstFinderIs ==
    ASSUME TypeOK, InOrder, HasFirst, DOMAIN perModel = Members, NEW k \in Fingerprints
    PROVE  FirstFinder(k) \in Finders(k)
  <1> DEFINE P(i) == /\ order[i] \in Finders(k)
                     /\ \A j \in 1..(i - 1) : order[j] \notin Finders(k)
             first == CHOOSE i \in 1..Len(order) : P(i)
  <1>1. \E i \in 1..Len(order) :
           k \in Named[order[i]] /\ \A j \in 1..(i - 1) : k \notin Named[order[j]]
    BY DEF Fingerprints, HasFirst, Named
  <1>2. \A i \in 1..Len(order) : order[i] \in Members
    BY DEF InOrder
  <1>3. Len(order) \in Nat
    BY LenProperties DEF TypeOK
  <1>4. \E i \in 1..Len(order) : P(i)
    BY <1>1, <1>2, <1>3 DEF Named, Finders
  <1>5. first \in 1..Len(order) /\ P(first)
    BY <1>4
  <1>6. FirstFinder(k) = order[first]
    BY DEF FirstFinder
  <1>7. QED
    BY <1>5, <1>6

LEMMA MergeMerging ==
    ASSUME TypeOK, Merging, Merge
    PROVE  Merging'
  <1>1. UNCHANGED <<perModel, order>> /\ DOMAIN perModel = Members
    BY DEF Merge
  <1>2. InOrder' /\ Closed'
    BY <1>1 DEF Merging, InOrder, Closed
  <1>3. HasFirst'
    BY <1>1, NamedSame DEF Merging, HasFirst
  <1>4. Credited'
    <2>1. /\ DOMAIN report' = Fingerprints
          /\ \A k \in Fingerprints : report'[k] = Finders(k) /\ survivor'[k] = FirstFinder(k)
      BY DEF Merge
    <2>2. QED
      BY <1>1, <2>1, FirstFinderIs DEF Merging, Credited
  <1>5. QED
    BY <1>2, <1>3, <1>4 DEF Merging

LEMMA MergingNext == TypeOK /\ Merging /\ [Next]_vars => Merging'
  <1> SUFFICES ASSUME TypeOK, Merging, [Next]_vars PROVE Merging'
    OBVIOUS
  <1>1. ASSUME UNCHANGED <<perModel, order, stage, report, survivor>> PROVE Merging'
    BY <1>1, NamedSame DEF Merging, InOrder, HasFirst, Closed, Credited
  <1>2. CASE Submit
    BY <1>1, <1>2 DEF Submit
  <1>3. CASE MergeRaises
    BY <1>3, NamedSame
    DEF MergeRaises, Merging, InOrder, HasFirst, Closed, Credited
  <1>4. CASE \E m \in Members : Member(m)
    BY <1>1, <1>4 DEF Member, Begin, Answer, Fail, Empty, RetryAnswer, RetryFail, conductor
  <1>5. CASE UNCHANGED vars
    BY <1>1, <1>5 DEF vars, conductor
  <1>6. QED
    BY <1>2, <1>3, <1>4, <1>5, CollectMerging, MergeMerging DEF Next, Conductor

-----------------------------------------------------------------------------

LEMMA SpecInv == Spec => []IInv
  <1>1. Init => IInv
    BY TypeInit, LearningInit, MergingInit DEF IInv
  <1>2. IInv /\ [Next]_vars => IInv'
    BY TypeNext, LearningNext, MergingNext DEF IInv
  <1>3. QED
    BY <1>1, <1>2, PTL DEF Spec

(* The ensemble keeps its types.                                            *)
THEOREM TypeTheorem == Spec => []TypeOK
  BY SpecInv, PTL DEF IInv

(* Under the full stagger the first member learns for all of its model.     *)
THEOREM LearnedOnceTheorem == Spec => []LearnedOnce
  <1>1. IInv => LearnedOnce
    BY DEF IInv, TypeOK, Learning, Started, Spared, LearnedOnce
  <1>2. QED
    BY <1>1, SpecInv, PTL

(* A reserve is spent only on what another member's answered retry taught.  *)
THEOREM LearnedFromAnswerTheorem == Spec => []LearnedFromAnswer
  BY SpecInv, PTL DEF IInv, Learning

-----------------------------------------------------------------------------
(* The refinement.                                                         *)

Subjects == [names : SUBSET (Pids \cup Marks), own : SUBSET (Members \X Finding)]

LEMMA KeyType ==
    ASSUME NEW m \in Members, NEW f \in Finding, NEW C, C \subseteq f.claims
    PROVE  Key(m, f, C) \in Subjects
  <1>1. Names(C) \subseteq Pids \cup Marks
    BY DEF Names, Finding, Claim
  <1>2. {f.fallback} \ {None} \subseteq Pids \cup Marks
    BY DEF Finding
  <1>3. QED
    BY <1>1, <1>2 DEF Key, Subjects

LEMMA NamedType ==
    ASSUME NEW m \in Members, NEW F \in SUBSET Finding
    PROVE  UNION {{Key(m, f, C) : C \in Atoms(f)} : f \in F} \subseteq Subjects
  <1>1. \A f \in F : \A C \in Atoms(f) : C \subseteq f.claims
    BY DEF Atoms
  <1>2. QED
    BY <1>1, KeyType

(* A collection hears a member, a merge writes the report, anything else    *)
(* leaves the survey as it is.                                              *)
THEOREM SurveyTheorem == Spec => KeepsSurvey
  <1>1. Init => Abstract!Init
    BY DEF Init, NoEntries, Abstract!Init, Abstract!Nothing
  <1>2. IInv /\ IInv' /\ [Next]_vars => [Abstract!Next]_(Abstract!vars)
    <2> SUFFICES ASSUME IInv, IInv', [Next]_vars
                 PROVE  [Abstract!Next]_(Abstract!vars)
      OBVIOUS
    <2>1. ASSUME NEW m \in Members, Collect(m) PROVE Abstract!Hear(m)
      <3>1. /\ DOMAIN Named' = DOMAIN Named \cup {m} /\ m \notin DOMAIN Named
            /\ \A x \in DOMAIN Named : Named'[x] = Named[x]
        BY <2>1, NamedGrows DEF Named
      <3>2. ASSUME NEW x \in DOMAIN Named' PROVE Named'[x] \subseteq Subjects
        <4>1. x \in Members /\ perModel'[x] \in SUBSET Finding
          BY <3>2 DEF IInv, TypeOK, Named
        <4>2. Named'[x] = UNION {{Key(x, f, C) : C \in Atoms(f)} : f \in perModel'[x]}
          BY <3>2 DEF Named, Keys
        <4>3. QED
          BY <4>1, <4>2, NamedType
      <3>3. Named' \in [DOMAIN Named \cup {m} -> SUBSET Subjects]
        BY <3>1, <3>2 DEF Named
      <3>4. UNCHANGED <<stage, report>>
        BY <2>1 DEF Collect
      <3>5. QED
        BY <3>1, <3>3, <3>4 DEF Abstract!Hear, Subjects, Named
    <2>2. CASE Merge
      <3>1. /\ DOMAIN perModel = Members /\ perModel' = perModel
            /\ stage = "running" /\ stage' = "merged"
            /\ report' = [k \in Fingerprints |-> Finders(k)]
        BY <2>2 DEF Merge
      <3>2. Named' = Named
        BY <3>1, NamedSame
      <3>3. Abstract!Write
        BY <3>1, <3>2 DEF Abstract!Write, Fingerprints, Finders, Named
      <3>4. QED
        BY <3>3 DEF Abstract!Next
    <2>3. ASSUME UNCHANGED <<perModel, report>>, (stage = "merged") = (stage' = "merged")
          PROVE  UNCHANGED Abstract!vars
      BY <2>3, NamedSame DEF Abstract!vars, Named
    <2>4. CASE Submit
      BY <2>3, <2>4 DEF Submit
    <2>5. CASE MergeRaises
      BY <2>3, <2>5 DEF MergeRaises
    <2>6. CASE \E m \in Members : Member(m)
      BY <2>3, <2>6 DEF Member, Begin, Answer, Fail, Empty, RetryAnswer, RetryFail, conductor
    <2>7. CASE UNCHANGED vars
      BY <2>3, <2>7 DEF vars, conductor
    <2>8. QED
      BY <2>1, <2>2, <2>4, <2>5, <2>6, <2>7 DEF Next, Conductor, Abstract!Next
  <1>3. QED
    BY <1>1, <1>2, SpecInv, PTL DEF Spec, KeepsSurvey, Abstract!Spec
-----------------------------------------------------------------------------
(* What a split keeps.                                                     *)

(* _atomic_subject_split loses no claim of a finding, and no part of an     *)
(* unrelated finding is about two processes.                               *)
THEOREM SplitTheorem ==
    ASSUME NEW f \in Finding, IsFiniteSet(f.claims)
    PROVE  /\ UNION Atoms(f) = f.claims
           /\ ~f.related => \A C \in Atoms(f) : \A c, d \in C :
                 c.pid # None /\ d.pid # None => c.pid = d.pid
  <1>1. f.claims \subseteq Claim
    BY DEF Finding
  <1>2. IsFiniteSet(PidsOf(f))
    <2> DEFINE T == {c.pid : c \in f.claims}
               pidOf == [c \in f.claims |-> c.pid]
    <2>1. pidOf \in Surjection(f.claims, T)
      BY DEF Surjection
    <2>2. IsFiniteSet(T)
      <3> HIDE DEF T, pidOf
      <3> QED
        BY <2>1, FS_Surjection
    <2>3. QED
      BY <2>2, FS_Subset DEF PidsOf
  <1>3. CASE f.related
    BY <1>3 DEF Atoms
  <1>4. CASE ~f.related /\ Cardinality(PidsOf(f)) <= 1
    <2>1. Atoms(f) = {f.claims}
      BY <1>4 DEF Atoms
    <2>2. ASSUME NEW c \in f.claims, NEW d \in f.claims,
                 c.pid # None, d.pid # None, c.pid # d.pid
          PROVE  FALSE
      <3>1. {c.pid, d.pid} \subseteq PidsOf(f)
        BY <2>2 DEF PidsOf
      <3>2. Cardinality({c.pid, d.pid}) = 2
        <4>1. IsFiniteSet({c.pid}) /\ Cardinality({c.pid}) = 1
          BY FS_Singleton
        <4>2. Cardinality({c.pid} \cup {d.pid}) = Cardinality({c.pid}) + 1
          BY <2>2, <4>1, FS_AddElement
        <4>3. {c.pid} \cup {d.pid} = {c.pid, d.pid}
          OBVIOUS
        <4>4. QED
          BY <4>1, <4>2, <4>3
      <3>3. Cardinality({c.pid, d.pid}) <= Cardinality(PidsOf(f))
        BY <1>2, <3>1, FS_Subset
      <3>4. Cardinality(PidsOf(f)) \in Nat
        BY <1>2, FS_CardinalityType
      <3>5. QED
        BY <1>4, <3>2, <3>3, <3>4
    <2>3. QED
      BY <2>1, <2>2
  <1>5. CASE ~f.related /\ ~(Cardinality(PidsOf(f)) <= 1)
    <2>1. Atoms(f) = {{c \in f.claims : c.pid \in {p, None}} : p \in PidsOf(f)}
      BY <1>5 DEF Atoms
    <2>2. PICK q \in PidsOf(f) : TRUE
      BY <1>5, FS_EmptySet
    <2>3. ASSUME NEW c \in f.claims PROVE c \in UNION Atoms(f)
      <3>1. CASE c.pid = None
        BY <2>1, <2>2, <3>1
      <3>2. CASE c.pid # None
        BY <2>1, <3>2 DEF PidsOf
      <3>3. QED
        BY <3>1, <3>2
    <2>4. UNION Atoms(f) \subseteq f.claims
      BY <2>1
    <2>5. QED
      BY <2>1, <2>3, <2>4
  <1>6. QED
    BY <1>3, <1>4, <1>5

-----------------------------------------------------------------------------
(* The merged list and the answers.                                        *)

(* What was collected is what the done future of a member held.            *)
HeardAnswer ==
  \A m \in DOMAIN perModel :
    /\ call[m] = "done"
    /\ perModel[m] = IF result[m].sized = "yes" THEN result[m].findings ELSE {}

LEMMA AnswersSame == result' = result => \A m : AnswerKeys(m)' = AnswerKeys(m)
  BY DEF AnswerKeys

(* The answer of a member that is done does not change.                    *)
LEMMA DoneAnswer ==
    ASSUME TypeOK, NEW n \in Members, Member(n), NEW m \in Members, call[m] = "done"
    PROVE  call'[m] = "done" /\ result'[m] = result[m]
  <1>1. n # m
    BY DEF Member, Begin, Answer, Fail, Empty, RetryAnswer, RetryFail
  <1>2. call'[m] = call[m] /\ result'[m] = result[m]
    BY <1>1 DEF TypeOK, Member, Begin, Answer, Fail, Empty, RetryAnswer, RetryFail, Finish
  <1>3. QED
    BY <1>2

LEMMA HeardNext == TypeOK /\ HeardAnswer /\ [Next]_vars => HeardAnswer'
  <1> SUFFICES ASSUME TypeOK, HeardAnswer, [Next]_vars PROVE HeardAnswer'
    OBVIOUS
  <1>1. CASE Submit \/ Merge \/ MergeRaises \/ UNCHANGED vars
    BY <1>1 DEF Submit, Merge, MergeRaises, vars, conductor, threads, HeardAnswer
  <1>2. ASSUME NEW m \in Members, Collect(m) PROVE HeardAnswer'
    BY <1>2 DEF Collect, threads, HeardAnswer
  <1>3. ASSUME NEW m \in Members, Member(m) PROVE HeardAnswer'
    <2>1. perModel' = perModel
      BY <1>3 DEF Member, Begin, Answer, Fail, Empty, RetryAnswer, RetryFail, conductor
    <2>2. QED
      BY <1>3, <2>1, DoneAnswer DEF HeardAnswer, TypeOK
  <1>4. QED
    BY <1>1, <1>2, <1>3 DEF Next, Conductor

LEMMA KeysOfAnswer ==
    ASSUME HeardAnswer, NEW m \in DOMAIN perModel
    PROVE  Keys(m) = AnswerKeys(m)
  BY DEF HeardAnswer, Keys, AnswerKeys

(* What the report says of the fingerprints and their finders.             *)
ReportNamed ==
  stage = "merged" =>
    report = [k \in UNION {AnswerKeys(m) : m \in Members} |->
                {m \in Members : k \in AnswerKeys(m)}]

LEMMA ReportNext ==
    ASSUME TypeOK, HeardAnswer, Closed, ReportNamed, [Next]_vars
    PROVE  ReportNamed'
  <1>1. CASE Merge
    <2>1. /\ DOMAIN perModel = Members /\ result' = result
          /\ report' = [k \in Fingerprints |-> Finders(k)]
      BY <1>1 DEF Merge, threads
    <2>2. \A m \in Members : Keys(m) = AnswerKeys(m) /\ AnswerKeys(m)' = AnswerKeys(m)
      BY <2>1, KeysOfAnswer, AnswersSame
    <2>3. Fingerprints = UNION {AnswerKeys(m) : m \in Members}
      BY <2>2 DEF Fingerprints
    <2>4. \A k : Finders(k) = {m \in Members : k \in AnswerKeys(m)}
      BY <2>2 DEF Finders
    <2>5. report' = [k \in UNION {AnswerKeys(m)' : m \in Members} |->
                        {m \in Members : k \in AnswerKeys(m)'}]
      BY <2>1, <2>2, <2>3, <2>4
    <2>6. QED
      BY <2>5 DEF ReportNamed
  <1>2. CASE Submit \/ MergeRaises \/ UNCHANGED vars \/ \E m \in Members : Collect(m)
    <2>1. result' = result /\ report' = report /\ (stage' = "merged" => stage = "merged")
      BY <1>2 DEF Submit, MergeRaises, Collect, vars, conductor, threads
    <2>2. QED
      BY <2>1, AnswersSame DEF ReportNamed
  <1>3. ASSUME NEW n \in Members, Member(n) PROVE ReportNamed'
    <2>1. stage' = stage /\ report' = report
      BY <1>3 DEF Member, Begin, Answer, Fail, Empty, RetryAnswer, RetryFail, conductor
    <2>2. CASE stage # "merged"
      BY <2>1, <2>2 DEF ReportNamed
    <2>3. CASE stage = "merged"
      <3>1. \A m \in Members : call[m] = "done"
        BY <2>3 DEF Closed, HeardAnswer
      <3>2. \A m \in Members : AnswerKeys(m)' = AnswerKeys(m)
        BY <1>3, <3>1, DoneAnswer DEF AnswerKeys
      <3>3. report = [k \in UNION {AnswerKeys(m) : m \in Members} |->
                        {m \in Members : k \in AnswerKeys(m)}]
        BY <2>3 DEF ReportNamed
      <3>4. report' = [k \in UNION {AnswerKeys(m)' : m \in Members} |->
                        {m \in Members : k \in AnswerKeys(m)'}]
        BY <2>1, <3>2, <3>3
      <3>5. QED
        BY <3>4 DEF ReportNamed
    <2>4. QED
      BY <2>2, <2>3
  <1>4. QED
    BY <1>1, <1>2, <1>3 DEF Next, Conductor

(* The merged list depends on the answers and credits those who gave them,  *)
(* and on nothing else.                                                    *)
THEOREM ReportTheorem == Spec => []ReportOfAnswers
  <1>1. Init => HeardAnswer /\ ReportNamed
    BY DEF Init, NoEntries, HeardAnswer, ReportNamed
  <1>2. IInv => TypeOK /\ Closed /\ Credited
    BY DEF IInv, Merging
  <1>3. IInv /\ HeardAnswer /\ ReportNamed /\ [Next]_vars => HeardAnswer' /\ ReportNamed'
    BY <1>2, HeardNext, ReportNext
  <1>4. ReportNamed /\ Credited => ReportOfAnswers
    BY DEF ReportNamed, Credited, ReportOfAnswers
  <1>5. QED
    BY <1>1, <1>2, <1>3, <1>4, SpecInv, PTL DEF Spec

-----------------------------------------------------------------------------
(* The ensemble gets nearer its end.                                       *)

LEMMA CallLeftValues ==
  /\ CallLeft["idle"] = 3 /\ CallLeft["first"] = 2
  /\ CallLeft["retry"] = 1 /\ CallLeft["done"] = 0
  BY DEF CallLeft

(* Until the merge someone has a step to take.                             *)
THEOREM NoStallTheorem == Spec => []NoStall
  <1>1. IInv => NoStall
    <2> SUFFICES ASSUME TypeOK, stage = "running",
                        \A m \in Members : ~MemberMovable(m)
                 PROVE  ConductorMovable
      BY DEF IInv, NoStall
    <2>1. \A m \in Members : m <= submitted => call[m] = "done"
      BY DEF MemberMovable
    <2>2. CASE submitted < NumMembers
      BY <2>1, <2>2, MembersAre DEF ConductorMovable, MaySubmit
    <2>3. CASE submitted = NumMembers
      <3>1. \A m \in Members : call[m] = "done"
        BY <2>1, <2>3, EnsembleAssumption DEF Members
      <3>2. QED
        BY <2>3, <3>1 DEF ConductorMovable, TypeOK
    <2>4. QED
      BY <2>2, <2>3, EnsembleAssumption DEF TypeOK
  <1>2. QED
    BY <1>1, SpecInv, PTL

LEMMA MemberShrinks ==
    ASSUME TypeOK, NEW m \in Members, Member(m)
    PROVE  /\ ConductorLeft' = ConductorLeft
           /\ MemberLeft(m)' < MemberLeft(m)
           /\ \A n \in Members \ {m} : MemberLeft(n)' = MemberLeft(n)
  <1>1. UNCHANGED conductor
    BY DEF Member, Begin, Answer, Fail, Empty, RetryAnswer, RetryFail
  <1>2. \A n \in Members \ {m} : call'[n] = call[n]
    BY DEF TypeOK, Member, Begin, Answer, Fail, Empty, RetryAnswer, RetryFail, Finish
  <1>3. <<call[m], call'[m]>> \in
           {<<"idle", "first">>, <<"first", "retry">>, <<"first", "done">>, <<"retry", "done">>}
    BY DEF TypeOK, Member, Begin, Answer, Fail, Empty, RetryAnswer, RetryFail, Finish
  <1>4. CallLeft[call[m]] \in Nat /\ CallLeft[call'[m]] \in Nat
        /\ CallLeft[call'[m]] < CallLeft[call[m]]
    BY <1>3, CallLeftValues
  <1>5. QED
    BY <1>1, <1>2, <1>4 DEF conductor, ConductorLeft, MemberLeft

LEMMA CollectShrinks ==
    ASSUME TypeOK, NEW m \in Members, Collect(m)
    PROVE  /\ ConductorLeft' = ConductorLeft
           /\ MemberLeft(m)' < MemberLeft(m)
           /\ \A n \in Members \ {m} : MemberLeft(n)' = MemberLeft(n)
  <1>1. CallLeft[call[m]] \in Nat
    BY CallLeftValues DEF TypeOK
  <1>2. DOMAIN perModel' = DOMAIN perModel \cup {m} /\ m \notin DOMAIN perModel /\ call' = call
        /\ UNCHANGED <<stage, submitted>>
    BY DEF Collect, threads
  <1>3. QED
    BY <1>1, <1>2 DEF ConductorLeft, MemberLeft

LEMMA ConductorShrinks ==
    ASSUME TypeOK, Submit \/ Merge \/ MergeRaises
    PROVE  ConductorLeft' < ConductorLeft /\ \A m \in Members : MemberLeft(m)' = MemberLeft(m)
  <1>1. UNCHANGED <<call, perModel>>
    BY DEF Submit, Merge, MergeRaises, threads
  <1>2. ConductorLeft' < ConductorLeft
    BY EnsembleAssumption DEF TypeOK, Submit, Merge, MergeRaises, ConductorLeft
  <1>3. QED
    BY <1>1, <1>2 DEF MemberLeft

(* Every step is one submission, call or collection fewer.                 *)
THEOREM ShrinkTheorem == Spec => StepsShrink
  <1>1. IInv /\ [Next]_vars =>
          [\/ ConductorLeft' < ConductorLeft /\ \A m \in Members : MemberLeft(m)' = MemberLeft(m)
           \/ /\ ConductorLeft' = ConductorLeft
              /\ \E m \in Members :
                   /\ MemberLeft(m)' < MemberLeft(m)
                   /\ \A n \in Members \ {m} : MemberLeft(n)' = MemberLeft(n)]_vars
    BY ConductorShrinks, MemberShrinks, CollectShrinks DEF Next, Conductor, IInv
  <1>2. QED
    BY <1>1, SpecInv, PTL DEF Spec, StepsShrink

-----------------------------------------------------------------------------
(* The ensemble ends.  Fairness is that of FairSpec; that the guards imply   *)
(* ENABLED is the hypothesis GuardsEnabled.                                *)

GuardFair(m) == []<>~MemberMovable(m) \/ []<><<Member(m)>>_vars
ConductorFair == []<>~ConductorMovable \/ []<><<Conductor>>_vars

LEMMA MemberFair ==
    ASSUME NEW m \in Members
    PROVE  FairMember(m) /\ []GuardsEnabled => GuardFair(m)
  <1>1. GuardsEnabled => (MemberMovable(m) => MemberEnabled(m))
    BY DEF GuardsEnabled
  <1>2. QED
    BY <1>1, PTL DEF FairMember, MemberEnabled, GuardFair

LEMMA ConductorIsFair == WF_vars(Conductor) /\ []GuardsEnabled => ConductorFair
  <1>1. GuardsEnabled => (ConductorMovable => ConductorEnabled)
    BY DEF GuardsEnabled
  <1>2. QED
    BY <1>1, PTL DEF ConductorEnabled, ConductorFair

(* What is fair is fair from every later moment on, for one member more and *)
(* so for all of them.                                                     *)
EachFair(T) == \A m \in T : FairMember(m)
AllFair(T) == []EachFair(T)

LEMMA NoneToBeFair == AllFair({})
  <1>1. EachFair({})
    BY DEF EachFair
  <1>2. QED
    BY <1>1, PTL DEF AllFair

LEMMA OneMoreFair ==
    ASSUME NEW T, NEW m
    PROVE  AllFair(T) /\ FairMember(m) => AllFair(T \cup {m})
  <1>1. EachFair(T) /\ FairMember(m) => EachFair(T \cup {m})
    BY DEF EachFair
  <1>2. FairMember(m) => []FairMember(m)
    BY PTL DEF FairMember
  <1>3. QED
    BY <1>1, <1>2, PTL DEF AllFair

LEMMA MembersFinite == IsFiniteSet(Members)
  BY EnsembleAssumption, FS_Interval DEF Members

LEMMA FairnessLasts == Fairness => []Fairness
  <1> SUFFICES ASSUME EachFair(Members) PROVE AllFair(Members)
    BY PTL DEF Fairness, AllFair, EachFair
  <1>2. PICK n \in Nat : \E f : f[0] = {} /\ f[n] = Members
               /\ \A k \in Nat : f[k + 1] = f[k] \/ \E s \in Members : f[k + 1] = f[k] \cup {s}
    BY MembersFinite, Enumeration
  <1>3. PICK f : f[0] = {} /\ f[n] = Members
               /\ \A k \in Nat : f[k + 1] = f[k] \/ \E s \in Members : f[k + 1] = f[k] \cup {s}
    BY <1>2
  <1>4. Table([k \in Nat |-> AllFair(f[k])])
    BY DEF Table
  <1>5. AllFair(f[0])
    BY <1>3, NoneToBeFair
  <1>6. ASSUME NEW k \in Nat, AllFair(f[k]) PROVE AllFair(f[k + 1])
    <2>1. \A s \in Members : FairMember(s)
      BY DEF EachFair
    <2>2. \A s \in Members : AllFair(f[k] \cup {s})
      BY <1>6, <2>1, OneMoreFair
    <2>3. QED
      BY <1>3, <1>6, <2>2
  <1>7. \A k \in Nat : AllFair(f[k])
    BY <1>4, <1>5, <1>6, TableInduction
  <1>8. QED
    BY <1>3, <1>7

(* All the steps that are left, the members' and the conductor's.          *)
StepsOf == [m \in Members |-> MemberLeft(m)]
Total == Cardinality(Remaining(StepsOf, 4)) + ConductorLeft

LEMMA LeftType ==
  TypeOK => StepsOf \in [Members -> 0 .. 4] /\ ConductorLeft \in Nat /\ Total \in Nat
  <1> SUFFICES ASSUME TypeOK
               PROVE  StepsOf \in [Members -> 0 .. 4] /\ ConductorLeft \in Nat /\ Total \in Nat
    OBVIOUS
  <1>1. \A m \in Members : CallLeft[call[m]] \in 0 .. 3
    BY CallLeftValues DEF TypeOK
  <1>2. StepsOf \in [Members -> 0 .. 4]
    BY <1>1 DEF StepsOf, MemberLeft
  <1>3. ConductorLeft \in Nat
    BY EnsembleAssumption DEF TypeOK, ConductorLeft
  <1>4. Cardinality(Remaining(StepsOf, 4)) \in Nat
    BY <1>2, RemainingFinite, MembersFinite
  <1>5. QED
    BY <1>2, <1>3, <1>4 DEF Total

LEMMA TotalFalls ==
    ASSUME TypeOK, TypeOK', Next
    PROVE  Total' < Total
  <1>1. /\ StepsOf \in [Members -> 0 .. 4] /\ ConductorLeft \in Nat /\ Total \in Nat
        /\ StepsOf' \in [Members -> 0 .. 4] /\ ConductorLeft' \in Nat /\ Total' \in Nat
    <2>1. TypeOK' => (StepsOf \in [Members -> 0 .. 4] /\ ConductorLeft \in Nat /\ Total \in Nat)'
      BY LeftType, PTL
    <2>2. QED
      BY <2>1, LeftType
  <1>2. /\ \A m \in Members : StepsOf[m] = MemberLeft(m) /\ StepsOf'[m] = MemberLeft(m)'
        /\ Total = Cardinality(Remaining(StepsOf, 4)) + ConductorLeft
        /\ Total' = Cardinality(Remaining(StepsOf', 4)) + ConductorLeft'
    BY DEF StepsOf, Total
  <1>3. /\ Cardinality(Remaining(StepsOf, 4)) \in Nat
        /\ Cardinality(Remaining(StepsOf', 4)) \in Nat
    BY <1>1, RemainingFinite, MembersFinite
  <1>4. CASE Submit \/ Merge \/ MergeRaises
    <2>1. ConductorLeft' < ConductorLeft /\ \A m \in Members : MemberLeft(m)' = MemberLeft(m)
      BY <1>4, ConductorShrinks
    <2>2. StepsOf' = StepsOf
      BY <1>1, <1>2, <2>1
    <2>3. QED
      BY <1>1, <1>2, <1>3, <2>1, <2>2
  <1>5. ASSUME NEW m \in Members, Collect(m) \/ Member(m) PROVE Total' < Total
    <2>1. /\ ConductorLeft' = ConductorLeft
          /\ MemberLeft(m)' < MemberLeft(m)
          /\ \A n \in Members \ {m} : MemberLeft(n)' = MemberLeft(n)
      BY <1>5, MemberShrinks, CollectShrinks
    <2>2. StepsOf'[m] < StepsOf[m] /\ \A n \in Members \ {m} : StepsOf'[n] <= StepsOf[n]
      BY <1>1, <1>2, <2>1
    <2>3. Cardinality(Remaining(StepsOf', 4)) < Cardinality(Remaining(StepsOf, 4))
      BY <1>1, <2>2, RemainingShrinks, MembersFinite
    <2>4. QED
      BY <1>1, <1>2, <1>3, <2>1, <2>3
  <1>6. QED
    BY <1>4, <1>5 DEF Next, Conductor

(* From now on: the invariants, the steps, the fairness and the guards.     *)
Runs == []IInv /\ []NoStall /\ [][Next]_vars /\ []Fairness /\ []GuardsEnabled

FallsBelow(n) == <>(Total < n)

(* A member that can move, or the conductor, brings the total down: its own *)
(* step does, and so does any step that comes before it.                   *)
LEMMA MemberAdvances ==
    ASSUME NEW n \in Nat, NEW m \in Members
    PROVE  Runs /\ FairMember(m) => (Total = n /\ MemberMovable(m) => FallsBelow(n))
  <1>1. TypeOK /\ TypeOK' /\ Total = n /\ MemberMovable(m) /\ [Next]_vars
        => (Total = n /\ MemberMovable(m))' \/ (Total < n)'
    <2>1. ASSUME UNCHANGED vars
          PROVE  Total' = Total /\ (MemberMovable(m))' = MemberMovable(m)
      BY <2>1 DEF Total, StepsOf, MemberLeft, ConductorLeft, MemberMovable, vars,
                  conductor, threads
    <2>2. QED
      BY <2>1, TotalFalls
  <1>2. TypeOK /\ TypeOK' /\ Total = n /\ <<Member(m)>>_vars => (Total < n)'
    BY TotalFalls DEF Next
  <1>3. IInv => TypeOK
    BY DEF IInv
  <1>4. QED
    BY <1>1, <1>2, <1>3, MemberFair, PTL DEF GuardFair, Runs, FallsBelow

LEMMA ConductorAdvances ==
    ASSUME NEW n \in Nat
    PROVE  Runs => (Total = n /\ ConductorMovable => FallsBelow(n))
  <1>1. TypeOK /\ TypeOK' /\ Total = n /\ ConductorMovable /\ [Next]_vars
        => (Total = n /\ ConductorMovable)' \/ (Total < n)'
    <2>1. ASSUME UNCHANGED vars
          PROVE  Total' = Total /\ ConductorMovable' = ConductorMovable
      BY <2>1 DEF Total, StepsOf, MemberLeft, ConductorLeft, ConductorMovable, MaySubmit, vars,
                  conductor, threads
    <2>2. QED
      BY <2>1, TotalFalls
  <1>2. TypeOK /\ TypeOK' /\ Total = n /\ <<Conductor>>_vars => (Total < n)'
    BY TotalFalls DEF Next
  <1>3. IInv => TypeOK
    BY DEF IInv
  <1>4. QED
    BY <1>1, <1>2, <1>3, ConductorIsFair, PTL DEF ConductorFair, Runs, Fairness, FallsBelow

(* With less than n steps left the ensemble ends.                          *)
EndsWithin(n) == [](Total < n => <>(stage \in {"merged", "raised"}))

LEMMA EndsWithNothing == Runs => EndsWithin(0)
  <1>1. IInv => ~(Total < 0)
    BY LeftType DEF IInv
  <1>2. QED
    BY <1>1, PTL DEF EndsWithin, Runs

LEMMA OneStepMore ==
    ASSUME NEW n \in Nat
    PROVE  Runs => (EndsWithin(n) => EndsWithin(n + 1))
  <1> SUFFICES ASSUME []IInv, []NoStall, [][Next]_vars, []Fairness, []GuardsEnabled
               PROVE  EndsWithin(n) => EndsWithin(n + 1)
    BY PTL DEF Runs
  <1>1. Runs
    BY PTL DEF Runs
  <1>2. \A m \in Members : FairMember(m)
    BY PTL DEF Fairness
  <1>3. \A m \in Members : Total = n /\ MemberMovable(m) => FallsBelow(n)
    BY <1>1, <1>2, MemberAdvances
  <1>4. Total = n /\ ConductorMovable => FallsBelow(n)
    BY <1>1, ConductorAdvances
  <1>5. NoStall
    BY PTL
  <1>6. Total = n /\ stage = "running" => FallsBelow(n)
    BY <1>3, <1>4, <1>5 DEF NoStall
  <1>7. IInv => (stage = "running" \/ stage \in {"merged", "raised"})
    BY DEF IInv, TypeOK
  <1>8. IInv => (Total < n + 1 => Total < n \/ Total = n)
    BY LeftType DEF IInv
  <1>9. QED
    BY <1>6, <1>7, <1>8, PTL DEF EndsWithin, FallsBelow

(* Every ensemble ends: by induction on the number of steps that are left.  *)
THEOREM EnsembleEndsTheorem == FairSpec /\ []GuardsEnabled => EnsembleEnds
  <1>1. FairSpec /\ []GuardsEnabled => Runs
    BY SpecInv, NoStallTheorem, FairnessLasts, PTL DEF FairSpec, Spec, Runs
  <1>2. ASSUME Runs PROVE EnsembleEnds
    <2>1. IInv
      BY <1>2, PTL DEF Runs
    <2>2. EndsWithin(0)
      BY <1>2, EndsWithNothing
    <2>3. \A n \in Nat : EndsWithin(n) => EndsWithin(n + 1)
      BY <1>2, OneStepMore
    <2>4. Table([n \in Nat |-> EndsWithin(n)])
      BY DEF Table
    <2>5. \A n \in Nat : EndsWithin(n)
      BY <2>2, <2>3, <2>4, TableInduction
    <2>6. Total \in Nat
      BY <2>1, LeftType DEF IInv
    <2>7. PICK n \in Nat : Total < n
      <3>1. Total + 1 \in Nat /\ Total < Total + 1
        BY <2>6
      <3>2. QED
        BY <3>1
    <2>8. EndsWithin(n)
      BY <2>5
    <2>9. QED
      BY <2>7, <2>8, PTL DEF EndsWithin, EnsembleEnds
  <1>3. QED
    BY <1>1, <1>2

(* The call of a submitted member ends, whoever else is still at work.     *)
LEMMA CallEnds ==
    ASSUME NEW m \in Members
    PROVE  Runs /\ FairMember(m) => (m <= submitted ~> call[m] = "done")
  <1> DEFINE At(c) == m <= submitted /\ call[m] = c
  <1>1. TypeOK /\ [Next]_vars => (m <= submitted => (m <= submitted)')
    <2>1. [Next]_vars => submitted' = submitted \/ submitted' = submitted + 1
      BY DEF Next, Conductor, Submit, Collect, Merge, MergeRaises, Member, Begin, Answer,
             Fail, Empty, RetryAnswer, RetryFail, vars, conductor, threads
    <2>2. TypeOK => submitted \in Nat /\ m \in Nat
      BY MembersAre, EnsembleAssumption DEF TypeOK
    <2>3. QED
      BY <2>1, <2>2
  <1>2. TypeOK /\ [Next]_vars =>
          call'[m] = call[m]
          \/ <<call[m], call'[m]>> \in {<<"idle", "first">>, <<"first", "retry">>,
                                       <<"first", "done">>, <<"retry", "done">>}
    BY DEF TypeOK, Next, Conductor, Submit, Collect, Merge, MergeRaises, Member, Begin, Answer,
           Fail, Empty, RetryAnswer, RetryFail, Finish, vars, conductor, threads
  <1>3. TypeOK /\ <<Member(m)>>_vars =>
          <<call[m], call'[m]>> \in {<<"idle", "first">>, <<"first", "retry">>,
                                    <<"first", "done">>, <<"retry", "done">>}
    BY DEF TypeOK, Member, Begin, Answer, Fail, Empty, RetryAnswer, RetryFail, Finish
  <1>4. /\ TypeOK /\ At("idle") /\ [Next]_vars => At("idle")' \/ At("first")'
        /\ TypeOK /\ At("first") /\ [Next]_vars => At("first")' \/ At("retry")' \/ At("done")'
        /\ TypeOK /\ At("retry") /\ [Next]_vars => At("retry")' \/ At("done")'
    BY <1>1, <1>2
  <1>5. /\ TypeOK /\ At("idle") /\ [Next]_vars /\ <<Member(m)>>_vars => At("first")'
        /\ TypeOK /\ At("first") /\ [Next]_vars /\ <<Member(m)>>_vars => At("retry")' \/ At("done")'
        /\ TypeOK /\ At("retry") /\ [Next]_vars /\ <<Member(m)>>_vars => At("done")'
    BY <1>1, <1>3
  <1>6. At("idle") \/ At("first") \/ At("retry") => MemberMovable(m)
    BY DEF MemberMovable
  <1>7. TypeOK => (m <= submitted => At("idle") \/ At("first") \/ At("retry") \/ At("done"))
    BY DEF TypeOK
  <1>8. At("done") => call[m] = "done"
    OBVIOUS
  <1>9. IInv => TypeOK
    BY DEF IInv
  <1>10. QED
    BY <1>4, <1>5, <1>6, <1>7, <1>8, <1>9, MemberFair, PTL DEF GuardFair, Runs

(* No member keeps the pool of a prompt busy for ever.                      *)
THEOREM CallsEndTheorem == FairSpec /\ []GuardsEnabled => CallsEnd
  <1>1. FairSpec /\ []GuardsEnabled => Runs /\ Fairness
    BY SpecInv, NoStallTheorem, FairnessLasts, PTL DEF FairSpec, Spec, Runs
  <1>2. ASSUME Runs, Fairness PROVE CallsEnd
    <2>1. \A m \in Members : FairMember(m)
      BY <1>2, PTL DEF Fairness
    <2>2. QED
      BY <1>2, <2>1, CallEnds, Zenon DEF CallsEnd
  <1>3. QED
    BY <1>1, <1>2
=============================================================================
