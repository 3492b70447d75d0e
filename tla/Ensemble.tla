------------------------------ MODULE Ensemble ------------------------------
(***************************************************************************)
(* run_inv2_ensemble: one prompt, several members in parallel, one merged   *)
(* list of findings.                                                       *)
(*                                                                         *)
(* A finding is what splitting and fingerprinting look at: its claims (a    *)
(* process id and another strong entity each), whether they state a         *)
(* relationship, what identifies it when no claim has an entity (a path or  *)
(* its title), and whether its claims can be iterated at all.               *)
(***************************************************************************)
EXTENDS Naturals, FiniteSets, Sequences

CONSTANTS
  NumMembers,     \* slots of the roster
  ModelOf,        \* the model that actually runs in each slot
  Pids,           \* process ids claims name
  Marks,          \* other entities, paths, titles
  None,           \* the absence of one
  Replies         \* sets of findings a member may answer with

Members == 1..NumMembers
Models == {ModelOf[m] : m \in Members}
Claim == [pid : Pids \cup {None}, mark : Marks \cup {None}]
Finding == [claims : SUBSET Claim, related : BOOLEAN,
            fallback : Marks \cup {None}, listed : BOOLEAN]

ASSUME EnsembleAssumption ==
  /\ NumMembers \in Nat \ {0}
  /\ DOMAIN ModelOf = Members
  /\ None \notin Pids \cup Marks
  /\ Replies \subseteq SUBSET Finding

VARIABLES
  full,       \* SIFT_INV2_STAGGER is "full"
  stage,      \* of the conductor
  submitted,  \* members handed to the pool, in roster order
  call,       \* where the thread of a member is
  reserve,    \* _reserve, as the thread read it
  calls,      \* API calls the member made
  learned,    \* _THINKING_RESERVE_MODELS
  answered,   \* members whose retry came back with text
  result,     \* what the future of a member holds
  perModel,   \* per_model: member -> findings that will be merged
  order,      \* the order in which per_model was filled
  report,     \* merged findings: fingerprint -> discovered_by
  survivor    \* merged findings: fingerprint -> ensemble_survivor_from

conductor == <<full, stage, submitted, perModel, order, report, survivor>>
threads == <<call, reserve, calls, learned, answered, result>>
vars == <<conductor, threads>>

\* What a future holds: a list of findings (an error entry has none), or
\* something under that name that has no length.
List(R)  == [sized |-> "yes", findings |-> R]
Unusable == [sized |-> "no", findings |-> {}]
Outcomes == {List(R) : R \in Replies \cup {{}}} \cup {Unusable}

NoEntries == [x \in {} |-> {}]

-----------------------------------------------------------------------------
(* Submission.                                                             *)

\* Mutant: the first member is waited for until it has findings.
MaySubmitAfterFindings ==
  full = "yes" /\ submitted = 1 => result[1].findings # {}

\* "full": next(as_completed(...)) blocks until member 1 is done.  The other
\* modes do not wait for an answer ("head" sleeps before the second).
MaySubmit == full = "yes" /\ submitted = 1 => call[1] = "done"

Submit ==
  /\ submitted < NumMembers /\ MaySubmit
  /\ submitted' = submitted + 1
  /\ UNCHANGED <<full, stage, perModel, order, report, survivor, threads>>

-----------------------------------------------------------------------------
(* A member: _call_one_model.                                              *)

Begin(m) ==
  /\ m <= submitted /\ call[m] = "idle"
  /\ call' = [call EXCEPT ![m] = "first"]
  /\ reserve' = [reserve EXCEPT ![m] = IF ModelOf[m] \in learned THEN "yes" ELSE "no"]
  /\ calls' = [calls EXCEPT ![m] = 1]
  /\ UNCHANGED <<conductor, learned, answered, result>>

Finish(m, r) ==
  /\ call' = [call EXCEPT ![m] = "done"]
  /\ result' = [result EXCEPT ![m] = r]

\* Text that parses: a list of findings, or something else under that name.
Answer(m) ==
  /\ call[m] = "first"
  /\ \E r \in Outcomes : Finish(m, r)
  /\ UNCHANGED <<conductor, reserve, calls, learned, answered>>

\* Text that does not parse, an API exception, a refusal, or an empty answer
\* although a budget was reserved: an error entry without findings.
Fail(m) ==
  /\ call[m] = "first"
  /\ Finish(m, List({}))
  /\ UNCHANGED <<conductor, reserve, calls, learned, answered>>

\* Mutant: the model is learned before the retry has produced an answer.
EmptyLearns(m) ==
  /\ call[m] = "first" /\ reserve[m] = "no"
  /\ call' = [call EXCEPT ![m] = "retry"]
  /\ calls' = [calls EXCEPT ![m] = 2]
  /\ learned' = learned \cup {ModelOf[m]}
  /\ UNCHANGED <<conductor, reserve, answered, result>>

\* An empty answer that is no refusal, without a reserve: one more call.
Empty(m) ==
  /\ call[m] = "first" /\ reserve[m] = "no"
  /\ call' = [call EXCEPT ![m] = "retry"]
  /\ calls' = [calls EXCEPT ![m] = 2]
  /\ UNCHANGED <<conductor, reserve, learned, answered, result>>

\* Mutant: the slot is learned, not the model that ran in it.
RetryAnswerLearnsSlot(m) ==
  /\ call[m] = "retry"
  /\ learned' = learned \cup {m}
  /\ answered' = answered \cup {m}
  /\ \E r \in Outcomes : Finish(m, r)
  /\ UNCHANGED <<conductor, reserve, calls>>

\* The second call brings text: the model is learned, parsable or not.
RetryAnswer(m) ==
  /\ call[m] = "retry"
  /\ learned' = learned \cup {ModelOf[m]}
  /\ answered' = answered \cup {m}
  /\ \E r \in Outcomes : Finish(m, r)
  /\ UNCHANGED <<conductor, reserve, calls>>

\* It is empty again, refused, or raises.
RetryFail(m) ==
  /\ call[m] = "retry"
  /\ Finish(m, List({}))
  /\ UNCHANGED <<conductor, reserve, calls, learned, answered>>

-----------------------------------------------------------------------------
(* Collection and merge.                                                   *)

\* Mutant: entries are keyed by the model, so one alias overwrites another.
CollectByModel(m) ==
  LET slot == CHOOSE n \in Members : ModelOf[n] = ModelOf[m] IN
  /\ submitted = NumMembers /\ call[m] = "done" /\ \A i \in 1..Len(order) : order[i] # m
  /\ perModel' = [n \in DOMAIN perModel \cup {slot} |->
                     IF n # slot THEN perModel[n] ELSE result[m].findings]
  /\ order' = Append(order, m)
  /\ UNCHANGED <<full, stage, submitted, report, survivor, threads>>

\* Mutant: the futures are taken to complete in the order of the roster, so an
\* answer is booked under the slot that is due and not under its own.
CollectZipped(m) ==
  LET slot == Len(order) + 1 IN
  /\ submitted = NumMembers /\ call[m] = "done" /\ \A i \in 1..Len(order) : order[i] # m
  /\ perModel' = [n \in DOMAIN perModel \cup {slot} |->
                     IF n # slot THEN perModel[n]
                     ELSE IF result[m].sized = "yes" THEN result[m].findings ELSE {}]
  /\ order' = Append(order, m)
  /\ UNCHANGED <<full, stage, submitted, report, survivor, threads>>

\* as_completed yields the done futures in any order; len() of an unusable
\* value raises, and the entry is replaced by an error without findings.
Collect(m) ==
  /\ submitted = NumMembers /\ call[m] = "done" /\ m \notin DOMAIN perModel
  /\ perModel' = [n \in DOMAIN perModel \cup {m} |->
                     IF n # m THEN perModel[n]
                     ELSE IF result[m].sized = "yes" THEN result[m].findings ELSE {}]
  /\ order' = Append(order, m)
  /\ UNCHANGED <<full, stage, submitted, report, survivor, threads>>

PidsOf(f) == {c.pid : c \in f.claims} \ {None}

\* _atomic_subject_split: the claims about each process, with the claims about
\* none, unless they are related or about one process at most.
Atoms(f) ==
  IF f.related \/ Cardinality(PidsOf(f)) <= 1 THEN {f.claims}
  ELSE {{c \in f.claims : c.pid \in {p, None}} : p \in PidsOf(f)}

Names(C) == ({c.pid : c \in C} \cup {c.mark : c \in C}) \ {None}

\* _fingerprint: the strong entities, or the fallback, or a key of its own.
Key(m, f, C) ==
  [names |-> IF Names(C) # {} THEN Names(C) ELSE {f.fallback} \ {None},
   own   |-> IF Names(C) = {} /\ f.fallback = None THEN {<<m, f>>} ELSE {}]

Keys(m) == UNION {{Key(m, f, C) : C \in Atoms(f)} : f \in perModel[m]}

Fingerprints == UNION {Keys(m) : m \in Members}

Finders(k) == {m \in Members : k \in Keys(m)}

\* The first entry of per_model with the fingerprint is kept.
FirstFinder(k) ==
  order[CHOOSE i \in 1..Len(order) :
          /\ order[i] \in Finders(k)
          /\ \A j \in 1..(i - 1) : order[j] \notin Finders(k)]

\* Claims that cannot be iterated: the exception leaves the merge, and nothing
\* above it catches it.
Mergeable == \A m \in Members : \A f \in perModel[m] : f.listed

Merge ==
  /\ stage = "running" /\ DOMAIN perModel = Members
  /\ Mergeable
  /\ stage' = "merged"
  /\ report' = [k \in Fingerprints |-> Finders(k)]
  /\ survivor' = [k \in Fingerprints |-> FirstFinder(k)]
  /\ UNCHANGED <<full, submitted, perModel, order, threads>>

MergeRaises ==
  /\ stage = "running" /\ DOMAIN perModel = Members
  /\ ~Mergeable
  /\ stage' = "raised"
  /\ UNCHANGED <<full, submitted, perModel, order, report, survivor, threads>>

-----------------------------------------------------------------------------

Init ==
  /\ full \in {"yes", "no"} /\ stage = "running" /\ submitted = 0
  /\ call = [m \in Members |-> "idle"] /\ reserve = [m \in Members |-> "no"]
  /\ calls = [m \in Members |-> 0]
  /\ learned = {} /\ answered = {}
  /\ result = [m \in Members |-> List({})]
  /\ perModel = NoEntries /\ order = <<>>
  /\ report = NoEntries /\ survivor = NoEntries

Member(m) ==
  Begin(m) \/ Answer(m) \/ Fail(m) \/ Empty(m) \/ RetryAnswer(m) \/ RetryFail(m)

Conductor == Submit \/ Merge \/ MergeRaises \/ \E m \in Members : Collect(m)

Next == Conductor \/ \E m \in Members : Member(m)

Spec == Init /\ [][Next]_vars

\* The pool has a thread for every member, and a call ends: with an answer or
\* with the exception of the client's own timeout.
FairMember(m) == WF_vars(Member(m))

Fairness == WF_vars(Conductor) /\ \A m \in Members : FairMember(m)

FairSpec == Spec /\ Fairness

-----------------------------------------------------------------------------
(* Properties.                                                             *)

\* Every variable of the conductor and of the member threads has its type.
TypeOK ==
  /\ full \in {"yes", "no"} /\ stage \in {"running", "merged", "raised"}
  /\ submitted \in 0..NumMembers
  /\ call \in [Members -> {"idle", "first", "retry", "done"}]
  /\ reserve \in [Members -> {"yes", "no"}] /\ calls \in [Members -> 0..2]
  /\ learned \subseteq Models /\ answered \subseteq Members
  /\ result \in [Members -> [sized : {"yes", "no"}, findings : SUBSET Finding]]
  /\ DOMAIN perModel \subseteq Members
  /\ perModel \in [DOMAIN perModel -> SUBSET Finding]
  /\ order \in Seq(Members)

Abstract ==
  INSTANCE Survey
    WITH Subjects <- [names : SUBSET (Pids \cup Marks), own : SUBSET (Members \X Finding)],
         heard <- [m \in DOMAIN perModel |-> Keys(m)],
         written <- IF stage = "merged" THEN "yes" ELSE "no"

\* merge_ensemble_findings, "one survivor per fingerprint but records every
\* dropped duplicate": every member of the roster is heard exactly once, those
\* that run the same model too, and in whatever order they finish the merged
\* list has every fingerprint a member reported, with all the members that did.
KeepsSurvey == Abstract!Spec

\* Under the full stagger, once the first member had to retry and was answered,
\* no later member of its model pays for a second call.
LearnedOnce ==
  full = "yes" /\ 1 \in answered =>
    \A m \in Members \ {1} : ModelOf[m] = ModelOf[1] => calls[m] <= 1

\* "learn the model only if the retry actually produces an answer": a member
\* spends its budget on a reserve only after another member of its model got
\* an answer that way.
LearnedFromAnswer ==
  \A m \in Members :
    reserve[m] = "yes" => \E n \in answered \ {m} : ModelOf[n] = ModelOf[m]

\* Where the conductor or the thread of a member can move.
ConductorMovable ==
  \/ submitted < NumMembers /\ MaySubmit
  \/ submitted = NumMembers /\ \E m \in Members : call[m] = "done" /\ m \notin DOMAIN perModel
  \/ stage = "running" /\ DOMAIN perModel = Members

MemberMovable(m) ==
  call[m] # "done" /\ (call[m] = "idle" => m <= submitted)

\* These guards imply what weak fairness asks about.
ConductorEnabled == ENABLED <<Conductor>>_vars
MemberEnabled(m) == ENABLED <<Member(m)>>_vars

GuardsEnabled ==
  /\ ConductorMovable => ConductorEnabled
  /\ \A m \in Members : MemberMovable(m) => MemberEnabled(m)

\* as_completed never waits for a future that will not be done: until the
\* list is merged, a member has a call to end or the conductor can move, also
\* while the stagger holds the later members back.
NoStall == stage = "running" => ConductorMovable \/ \E m \in Members : MemberMovable(m)

\* What is left to do: the submissions and the merge, and for each member its
\* calls and its collection.
ConductorLeft == NumMembers - submitted + (IF stage = "running" THEN 1 ELSE 0)

CallLeft == [idle |-> 3, first |-> 2, retry |-> 1, done |-> 0]

MemberLeft(m) == CallLeft[call[m]] + (IF m \in DOMAIN perModel THEN 0 ELSE 1)

\* Every step of an ensemble is one submission, call or collection fewer: a
\* member never calls a third time, and nothing is submitted or heard again.
StepsShrink ==
  [][\/ ConductorLeft' < ConductorLeft /\ \A m \in Members : MemberLeft(m)' = MemberLeft(m)
     \/ /\ ConductorLeft' = ConductorLeft
        /\ \E m \in Members :
             /\ MemberLeft(m)' < MemberLeft(m)
             /\ \A n \in Members \ {m} : MemberLeft(n)' = MemberLeft(n)]_vars

\* The future of a submitted member is done at some time, whatever the other
\* members and the conductor do (the timeout of the client ends each call).
CallsEnd == \A m \in Members : m <= submitted ~> call[m] = "done"

\* What an answer contributes: the fingerprints of its list, or nothing.
AnswerKeys(m) ==
  UNION {{Key(m, f, C) : C \in Atoms(f)} :
           f \in IF result[m].sized = "yes" THEN result[m].findings ELSE {}}

\* merge_ensemble_findings, "discovered_by" and "ensemble_survivor_from": the
\* merged list is a function of what the members answered, and names the right
\* ones.  Which of them finished first, who had to retry and what was learned
\* meanwhile leave no trace in it but the choice of the wording, and that is
\* credited to a member whose answer has it.
ReportOfAnswers ==
  stage = "merged" =>
    /\ report = [k \in UNION {AnswerKeys(m) : m \in Members} |->
                   {m \in Members : k \in AnswerKeys(m)}]
    /\ \A k \in DOMAIN report : survivor[k] \in report[k]

\* Every ensemble ends, merged or with the exception of the merge.
EnsembleEnds == <>(stage \in {"merged", "raised"})

=============================================================================
