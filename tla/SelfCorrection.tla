-------------------------- MODULE SelfCorrection --------------------------
(***************************************************************************)
(* Step 12 and the bookkeeping around it: claim repair, the choice of the  *)
(* findings to correct, step_12_self_correct with its thread pool, the     *)
(* attempt loop of self_correct, the corrector closure with its shared     *)
(* counter and prompt files, and the update of the passed and blocked      *)
(* lists.                                                                  *)
(*                                                                         *)
(* A finding on the passed list is an item: the Step 9 finding it goes     *)
(* back to, the finding_id it carries, and whether the strict rule of      *)
(* three matching claims was ever checked and met.                         *)
(***************************************************************************)
EXTENDS Integers, FiniteSets

CONSTANTS Findings,     \* the findings of Step 9
          IdOf,         \* finding_id of each, not necessarily unique
          NoId,         \* a corrected finding without finding_id
          Nobody,       \* content of an empty or absent prompt file
          Tokens,       \* strong identity tokens: file names, addresses
          TextOf,       \* the tokens that occur in the text of each finding
          Workers,      \* size of the Step 12 pool
          MaxAttempts,  \* MAX_CORRECTION_ATTEMPTS
          Strict        \* --strict-validation

Ids == {IdOf[f] : f \in Findings}

ASSUME SelfCorrectionAssumption ==
    /\ IsFiniteSet(Findings)
    /\ IdOf \in [Findings -> Ids]
    /\ NoId \notin Ids
    /\ Nobody \notin Findings
    /\ TextOf \in [Findings -> SUBSET Tokens]
    /\ Workers \in Nat \ {0}
    /\ MaxAttempts \in Nat \ {0}
    /\ Strict \in BOOLEAN

Items == [of : Findings, id : Ids, enough : BOOLEAN]

(* The statuses of the entries of "attempts".                              *)
Statuses == {"ERROR", "RATE_LIMITED", "UNFIXABLE", "DROPPED",
             "MATCH", "MISMATCH", "UNRESOLVED"}
Validated == {"MATCH", "MISMATCH", "UNRESOLVED"}

Outcomes == {"CORRECTED", "EXHAUSTED", "DROPPED_UNSUPPORTED",
             "DROPPED_HONEST", "RAISED"}

(* What the corrector can return that is a finding: the id it carries if   *)
(* any, the strong tokens its claims name, whether three claims match (of  *)
(* interest only with the strict rule), and what validate_finding says.    *)
Answers == [id : Ids \cup {NoId}, names : SUBSET Tokens,
            enough : IF Strict THEN BOOLEAN ELSE {FALSE}, status : Validated]

VARIABLES
    phase,          \* where the conductor is
    verdict,        \* what Step 10 said of each finding
    settled,        \* settled by ReAct: benign, inconclusive, false positive
    passed,         \* the passed list, a set of items
    blocked,        \* the blocked list
    todo,           \* _sc_blocked
    terminal,       \* terminal status step_12 counted, "none" before
    gate,           \* SELF_CORRECTION_EXECUTION_GATE
    contained,      \* results counted in contained_count
    holdout         \* _sc_holdout_findings

VARIABLES
    pc,             \* step of each finding's correction
    attempt,        \* attempt_num
    retried,        \* inside the second call after a rate limit
    statuses,       \* statuses in "attempts"
    lastValidation, \* last_validation is not None
    outcome,        \* outcome_kind of the result, "none" before
    product,        \* the corrected finding, if any
    counter,        \* _sc_counter["n"]
    number,         \* the number a thread read back
    file,           \* whose prompt sc_attempt_<n>_prompt.md holds
    prompt          \* whose prompt the thread sent

conductorVars == <<phase, verdict, settled, passed, blocked, todo, terminal,
                   gate, contained, holdout>>
promptVars == <<counter, number, file, prompt>>
taskVars == <<pc, attempt, retried, statuses, lastValidation, outcome, product>>
vars == <<conductorVars, taskVars, promptVars>>

Original(f) == [of |-> f, id |-> IdOf[f], enough |-> Strict]

-----------------------------------------------------------------------------
(* Step 10 has validated; on an exception of its thread all findings pass. *)
Init ==
    /\ phase = "repair"
    /\ verdict \in [Findings -> Validated]
    /\ settled \in SUBSET Findings
    /\ LET ok == {f \in Findings : verdict[f] = "MATCH"}
       IN /\ passed = {Original(f) : f \in ok}
          /\ blocked = Findings \ ok
    /\ todo = {}
    /\ terminal = [f \in Findings |-> "none"]
    /\ gate = "none"
    /\ contained = {}
    /\ holdout = {}
    /\ pc = [f \in Findings |-> "idle"]
    /\ attempt = [f \in Findings |-> 0]
    /\ retried = [f \in Findings |-> FALSE]
    /\ statuses = [f \in Findings |-> {}]
    /\ lastValidation = [f \in Findings |-> FALSE]
    /\ outcome = [f \in Findings |-> "none"]
    /\ product = [f \in Findings |-> Original(f)]
    /\ counter = 0
    /\ number = [f \in Findings |-> 0]
    /\ file = [n \in {} |-> Nobody]
    /\ prompt = [f \in Findings |-> Nobody]

(* A repaired finding has one bound claim.                                 *)
Repaired(f) == [Original(f) EXCEPT !.enough = FALSE]

(* Claim repair (SIFT_CLAIM_REPAIR; none are repaired when it is off). A   *)
(* MISMATCH is never repaired.                                             *)
ClaimRepair ==
    /\ phase = "repair"
    /\ phase' = "select"
    /\ \E R \in SUBSET {f \in blocked : verdict[f] # "MISMATCH"} :
          /\ blocked' = blocked \ R
          /\ passed' = passed \cup {Repaired(f) : f \in R}
    /\ UNCHANGED <<verdict, settled, todo, terminal, gate, contained, holdout,
                   taskVars, promptVars>>

(* Blocked findings to correct: not those whose id ReAct settled, none with *)
(* inv3a, the first two with Ollama.                                       *)
ForCorrection ==
    {f \in blocked : IdOf[f] \notin {IdOf[g] : g \in settled}}

Select ==
    /\ phase = "select"
    /\ \E T \in {ForCorrection, {}}
               \cup {S \in SUBSET ForCorrection : Cardinality(S) = 2} :
          /\ todo' = T
          /\ phase' = IF T = {} THEN "account" ELSE "correct"
          /\ pc' = [f \in Findings |-> IF f \in T THEN "queued" ELSE "idle"]
    /\ UNCHANGED <<verdict, settled, passed, blocked, terminal, gate,
                   contained, holdout, attempt, retried, statuses,
                   lastValidation, outcome, product, promptVars>>

-----------------------------------------------------------------------------
(* One correction, _correct_one and self_correct, on a pool thread.        *)

Busy == {f \in Findings : pc[f] \notin {"idle", "queued", "returned"}}

Goto(f, step) == pc' = [pc EXCEPT ![f] = step]

Start(f) ==
    /\ pc[f] = "queued"
    /\ Cardinality(Busy) < Workers
    /\ Goto(f, "loop")
    /\ UNCHANGED <<conductorVars, attempt, retried, statuses, lastValidation,
                   outcome, product, promptVars>>

(* The head of the loop, within the attempts and the total timeout.        *)
BeginAttempt(f) ==
    /\ pc[f] = "loop"
    /\ attempt[f] < MaxAttempts
    /\ attempt' = [attempt EXCEPT ![f] = @ + 1]
    /\ retried' = [retried EXCEPT ![f] = FALSE]
    /\ Goto(f, "call")
    /\ UNCHANGED <<conductorVars, statuses, lastValidation, outcome, product,
                   promptVars>>

(* Mutant: only the recorded statuses are looked at.                       *)
ExhaustedOutcomeStatusesOnly(seen, validation) ==
    IF seen \cap {"MISMATCH", "MATCH"} # {} THEN "EXHAUSTED" ELSE "DROPPED_HONEST"

(* _any_validator_rejection decides between the two exhausted outcomes.    *)
ExhaustedOutcome(seen, validation) ==
    IF seen \cap {"MISMATCH", "MATCH"} # {} \/ validation
      THEN "EXHAUSTED" ELSE "DROPPED_HONEST"

Return(f, kind) == /\ outcome' = [outcome EXCEPT ![f] = kind]
                   /\ Goto(f, "returned")

(* The attempts are used up, or total_timeout has passed at the loop head. *)
GiveUp(f) ==
    /\ pc[f] = "loop"
    /\ Return(f, ExhaustedOutcome(statuses[f], lastValidation[f]))
    /\ UNCHANGED <<conductorVars, attempt, retried, statuses, lastValidation,
                   product, promptVars>>

(* corrector_fn: the counter is increased, and read again after the import *)
(* of build_sc_prompt; write_state truncates the file when it opens it and *)
(* writes it; _invoke reads it back.                                       *)
TakeNumber(f) ==
    /\ pc[f] = "call"
    /\ counter' = counter + 1
    /\ Goto(f, "numbered")
    /\ UNCHANGED <<conductorVars, attempt, retried, statuses, lastValidation,
                   outcome, product, number, file, prompt>>

(* Mutant: the number of the next prompt.                                  *)
ReadNumberAhead(f) ==
    /\ pc[f] = "numbered"
    /\ number' = [number EXCEPT ![f] = counter + 1]
    /\ Goto(f, "open")
    /\ UNCHANGED <<conductorVars, attempt, retried, statuses, lastValidation,
                   outcome, product, counter, file, prompt>>

ReadNumber(f) ==
    /\ pc[f] = "numbered"
    /\ number' = [number EXCEPT ![f] = counter]
    /\ Goto(f, "open")
    /\ UNCHANGED <<conductorVars, attempt, retried, statuses, lastValidation,
                   outcome, product, counter, file, prompt>>

OpenPrompt(f) ==
    /\ pc[f] = "open"
    /\ file' = [n \in DOMAIN file \cup {number[f]} |->
                   IF n = number[f] THEN Nobody ELSE file[n]]
    /\ Goto(f, "write")
    /\ UNCHANGED <<conductorVars, attempt, retried, statuses, lastValidation,
                   outcome, product, counter, number, prompt>>

WritePrompt(f) ==
    /\ pc[f] = "write"
    /\ file' = [file EXCEPT ![number[f]] = f]
    /\ Goto(f, "send")
    /\ UNCHANGED <<conductorVars, attempt, retried, statuses, lastValidation,
                   outcome, product, counter, number, prompt>>

SendPrompt(f) ==
    /\ pc[f] = "send"
    /\ prompt' = [prompt EXCEPT ![f] = file[number[f]]]
    /\ Goto(f, "reply")
    /\ UNCHANGED <<conductorVars, attempt, retried, statuses, lastValidation,
                   outcome, product, counter, number, file>>

(* The attempt is recorded and the loop goes on.                           *)
Record(f, status) == statuses' = [statuses EXCEPT ![f] = @ \cup {status}]

(* Mutant: the prompt is sent again until the rate limit is gone.          *)
RateLimitedResends(f) ==
    /\ pc[f] = "reply"
    /\ retried' = [retried EXCEPT ![f] = TRUE]
    /\ Goto(f, "send")
    /\ UNCHANGED <<conductorVars, attempt, statuses, lastValidation, outcome,
                   product, promptVars>>

(* A first rate limit is answered with one more call, after a wait.        *)
RateLimited(f) ==
    /\ pc[f] = "reply"
    /\ ~retried[f]
    /\ retried' = [retried EXCEPT ![f] = TRUE]
    /\ Goto(f, "call")
    /\ UNCHANGED <<conductorVars, attempt, statuses, lastValidation, outcome,
                   product, promptVars>>

(* An exception, None, a reply or a wrapped finding that is no dict; any   *)
(* exception of the second call is recorded as a rate limit.               *)
NoAnswer(f) ==
    /\ pc[f] = "reply"
    /\ \E status \in {"ERROR"} \cup (IF retried[f] THEN {"RATE_LIMITED"} ELSE {}) :
          Record(f, status)
    /\ Goto(f, "loop")
    /\ UNCHANGED <<conductorVars, attempt, retried, lastValidation, outcome,
                   product, promptVars>>

(* {"reasoning": ..., "finding": null} ends the loop.                      *)
DeclareUnfixable(f) ==
    /\ pc[f] = "reply"
    /\ Record(f, "UNFIXABLE")
    /\ Return(f, ExhaustedOutcome(statuses[f], lastValidation[f]))
    /\ UNCHANGED <<conductorVars, attempt, retried, lastValidation, product,
                   promptVars>>

Drop(f) ==
    /\ pc[f] = "reply"
    /\ Record(f, "DROPPED")
    /\ Return(f, "DROPPED_UNSUPPORTED")
    /\ UNCHANGED <<conductorVars, attempt, retried, lastValidation, product,
                   promptVars>>

(* "claims" is not a list: normalize_claims or the subject check raises,   *)
(* and nothing in self_correct catches it.                                 *)
Raise(f) ==
    /\ pc[f] = "reply"
    /\ Return(f, "RAISED")
    /\ UNCHANGED <<conductorVars, attempt, retried, statuses, lastValidation,
                   product, promptVars>>

(* _f4_subject_consistent: one of the tokens occurs somewhere in the text   *)
(* of the finding (the finding of another subject may do as well), or the   *)
(* claims name none.                                                       *)
SubjectConsistent(f, answer) ==
    answer.names = {} \/ answer.names \cap TextOf[f] # {}

(* validate_finding is called with the reference set alone, without the    *)
(* strict flag. What it rejects, and a drift of subject, cost an attempt.  *)
Reject(f) ==
    /\ pc[f] = "reply"
    /\ \E answer \in Answers :
          /\ \/ answer.status # "MATCH"
             \/ ~SubjectConsistent(f, answer)
          /\ Record(f, answer.status)
    /\ lastValidation' = [lastValidation EXCEPT ![f] = TRUE]
    /\ Goto(f, "loop")
    /\ UNCHANGED <<conductorVars, attempt, retried, outcome, product, promptVars>>

(* _preserve_identity: an id the AI emitted is kept.                       *)
PreservedId(f, answer) == IF answer.id = NoId THEN IdOf[f] ELSE answer.id

Accept(f) ==
    /\ pc[f] = "reply"
    /\ \E answer \in Answers :
          /\ answer.status = "MATCH"
          /\ SubjectConsistent(f, answer)
          /\ Record(f, answer.status)
          /\ product' = [product EXCEPT ![f] =
                [of |-> f, id |-> PreservedId(f, answer),
                 enough |-> answer.enough]]
    /\ Return(f, "CORRECTED")
    /\ UNCHANGED <<conductorVars, attempt, retried, lastValidation, promptVars>>

-----------------------------------------------------------------------------
(* Mutant: the phrases are looked for before self_corrected.               *)
TerminalClassByText(kind, marked) ==
    CASE kind = "RAISED" -> "failed_with_reason"
      [] marked -> "dropped_honest"
      [] kind = "CORRECTED" -> "corrected"
      [] kind \in {"DROPPED_UNSUPPORTED", "DROPPED_HONEST"} -> "dropped_honest"
      [] OTHER -> "rejected"

(* The main thread of step_12: results in the order they finish, each put  *)
(* in a terminal class. The class of an exhausted finding also depends on  *)
(* whether phrases such as "cannot be verified" occur in the text of its   *)
(* result, the AI's reasoning and the draft included.                      *)
TerminalClass(kind, marked) ==
    CASE kind = "RAISED" -> "failed_with_reason"
      [] kind = "CORRECTED" -> "corrected"
      [] kind \in {"DROPPED_UNSUPPORTED", "DROPPED_HONEST"} -> "dropped_honest"
      [] OTHER -> IF marked THEN "dropped_honest" ELSE "rejected"

Collect(f) ==
    /\ phase = "correct"
    /\ pc[f] = "returned"
    /\ terminal[f] = "none"
    /\ \E marked \in BOOLEAN :
          terminal' = [terminal EXCEPT ![f] = TerminalClass(outcome[f], marked)]
    /\ UNCHANGED <<phase, verdict, settled, passed, blocked, todo, gate,
                   contained, holdout, taskVars, promptVars>>

Summarise ==
    /\ phase = "correct"
    /\ \A f \in todo : terminal[f] # "none"
    /\ gate' = IF \E f \in todo : terminal[f] = "failed_with_reason"
                 THEN "FAIL" ELSE "PASS"
    /\ phase' = "account"
    /\ UNCHANGED <<verdict, settled, passed, blocked, todo, terminal,
                   contained, holdout, taskVars, promptVars>>

(* A result without outcome_kind, that of an exception, counts as exhausted; *)
(* it has no finding to hold out.                                          *)
Kind(f) == IF outcome[f] = "RAISED" THEN "EXHAUSTED" ELSE outcome[f]

Corrected == {f \in todo : outcome[f] = "CORRECTED"}

(* Mutant: the removal goes by the id of the corrected finding.            *)
UnblockedByProduct == {f \in blocked : IdOf[f] \in {product[g].id : g \in Corrected}}

(* The removal goes by the finding_id of the draft.                        *)
Unblocked == {f \in blocked : IdOf[f] \in {IdOf[g] : g \in Corrected}}

(* Mutant: whatever was attempted leaves the blocked list.                 *)
AccountDropsAttempted ==
    /\ phase = "account"
    /\ passed' = passed \cup {product[f] : f \in Corrected}
    /\ contained' = todo \ Corrected
    /\ holdout' = {f \in contained' : outcome[f] # "RAISED"}
    /\ blocked' = blocked \ todo
    /\ phase' = "done"
    /\ UNCHANGED <<verdict, settled, todo, terminal, gate, taskVars, promptVars>>

Account ==
    /\ phase = "account"
    /\ passed' = passed \cup {product[f] : f \in Corrected}
    /\ contained' = {f \in todo : Kind(f) \in
                        {"DROPPED_UNSUPPORTED", "EXHAUSTED", "DROPPED_HONEST"}}
    /\ holdout' = {f \in contained' : outcome[f] # "RAISED"}
    /\ blocked' = blocked \ Unblocked
    /\ phase' = "done"
    /\ UNCHANGED <<verdict, settled, todo, terminal, gate, taskVars, promptVars>>

-----------------------------------------------------------------------------
Conductor == ClaimRepair \/ Select \/ Summarise \/ Account
                \/ \E f \in Findings : Collect(f)

Answered(f) == RateLimited(f) \/ NoAnswer(f) \/ DeclareUnfixable(f) \/ Drop(f)
                  \/ Raise(f) \/ Reject(f) \/ Accept(f)

Task(f) == Start(f) \/ BeginAttempt(f) \/ GiveUp(f)
              \/ TakeNumber(f) \/ ReadNumber(f) \/ OpenPrompt(f)
              \/ WritePrompt(f) \/ SendPrompt(f) \/ Answered(f)

Terminated == phase = "done" /\ UNCHANGED vars

Next == Conductor \/ (\E f \in Findings : Task(f)) \/ Terminated

(* Every call of the AI and of the validator returns.                      *)
FairTask(f) == WF_vars(Task(f))

Fairness == WF_vars(Conductor) /\ \A f \in Findings : FairTask(f)

Spec == Init /\ [][Next]_vars

FairSpec == Spec /\ Fairness

-----------------------------------------------------------------------------
(* The variables have the types the code gives them; a finding is held out *)
(* or counted only after it was selected, and a thread that sends a prompt *)
(* has a number the counter has reached.                                   *)
TypeOK ==
    /\ phase \in {"repair", "select", "correct", "account", "done"}
    /\ verdict \in [Findings -> Validated]
    /\ settled \subseteq Findings
    /\ passed \subseteq Items
    /\ blocked \subseteq Findings
    /\ todo \subseteq Findings
    /\ terminal \in [Findings -> {"none", "corrected", "rejected",
                                  "dropped_honest", "failed_with_reason"}]
    /\ gate \in {"none", "PASS", "FAIL"}
    /\ contained \subseteq todo
    /\ holdout \subseteq contained
    /\ pc \in [Findings -> {"idle", "queued", "loop", "call", "numbered", "open",
                            "write", "send", "reply", "returned"}]
    /\ attempt \in [Findings -> 0 .. MaxAttempts]
    /\ retried \in [Findings -> BOOLEAN]
    /\ statuses \in [Findings -> SUBSET Statuses]
    /\ lastValidation \in [Findings -> BOOLEAN]
    /\ outcome \in [Findings -> Outcomes \cup {"none"}]
    /\ product \in [Findings -> Items]
    /\ counter \in Nat
    /\ number \in [Findings -> 0 .. counter]
    /\ file \in [DOMAIN file -> Findings \cup {Nobody}]
    /\ \A f \in Findings : pc[f] \in {"write", "send"} => number[f] \in DOMAIN file
    /\ prompt \in [Findings -> Findings \cup {Nobody}]

PassedFindings == {item.of : item \in passed}

(* Every finding is on one of the two lists and only once, through claim   *)
(* repair, correction by parallel threads, ids the AI made up, and the     *)
(* removal by finding_id. (Needs ids that are unique.)                     *)
ListsPartition ==
    /\ PassedFindings \cup blocked = Findings
    /\ PassedFindings \cap blocked = {}
    /\ \A a, b \in passed : a.of = b.of => a = b

(* The counters of step_12 and those of the pipeline, which classify the   *)
(* results independently, agree on what was corrected; every attempted     *)
(* finding is counted once; the gate fails exactly if a thread raised.     *)
CountsAgree ==
    (phase = "done" /\ todo # {}) =>
        /\ {f \in todo : terminal[f] = "corrected"} = todo \cap PassedFindings
        /\ contained = todo \ PassedFindings
        /\ gate = "FAIL" <=> \E f \in todo : outcome[f] = "RAISED"

(* DROPPED_HONEST, "no attempt produced a classifiable AI decision", is    *)
(* only said of findings the validator never looked at again, and          *)
(* EXHAUSTED only of those it did, over all attempts and early exits.      *)
HonestExhaustion ==
    \A f \in Findings :
        /\ outcome[f] = "DROPPED_HONEST" => statuses[f] \cap Validated = {}
        /\ outcome[f] = "EXHAUSTED" => statuses[f] \cap Validated # {}

(* Step 12 implements the ledger: findings only ever leave the blocked     *)
(* list for the passed list. (Needs ids that are unique.)                  *)
Ledger == INSTANCE FindingsLedger WITH passed <- PassedFindings
KeepsLedger == Ledger!Spec

(* Every correction ends and the pipeline gets past Step 12.               *)
CorrectionsEnd == <>(phase = "done")

(* When the conductor and a correction can move, spelled out: a queued     *)
(* correction needs a worker, the conductor a result it has not counted or *)
(* all of them.                                                            *)
ConductorMovable ==
    \/ phase \in {"repair", "select", "account"}
    \/ /\ phase = "correct"
       /\ \/ \A f \in todo : terminal[f] # "none"
          \/ \E f \in Findings : pc[f] = "returned" /\ terminal[f] = "none"

TaskMovable(f) ==
    /\ pc[f] \notin {"idle", "returned"}
    /\ pc[f] = "queued" => Cardinality(Busy) < Workers

(* These guards imply what weak fairness asks about.                       *)
ConductorEnabled == ENABLED <<Conductor>>_vars
TaskEnabled(f) == ENABLED <<Task(f)>>_vars

GuardsEnabled ==
    /\ ConductorMovable => ConductorEnabled
    /\ \A f \in Findings : TaskMovable(f) => TaskEnabled(f)

(* Step 12 never waits for a result that will not come: until the lists    *)
(* are updated the conductor can move or a correction can, however few     *)
(* workers there are (as_completed over the futures of step_12).           *)
NoStall ==
    phase # "done" => ConductorMovable \/ \E f \in Findings : TaskMovable(f)

(* What is left to do: the phases of the conductor, and for each finding   *)
(* its attempts, the calls and steps of the one under way and its count.   *)
PhaseLeft ==
    [repair |-> 4, select |-> 3, correct |-> 2, account |-> 1, done |-> 0][phase]

CallLeft ==
    [call |-> 7, numbered |-> 6, open |-> 5, write |-> 4, send |-> 3, reply |-> 2]

StepsLeft(step, again) ==
    IF step \in DOMAIN CallLeft
    THEN CallLeft[step] + (IF again THEN 0 ELSE 6)
    ELSE [idle |-> 3, queued |-> 2, loop |-> 1, returned |-> 0][step]

Rank(f) ==
    13 * (MaxAttempts - attempt[f]) + StepsLeft(pc[f], retried[f])
        + (IF terminal[f] = "none" THEN 1 ELSE 0)

(* Every step of Step 12 brings the phase or one finding's correction      *)
(* nearer its end and sets no correction back: a rate limit, a rejected    *)
(* answer, an error and the race for prompt files only use attempts up.    *)
StepsShrink ==
    [][\/ PhaseLeft' < PhaseLeft /\ \A f \in Findings : Rank(f)' <= Rank(f)
       \/ /\ PhaseLeft' = PhaseLeft
          /\ \E f \in Findings :
                /\ Rank(f)' < Rank(f)
                /\ \A g \in Findings \ {f} : Rank(g)' = Rank(g)]_vars

-----------------------------------------------------------------------------
(* "Each SC is independent": an accepted correction never answers the      *)
(* prompt of another finding.                                              *)
CorrectionAnswersOwnPrompt ==
    \A f \in Findings : outcome[f] = "CORRECTED" => prompt[f] \in {f, Nobody}
=============================================================================
