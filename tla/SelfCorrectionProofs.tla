----------------------- MODULE SelfCorrectionProofs -----------------------
(***************************************************************************)
(* Proofs about SelfCorrection for any findings, pool size, number of      *)
(* attempts and ids.  The inductive invariant adds to the properties what  *)
(* the phases of the conductor and of a correction know of each other: a   *)
(* correction only runs for a selected finding, which stays blocked until  *)
(* the bookkeeping; a result is classified once its thread has returned;   *)
(* and a thread that has not returned remembers in last_validation whether *)
(* the validator looked at any of its answers.  Termination is the last    *)
(* part, by the steps that a correction and the conductor have left.       *)
(***************************************************************************)
EXTENDS SelfCorrection, Descent

(* Where the conductor is.                                                 *)
Phases ==
    /\ phase \in {"repair", "select"} => todo = {}
    /\ phase # "done" => contained = {} /\ holdout = {} /\ todo \subseteq blocked
    /\ phase \in {"account", "done"} => \A f \in todo : terminal[f] # "none"
    /\ phase \in {"account", "done"} /\ todo # {} =>
          (gate = "FAIL" <=> \E f \in todo : terminal[f] = "failed_with_reason")

(* Where a correction is.                                                  *)
Corrections ==
    \A f \in Findings :
        /\ pc[f] # "idle" => f \in todo
        /\ pc[f] = "returned" <=> outcome[f] # "none"
        /\ pc[f] # "returned" =>
              (lastValidation[f] <=> statuses[f] \cap Validated # {})

(* What step_12 counted of a result is what self_correct returned.         *)
Terminals ==
    \A f \in Findings : terminal[f] # "none" =>
        /\ pc[f] = "returned"
        /\ terminal[f] = "corrected" <=> outcome[f] = "CORRECTED"
        /\ terminal[f] = "failed_with_reason" <=> outcome[f] = "RAISED"

(* Whatever a thread has produced goes back to its own finding.            *)
Products == \A f \in Findings : product[f].of = f

(* The bookkeeping keeps the lists apart only if ids are unique.           *)
UniqueIds == \A f, g \in Findings : IdOf[f] = IdOf[g] => f = g

Lists == (phase # "done" \/ UniqueIds) => ListsPartition

IInv ==
    /\ TypeOK
    /\ Phases
    /\ Corrections
    /\ HonestExhaustion
    /\ Terminals
    /\ Products
    /\ Lists
    /\ CountsAgree

-----------------------------------------------------------------------------
(* The items made without the AI.                                          *)
LEMMA OriginalItem ==
    ASSUME NEW f \in Findings
    PROVE  /\ Original(f) \in Items
           /\ Original(f).of = f
           /\ Repaired(f) \in Items
           /\ Repaired(f).of = f
  BY SelfCorrectionAssumption DEF Original, Repaired, Items, Ids

LEMMA InitInv == Init => IInv
  <1> SUFFICES ASSUME Init PROVE IInv
    OBVIOUS
  <1> DEFINE ok == {f \in Findings : verdict[f] = "MATCH"}
  <1>1. passed = {Original(f) : f \in ok} /\ blocked = Findings \ ok
    BY DEF Init
  <1>2. \A f \in Findings : Original(f) \in Items /\ Original(f).of = f
    BY OriginalItem
  <1>3. PassedFindings = ok
    BY <1>1, <1>2 DEF PassedFindings
  <1>4. TypeOK
    <2>1. passed \subseteq Items
      BY <1>1, <1>2
    <2>2. product \in [Findings -> Items]
      BY <1>2 DEF Init
    <2>3. file \in [DOMAIN file -> Findings \cup {Nobody}]
      BY DEF Init
    <2>4. QED
      BY <2>1, <2>2, <2>3, <1>1, SelfCorrectionAssumption DEF Init, TypeOK
  <1>5. Phases /\ Corrections /\ HonestExhaustion /\ Terminals
    BY DEF Init, Phases, Corrections, HonestExhaustion, Terminals, Validated
  <1>6. Products
    BY <1>2 DEF Init, Products
  <1>7. ListsPartition
    BY <1>1, <1>2, <1>3 DEF ListsPartition
  <1>8. CountsAgree
    BY DEF Init, CountsAgree
  <1>9. QED
    BY <1>4, <1>5, <1>6, <1>7, <1>8 DEF IInv, Lists

-----------------------------------------------------------------------------
(* The steps of a correction.                                              *)

(* A correction that steps has not returned, and touches neither the       *)
(* lists nor another finding's correction.                                 *)
LEMMA TaskFrame ==
    ASSUME TypeOK, NEW f \in Findings, Task(f)
    PROVE  /\ UNCHANGED conductorVars
           /\ pc[f] \notin {"idle", "returned"}
           /\ pc' = [pc EXCEPT ![f] = pc'[f]] /\ pc'[f] # "idle"
           /\ outcome' = [outcome EXCEPT ![f] = outcome'[f]]
           /\ pc'[f] = "returned" => outcome'[f] \in Outcomes
           /\ pc'[f] # "returned" => outcome' = outcome
           /\ statuses' = [statuses EXCEPT ![f] = statuses'[f]]
           /\ lastValidation' = [lastValidation EXCEPT ![f] = lastValidation'[f]]
           /\ product' = [product EXCEPT ![f] = product'[f]]
  <1> USE DEF TypeOK, Goto, Return, Record, promptVars
  <1>1. CASE Start(f) \/ BeginAttempt(f)
    BY <1>1 DEF Start, BeginAttempt
  <1>2. CASE GiveUp(f)
    BY <1>2 DEF GiveUp, ExhaustedOutcome, Outcomes
  <1>3. CASE TakeNumber(f) \/ ReadNumber(f) \/ OpenPrompt(f)
                \/ WritePrompt(f) \/ SendPrompt(f)
    BY <1>3 DEF TakeNumber, ReadNumber, OpenPrompt, WritePrompt, SendPrompt
  <1>4. CASE RateLimited(f) \/ NoAnswer(f)
    BY <1>4 DEF RateLimited, NoAnswer
  <1>5. CASE DeclareUnfixable(f)
    BY <1>5 DEF DeclareUnfixable, ExhaustedOutcome, Outcomes
  <1>6. CASE Drop(f) \/ Raise(f)
    BY <1>6 DEF Drop, Raise, Outcomes
  <1>7. CASE Reject(f)
    BY <1>7 DEF Reject
  <1>8. CASE Accept(f)
    BY <1>8 DEF Accept, Outcomes
  <1>9. QED
    BY <1>1, <1>2, <1>3, <1>4, <1>5, <1>6, <1>7, <1>8 DEF Task, Answered
(* An item the AI corrected, whatever id it made up, is the finding's own. *)
LEMMA AcceptedItem ==
    ASSUME NEW f \in Findings, NEW answer \in Answers
    PROVE  LET item == [of |-> f, id |-> PreservedId(f, answer),
                        enough |-> answer.enough]
           IN  item \in Items /\ item.of = f
  <1>1. answer.enough \in BOOLEAN
    BY DEF Answers
  <1>2. PreservedId(f, answer) \in Ids
    BY SelfCorrectionAssumption DEF Answers, PreservedId, Ids
  <1>3. QED
    BY <1>1, <1>2 DEF Items

LEMMA TaskTypes ==
    ASSUME TypeOK, NEW f \in Findings, Task(f)
    PROVE  TypeOK'
  <1> USE SelfCorrectionAssumption
      DEF TypeOK, Goto, Return, Record, promptVars, conductorVars, Statuses, Validated
  <1>1. CASE Start(f)
    BY <1>1 DEF Start
  <1>2. CASE BeginAttempt(f)
    BY <1>2 DEF BeginAttempt
  <1>3. CASE GiveUp(f)
    BY <1>3 DEF GiveUp, ExhaustedOutcome, Outcomes
  <1>4. CASE TakeNumber(f)
    BY <1>4 DEF TakeNumber
  <1>5. CASE ReadNumber(f)
    BY <1>5 DEF ReadNumber
  <1>6. CASE OpenPrompt(f)
    BY <1>6 DEF OpenPrompt
  <1>7. CASE WritePrompt(f)
    BY <1>7 DEF WritePrompt
  <1>8. CASE SendPrompt(f)
    BY <1>8 DEF SendPrompt
  <1>9. CASE RateLimited(f)
    BY <1>9 DEF RateLimited
  <1>10. CASE NoAnswer(f)
    <2>1. PICK s \in {"ERROR", "RATE_LIMITED"} : Record(f, s)
      BY <1>10 DEF NoAnswer
    <2>2. QED
      BY <1>10, <2>1 DEF NoAnswer
  <1>11. CASE DeclareUnfixable(f) \/ Drop(f) \/ Raise(f)
    BY <1>11 DEF DeclareUnfixable, Drop, Raise, ExhaustedOutcome, Outcomes
  <1>12. CASE Reject(f)
    BY <1>12 DEF Reject, Answers
  <1>13. CASE Accept(f)
    <2>1. PICK answer \in Answers :
             /\ Record(f, "MATCH")
             /\ product' = [product EXCEPT ![f] =
                   [of |-> f, id |-> PreservedId(f, answer),
                    enough |-> answer.enough]]
      BY <1>13 DEF Accept
    <2>2. product' \in [Findings -> Items]
      BY <2>1, AcceptedItem
    <2>3. QED
      BY <1>13, <2>1, <2>2 DEF Accept, Outcomes
  <1>14. QED
    BY <1>1, <1>3, <1>4, <1>5, <1>6, <1>7, <1>8, <1>9, <1>11, <1>12, <1>13,
       <1>2, <1>10
    DEF Task, Answered

(* last_validation remembers that the validator has looked at an answer,   *)
(* and the exhausted outcomes are chosen by it.                            *)
LEMMA TaskRemembers ==
    ASSUME TypeOK, Corrections, NEW f \in Findings, Task(f)
    PROVE  /\ pc'[f] # "returned" =>
                 (lastValidation'[f] <=> statuses'[f] \cap Validated # {})
           /\ outcome'[f] = "DROPPED_HONEST" => statuses'[f] \cap Validated = {}
           /\ outcome'[f] = "EXHAUSTED" => statuses'[f] \cap Validated # {}
  <1> USE DEF TypeOK, Corrections, Goto, Return, Record, Validated
  <1>1. pc[f] # "returned" /\ outcome[f] = "none"
    BY TaskFrame
  <1>2. CASE GiveUp(f)
    BY <1>1, <1>2 DEF GiveUp, ExhaustedOutcome
  <1>3. CASE NoAnswer(f)
    BY <1>1, <1>3 DEF NoAnswer
  <1>4. CASE DeclareUnfixable(f)
    BY <1>1, <1>4 DEF DeclareUnfixable, ExhaustedOutcome
  <1>5. CASE Drop(f) \/ Raise(f)
    BY <1>1, <1>5 DEF Drop, Raise
  <1>6. CASE Reject(f)
    <2>1. PICK s \in Validated : Record(f, s)
      BY <1>6 DEF Reject, Answers
    <2>2. QED
      BY <1>1, <1>6, <2>1 DEF Reject
  <1>7. CASE Accept(f)
    BY <1>1, <1>7 DEF Accept
  <1>8. CASE Start(f) \/ BeginAttempt(f) \/ TakeNumber(f) \/ ReadNumber(f)
                \/ OpenPrompt(f) \/ WritePrompt(f) \/ SendPrompt(f) \/ RateLimited(f)
    BY <1>1, <1>8 DEF Start, BeginAttempt, TakeNumber, ReadNumber, OpenPrompt,
                      WritePrompt, SendPrompt, RateLimited
  <1>9. QED
    BY <1>2, <1>3, <1>4, <1>5, <1>6, <1>7, <1>8 DEF Task, Answered

(* What a thread produces goes back to its finding; most produce nothing.  *)
LEMMA TaskProduces ==
    ASSUME TypeOK, Products, NEW f \in Findings, Task(f)
    PROVE  Products'
  <1>1. CASE Accept(f)
    <2>1. PICK answer \in Answers :
             /\ product' = [product EXCEPT ![f] =
                   [of |-> f, id |-> PreservedId(f, answer),
                    enough |-> answer.enough]]
      BY <1>1 DEF Accept
    <2>2. QED
      BY <2>1, AcceptedItem DEF TypeOK, Products
  <1>2. CASE ~Accept(f)
    <2>1. product' = product
      BY <1>2 DEF Task, Answered, Start, BeginAttempt, GiveUp, TakeNumber,
                  ReadNumber, OpenPrompt, WritePrompt, SendPrompt, RateLimited,
                  NoAnswer, DeclareUnfixable, Drop, Raise, Reject
    <2>2. QED
      BY <2>1 DEF Products
  <1>3. QED
    BY <1>1, <1>2

LEMMA TaskStep ==
    ASSUME IInv, NEW f \in Findings, Task(f)
    PROVE  IInv'
  <1>1. /\ UNCHANGED conductorVars
        /\ pc[f] \notin {"idle", "returned"}
        /\ pc' = [pc EXCEPT ![f] = pc'[f]] /\ pc'[f] # "idle"
        /\ outcome' = [outcome EXCEPT ![f] = outcome'[f]]
        /\ pc'[f] = "returned" => outcome'[f] \in Outcomes
        /\ pc'[f] # "returned" => outcome' = outcome
        /\ statuses' = [statuses EXCEPT ![f] = statuses'[f]]
        /\ lastValidation' = [lastValidation EXCEPT ![f] = lastValidation'[f]]
    BY TaskFrame DEF IInv
  <1>2. TypeOK'
    BY TaskTypes DEF IInv
  <1>3. /\ pc'[f] # "returned" =>
              (lastValidation'[f] <=> statuses'[f] \cap Validated # {})
        /\ outcome'[f] = "DROPPED_HONEST" => statuses'[f] \cap Validated = {}
        /\ outcome'[f] = "EXHAUSTED" => statuses'[f] \cap Validated # {}
    BY TaskRemembers DEF IInv
  <1>4. Corrections' /\ HonestExhaustion'
    BY <1>1, <1>2, <1>3
    DEF IInv, TypeOK, Corrections, HonestExhaustion, conductorVars, Outcomes
  <1>5. terminal[f] = "none"
    BY <1>1 DEF IInv, Terminals
  <1>6. Terminals'
    BY <1>1, <1>5 DEF IInv, TypeOK, Terminals, conductorVars
  <1>7. Products'
    BY TaskProduces DEF IInv
  <1>8. Phases'
    BY <1>1 DEF IInv, Phases, conductorVars
  <1>9. Lists'
    BY <1>1 DEF IInv, Lists, ListsPartition, PassedFindings, UniqueIds, conductorVars
  <1>10. CountsAgree'
    <2>1. f \in todo
      BY <1>1 DEF IInv, Corrections
    <2>2. phase # "done"
      BY <1>5, <2>1 DEF IInv, Phases
    <2>3. QED
      BY <1>1, <2>2 DEF CountsAgree, conductorVars
  <1>11. QED
    BY <1>2, <1>4, <1>6, <1>7, <1>8, <1>9, <1>10 DEF IInv
-----------------------------------------------------------------------------
(* The steps of the conductor.                                             *)

LEMMA RepairStep == ASSUME IInv, ClaimRepair PROVE IInv'
  <1>1. PICK R \in SUBSET blocked :
           /\ blocked' = blocked \ R
           /\ passed' = passed \cup {Repaired(f) : f \in R}
    BY DEF ClaimRepair
  <1>2. R \subseteq Findings /\ ListsPartition
    BY DEF IInv, TypeOK, Lists, ClaimRepair
  <1>3. \A f \in R : Repaired(f) \in Items /\ Repaired(f).of = f
    BY <1>2, OriginalItem
  <1>4. /\ phase = "repair" /\ phase' = "select"
        /\ UNCHANGED <<verdict, settled, todo, terminal, gate, contained, holdout,
                       pc, attempt, retried, statuses, lastValidation, outcome,
                       product, counter, number, file, prompt>>
    BY DEF ClaimRepair, taskVars, promptVars
  <1>5. TypeOK'
    <2>1. passed' \subseteq Items /\ blocked' \subseteq Findings
      BY <1>1, <1>3 DEF IInv, TypeOK
    <2>2. QED
      BY <1>4, <2>1 DEF IInv, TypeOK
  <1>6. Phases'
    BY <1>4 DEF IInv, Phases
  <1>7. Corrections' /\ HonestExhaustion' /\ Terminals' /\ Products' /\ CountsAgree'
    BY <1>4 DEF IInv, Corrections, HonestExhaustion, Terminals, Products, CountsAgree
  <1>8. ListsPartition'
    BY <1>1, <1>2, <1>3 DEF ListsPartition, PassedFindings
  <1>9. QED
    BY <1>5, <1>6, <1>7, <1>8 DEF IInv, Lists

LEMMA SelectStep == ASSUME IInv, Select PROVE IInv'
  <1>1. PICK T \in SUBSET blocked :
           /\ todo' = T
           /\ phase' = IF T = {} THEN "account" ELSE "correct"
           /\ pc' = [f \in Findings |-> IF f \in T THEN "queued" ELSE "idle"]
    BY DEF Select, ForCorrection
  <1>2. /\ phase = "select"
        /\ UNCHANGED <<verdict, settled, passed, blocked, terminal, gate, contained,
                       holdout, attempt, retried, statuses, lastValidation,
                       outcome, product, counter, number, file, prompt>>
    BY DEF Select, promptVars
  <1>3. todo = {} /\ contained = {} /\ holdout = {}
    BY <1>2 DEF IInv, Phases
  <1>4. \A f \in Findings : pc[f] = "idle" /\ outcome[f] = "none" /\ terminal[f] = "none"
    BY <1>3 DEF IInv, Corrections, Terminals
  <1>5. TypeOK'
    BY <1>1, <1>2, <1>3 DEF IInv, TypeOK
  <1>6. Phases'
    BY <1>1, <1>2, <1>3 DEF IInv, Phases
  <1>7. Corrections' /\ HonestExhaustion' /\ Terminals'
    BY <1>1, <1>2, <1>4 DEF IInv, Corrections, HonestExhaustion, Terminals
  <1>8. Products' /\ Lists' /\ CountsAgree'
    BY <1>1, <1>2 DEF IInv, Products, Lists, ListsPartition,
                      PassedFindings, CountsAgree
  <1>9. QED
    BY <1>5, <1>6, <1>7, <1>8 DEF IInv

LEMMA CollectStep == ASSUME IInv, NEW f \in Findings, Collect(f) PROVE IInv'
  <1>1. PICK marked \in BOOLEAN :
           terminal' = [terminal EXCEPT ![f] = TerminalClass(outcome[f], marked)]
    BY DEF Collect
  <1>2. /\ phase = "correct" /\ pc[f] = "returned"
        /\ UNCHANGED <<phase, verdict, settled, passed, blocked, todo, gate,
                       contained, holdout, pc, attempt, retried, statuses,
                       lastValidation, outcome, product, counter, number, file,
                       prompt>>
    BY DEF Collect, taskVars, promptVars
  <1>3. /\ TerminalClass(outcome[f], marked) \in
              {"corrected", "rejected", "dropped_honest", "failed_with_reason"}
        /\ TerminalClass(outcome[f], marked) = "corrected" <=> outcome[f] = "CORRECTED"
        /\ TerminalClass(outcome[f], marked) = "failed_with_reason"
              <=> outcome[f] = "RAISED"
    BY DEF TerminalClass
  <1>4. TypeOK' /\ Phases'
    BY <1>1, <1>2, <1>3 DEF IInv, TypeOK, Phases
  <1>5. Terminals'
    BY <1>1, <1>2, <1>3 DEF IInv, TypeOK, Terminals
  <1>6. Corrections' /\ HonestExhaustion' /\ Products' /\ Lists'
            /\ CountsAgree'
    BY <1>2 DEF IInv, Corrections, HonestExhaustion, Products, Lists,
                ListsPartition, PassedFindings, CountsAgree
  <1>7. QED
    BY <1>4, <1>5, <1>6 DEF IInv

LEMMA SummariseStep == ASSUME IInv, Summarise PROVE IInv'
  <1>1. /\ phase = "correct" /\ phase' = "account"
        /\ \A f \in todo : terminal[f] # "none"
        /\ gate' = IF \E f \in todo : terminal[f] = "failed_with_reason"
                     THEN "FAIL" ELSE "PASS"
        /\ UNCHANGED <<verdict, settled, passed, blocked, todo, terminal, contained,
                       holdout, pc, attempt, retried, statuses, lastValidation,
                       outcome, product, counter, number, file, prompt>>
    BY DEF Summarise, taskVars, promptVars
  <1>2. TypeOK' /\ Phases'
    BY <1>1 DEF IInv, TypeOK, Phases
  <1>3. QED
    BY <1>1, <1>2 DEF IInv, Corrections, HonestExhaustion, Terminals, Products,
                Lists, ListsPartition, PassedFindings, CountsAgree

(* The bookkeeping: the corrected findings were blocked, each is promoted  *)
(* as an item of its own, and with unique ids no other leaves the list.    *)
LEMMA AccountFacts ==
    ASSUME IInv, Account
    PROVE  /\ phase = "account" /\ phase' = "done"
           /\ ListsPartition
           /\ Corrected \subseteq todo /\ todo \subseteq blocked
           /\ blocked \subseteq Findings
           /\ PassedFindings' = PassedFindings \cup Corrected
           /\ contained' = todo \ Corrected
           /\ UniqueIds => Unblocked = Corrected
  <1>1. phase = "account" /\ phase' = "done" /\ ListsPartition
    BY DEF Account, IInv, Lists
  <1>2. todo \subseteq blocked /\ blocked \subseteq Findings /\ Corrected \subseteq todo
    BY <1>1 DEF IInv, Phases, TypeOK, Corrected
  <1>3. PassedFindings' = PassedFindings \cup Corrected
    BY <1>2 DEF Account, PassedFindings, IInv, Products
  <1>4. contained' = todo \ Corrected
    <2>1. \A f \in todo : outcome[f] \in Outcomes
      BY <1>1, <1>2 DEF IInv, Phases, Terminals, Corrections, TypeOK
    <2>2. QED
      BY <2>1 DEF Account, Corrected, Kind, Outcomes
  <1>5. UniqueIds => Unblocked = Corrected
    BY <1>2 DEF UniqueIds, Unblocked
  <1>6. QED
    BY <1>1, <1>2, <1>3, <1>4, <1>5

LEMMA AccountStep == ASSUME IInv, Account PROVE IInv'
  <1>1. /\ phase = "account" /\ phase' = "done" /\ ListsPartition
        /\ Corrected \subseteq todo /\ todo \subseteq blocked
        /\ blocked \subseteq Findings
        /\ PassedFindings' = PassedFindings \cup Corrected
        /\ contained' = todo \ Corrected
        /\ UniqueIds => Unblocked = Corrected
    BY AccountFacts
  <1>2. /\ passed' = passed \cup {product[f] : f \in Corrected}
        /\ holdout' \subseteq contained'
        /\ blocked' = blocked \ Unblocked
        /\ UNCHANGED <<verdict, settled, todo, terminal, gate, pc, attempt, retried,
                       statuses, lastValidation, outcome, product, counter,
                       number, file, prompt>>
    BY DEF Account, taskVars, promptVars
  <1>3. \A f \in Corrected : product[f] \in Items /\ product[f].of = f
    BY <1>1 DEF IInv, TypeOK, Products
  <1>4. TypeOK'
    <2>1. passed' \subseteq Items /\ blocked' \subseteq Findings
      BY <1>1, <1>2, <1>3 DEF IInv, TypeOK
    <2>2. QED
      BY <1>1, <1>2, <2>1 DEF IInv, TypeOK
  <1>5. Phases'
    BY <1>1, <1>2 DEF IInv, Phases
  <1>6. Corrections' /\ HonestExhaustion' /\ Terminals' /\ Products'
    BY <1>2 DEF IInv, Corrections, HonestExhaustion, Terminals, Products
  <1>7. Lists'
    <2> SUFFICES ASSUME UniqueIds PROVE ListsPartition'
      BY <1>1 DEF Lists, UniqueIds
    <2>1. blocked' = blocked \ Corrected
      BY <1>1, <1>2
    <2>2. /\ (PassedFindings \cup blocked = Findings)'
          /\ (PassedFindings \cap blocked = {})'
      BY <1>1, <2>1 DEF ListsPartition
    <2>3. \A a, b \in passed' : a.of = b.of => a = b
      <3> SUFFICES ASSUME NEW a \in passed', NEW b \in passed', a.of = b.of
                   PROVE  a = b
        OBVIOUS
      <3>1. \A c \in passed : c.of \notin Corrected
        BY <1>1 DEF ListsPartition, PassedFindings
      <3>2. CASE a \in passed /\ b \in passed
        BY <3>2, <1>1 DEF ListsPartition
      <3>3. CASE a \in passed <=> b \notin passed
        BY <1>2, <1>3, <3>1, <3>3
      <3>4. CASE a \notin passed /\ b \notin passed
        BY <1>2, <1>3, <3>4
      <3>5. QED
        BY <3>2, <3>3, <3>4
    <2>4. QED
      BY <2>2, <2>3 DEF ListsPartition
  <1>8. CountsAgree'
    <2>1. \A f \in todo : f \in Findings /\ f \notin PassedFindings
      BY <1>1 DEF ListsPartition
    <2>2. todo \cap PassedFindings' = Corrected
      BY <1>1, <2>1
    <2>3. {f \in todo : terminal[f] = "corrected"} = Corrected
      BY <1>1, <2>1 DEF IInv, Phases, Terminals, Corrected
    <2>4. todo # {} => (gate = "FAIL" <=> \E f \in todo : outcome[f] = "RAISED")
      BY <1>1, <2>1 DEF IInv, Phases, Terminals
    <2>5. QED
      BY <1>1, <1>2, <2>2, <2>3, <2>4 DEF CountsAgree
  <1>9. QED
    BY <1>4, <1>5, <1>6, <1>7, <1>8 DEF IInv

LEMMA NextInv == IInv /\ [Next]_vars => IInv'
  <1> SUFFICES ASSUME IInv, [Next]_vars PROVE IInv'
    OBVIOUS
  <1>1. CASE UNCHANGED vars
    BY <1>1 DEF vars, conductorVars, taskVars, promptVars, IInv, TypeOK, Phases,
                Corrections, HonestExhaustion, Terminals, Products,
                Lists, ListsPartition, PassedFindings, CountsAgree, UniqueIds
  <1>2. CASE Conductor
    BY <1>2, RepairStep, SelectStep, SummariseStep, AccountStep, CollectStep
    DEF Conductor
  <1>3. QED
    BY <1>1, <1>2, TaskStep DEF Next, Terminated

LEMMA SpecInv == Spec => []IInv
  BY InitInv, NextInv, PTL DEF Spec

-----------------------------------------------------------------------------
(* Every variable of Step 12 keeps its type, whatever the AI answers.      *)
THEOREM TypeCorrect == Spec => []TypeOK
  BY SpecInv, PTL DEF IInv

(* The counters of step_12 and of the pipeline agree, for any ids.         *)
THEOREM CountsTheorem == Spec => []CountsAgree
  BY SpecInv, PTL DEF IInv

(* The two exhausted outcomes tell whether the validator ever looked at an *)
(* answer, for any number of attempts.                                     *)
THEOREM HonestTheorem == Spec => []HonestExhaustion
  BY SpecInv, PTL DEF IInv

(* With unique ids the lists stay a partition to the end.                  *)
THEOREM ListsTheorem == ASSUME UniqueIds PROVE Spec => []ListsPartition
  <1>1. IInv => ListsPartition
    BY DEF IInv, Lists
  <1>2. QED
    BY <1>1, SpecInv, PTL

(* With unique ids Step 12 implements the ledger: claim repair and the     *)
(* bookkeeping promote findings, and no other step touches the lists.      *)
THEOREM LedgerTheorem == ASSUME UniqueIds PROVE Spec => KeepsLedger
  <1>1. Init => Ledger!Init
    <2> SUFFICES ASSUME Init PROVE Ledger!Init
      OBVIOUS
    <2>1. ListsPartition
      BY InitInv DEF IInv, Lists
    <2>2. QED
      BY <2>1, InitInv DEF IInv, TypeOK, ListsPartition, Ledger!Init
  <1>2. ASSUME IInv, [Next]_vars PROVE [Ledger!Next]_Ledger!vars
    <2>1. CASE ClaimRepair
      <3>1. PICK R \in SUBSET blocked :
               /\ blocked' = blocked \ R
               /\ passed' = passed \cup {Repaired(f) : f \in R}
        BY <2>1 DEF ClaimRepair
      <3>2. \A f \in R : Repaired(f).of = f
        BY <1>2, OriginalItem DEF IInv, TypeOK
      <3>3. PassedFindings' = PassedFindings \cup R
        BY <3>1, <3>2 DEF PassedFindings
      <3>4. QED
        BY <3>1, <3>3 DEF Ledger!Next, Ledger!Promote
    <2>2. CASE Account
      <3>1. /\ PassedFindings' = PassedFindings \cup Corrected
            /\ blocked' = blocked \ Corrected
            /\ Corrected \subseteq blocked
        BY <1>2, <2>2, AccountFacts DEF Account
      <3>2. QED
        BY <3>1 DEF Ledger!Next, Ledger!Promote
    <2>3. CASE \/ Select \/ Summarise \/ \E f \in Findings : Collect(f)
               \/ \E f \in Findings : Task(f)
               \/ UNCHANGED vars
      <3>1. UNCHANGED <<passed, blocked>>
        BY <1>2, <2>3, TaskFrame
        DEF Select, Summarise, Collect, conductorVars, vars, IInv
      <3>2. QED
        BY <3>1 DEF Ledger!vars, PassedFindings
    <2>4. QED
      BY <1>2, <2>1, <2>2, <2>3 DEF Next, Conductor, Terminated
  <1>3. QED
    BY <1>1, <1>2, SpecInv, PTL DEF Spec, KeepsLedger, Ledger!Spec

-----------------------------------------------------------------------------
(* What is left of a correction, step by step.                             *)
LEMMA StepsLeftValues ==
    ASSUME NEW again \in BOOLEAN
    PROVE  /\ StepsLeft("idle", again) = 3 /\ StepsLeft("queued", again) = 2
           /\ StepsLeft("loop", again) = 1 /\ StepsLeft("returned", again) = 0
           /\ StepsLeft("call", again) = IF again THEN 7 ELSE 13
           /\ StepsLeft("numbered", again) = IF again THEN 6 ELSE 12
           /\ StepsLeft("open", again) = IF again THEN 5 ELSE 11
           /\ StepsLeft("write", again) = IF again THEN 4 ELSE 10
           /\ StepsLeft("send", again) = IF again THEN 3 ELSE 9
           /\ StepsLeft("reply", again) = IF again THEN 2 ELSE 8
  BY DEF StepsLeft, CallLeft

(* A step of a correction goes on with the attempt, begins the next one,   *)
(* or begins the second call of this one.                                  *)
LEMMA TaskMoves ==
    ASSUME TypeOK, NEW f \in Findings, Task(f)
    PROVE  /\ \A g \in Findings \ {f} :
                 pc'[g] = pc[g] /\ attempt'[g] = attempt[g] /\ retried'[g] = retried[g]
           /\ terminal' = terminal /\ phase' = phase
           /\ attempt'[f] \in 0 .. MaxAttempts /\ retried'[f] \in BOOLEAN
           /\ \/ /\ attempt'[f] = attempt[f] /\ retried'[f] = retried[f]
                 /\ StepsLeft(pc'[f], retried[f]) < StepsLeft(pc[f], retried[f])
              \/ /\ pc[f] = "loop" /\ pc'[f] = "call"
                 /\ attempt'[f] = attempt[f] + 1 /\ ~retried'[f]
              \/ /\ pc[f] = "reply" /\ pc'[f] = "call"
                 /\ attempt'[f] = attempt[f] /\ ~retried[f] /\ retried'[f]
  <1> USE DEF TypeOK, Goto, Return, conductorVars
  <1>1. retried[f] \in BOOLEAN
    OBVIOUS
  <1>2. CASE Start(f)
    BY <1>1, <1>2, StepsLeftValues DEF Start
  <1>3. CASE BeginAttempt(f)
    BY <1>3, SelfCorrectionAssumption DEF BeginAttempt
  <1>4. CASE GiveUp(f)
    BY <1>1, <1>4, StepsLeftValues DEF GiveUp
  <1>5. CASE TakeNumber(f) \/ ReadNumber(f) \/ OpenPrompt(f)
    BY <1>1, <1>5, StepsLeftValues DEF TakeNumber, ReadNumber, OpenPrompt
  <1>6. CASE WritePrompt(f) \/ SendPrompt(f)
    BY <1>1, <1>6, StepsLeftValues DEF WritePrompt, SendPrompt
  <1>7. CASE RateLimited(f)
    BY <1>7 DEF RateLimited
  <1>8. CASE NoAnswer(f) \/ Reject(f)
    BY <1>1, <1>8, StepsLeftValues DEF NoAnswer, Reject
  <1>9. CASE DeclareUnfixable(f) \/ Drop(f) \/ Raise(f) \/ Accept(f)
    BY <1>1, <1>9, StepsLeftValues DEF DeclareUnfixable, Drop, Raise, Accept
  <1>10. QED
    BY <1>2, <1>3, <1>4, <1>5, <1>6, <1>7, <1>8, <1>9 DEF Task, Answered

LEMMA StepsLeftNat ==
    ASSUME NEW again \in BOOLEAN,
           NEW step \in {"idle", "queued", "loop", "call", "numbered", "open",
                         "write", "send", "reply", "returned"}
    PROVE  StepsLeft(step, again) \in Nat
  BY StepsLeftValues

LEMMA RankArithmetic ==
    ASSUME NEW n \in Int, NEW u \in Nat, NEW a \in Nat, NEW b \in Nat
    PROVE  /\ a < b => 13 * n + a + u < 13 * n + b + u
           /\ 13 * (n - 1) + 13 + u < 13 * n + 1 + u
  OBVIOUS

LEMMA TaskShrinks ==
    ASSUME TypeOK, NEW f \in Findings, Task(f)
    PROVE  /\ PhaseLeft' = PhaseLeft
           /\ Rank(f)' < Rank(f)
           /\ \A g \in Findings \ {f} : Rank(g)' = Rank(g)
  <1> DEFINE n == MaxAttempts - attempt[f]
             u == IF terminal[f] = "none" THEN 1 ELSE 0
             left == StepsLeft(pc[f], retried[f])
             now == StepsLeft(pc'[f], retried'[f])
  <1>1. TypeOK'
    BY TaskTypes
  <1>2. /\ n \in Int /\ u \in Nat /\ attempt[f] \in Int /\ MaxAttempts \in Int
        /\ left \in Nat /\ now \in Nat
    <2>1. left \in Nat
      BY StepsLeftNat DEF TypeOK
    <2>2. now \in Nat
      BY <1>1, StepsLeftNat DEF TypeOK
    <2>3. QED
      BY <2>1, <2>2, SelfCorrectionAssumption DEF TypeOK
  <1>3. phase' = phase /\ terminal' = terminal
    BY TaskMoves
  <1>4. Rank(f) = 13 * n + left + u
        /\ Rank(f)' = 13 * (MaxAttempts - attempt'[f]) + now + u
    BY <1>3 DEF Rank
  <1>5. retried[f] \in BOOLEAN /\ retried'[f] \in BOOLEAN
    BY <1>1 DEF TypeOK
  <1>6. Rank(f)' < Rank(f)
    <2>1. CASE attempt'[f] = attempt[f] /\ now < left
      BY <1>2, <1>4, <2>1, RankArithmetic
    <2>2. CASE /\ pc[f] = "loop" /\ pc'[f] = "call"
               /\ attempt'[f] = attempt[f] + 1 /\ ~retried'[f]
      <3>1. left = 1 /\ now = 13
        BY <1>5, <2>2, StepsLeftValues
      <3>2. MaxAttempts - attempt'[f] = n - 1
        BY <1>2, <2>2
      <3>3. QED
        BY <1>2, <1>4, <3>1, <3>2, RankArithmetic
    <2>3. CASE /\ pc[f] = "reply" /\ pc'[f] = "call"
               /\ attempt'[f] = attempt[f] /\ ~retried[f] /\ retried'[f]
      <3>1. left = 8 /\ now = 7
        BY <1>5, <2>3, StepsLeftValues
      <3>2. Rank(f)' = 13 * n + 7 + u /\ Rank(f) = 13 * n + 8 + u
        BY <1>4, <2>3, <3>1
      <3>3. QED
        BY <1>2, <3>2, RankArithmetic
    <2>4. QED
      BY <2>1, <2>2, <2>3, TaskMoves
  <1>7. \A g \in Findings \ {f} : Rank(g)' = Rank(g)
    BY <1>3, TaskMoves DEF Rank
  <1>8. QED
    BY <1>3, <1>6, <1>7 DEF PhaseLeft


LEMMA ConductorShrinks ==
    ASSUME IInv, Conductor
    PROVE  \/ PhaseLeft' < PhaseLeft /\ \A f \in Findings : Rank(f)' <= Rank(f)
           \/ /\ PhaseLeft' = PhaseLeft
              /\ \E f \in Findings :
                    /\ Rank(f)' < Rank(f)
                    /\ \A g \in Findings \ {f} : Rank(g)' = Rank(g)
  <1>1. \A f \in Findings : Rank(f) \in Int
    BY StepsLeftNat, SelfCorrectionAssumption DEF IInv, TypeOK, Rank
  <1>2. CASE ClaimRepair \/ Summarise \/ Account
    <2>1. PhaseLeft' < PhaseLeft
      BY <1>2 DEF ClaimRepair, Summarise, Account, PhaseLeft
    <2>2. UNCHANGED <<pc, attempt, retried, terminal>>
      BY <1>2 DEF ClaimRepair, Summarise, Account, taskVars
    <2>3. \A f \in Findings : Rank(f)' <= Rank(f)
      BY <1>1, <2>2 DEF Rank
    <2>4. QED
      BY <2>1, <2>3
  <1>3. CASE Select
    <2>1. PhaseLeft' < PhaseLeft
      BY <1>3 DEF Select, PhaseLeft
    <2>2. UNCHANGED <<attempt, retried, terminal>>
          /\ \A f \in Findings : pc[f] = "idle" /\ pc'[f] \in {"idle", "queued"}
      BY <1>3 DEF Select, IInv, Corrections, Phases
    <2>3. ASSUME NEW f \in Findings PROVE Rank(f)' <= Rank(f)
      <3>1. StepsLeft(pc'[f], retried[f]) \in 2 .. 3 /\ StepsLeft(pc[f], retried[f]) = 3
        BY <2>2, StepsLeftValues DEF IInv, TypeOK
      <3>2. Rank(f)' = 13 * (MaxAttempts - attempt[f]) + StepsLeft(pc'[f], retried[f])
                          + (IF terminal[f] = "none" THEN 1 ELSE 0)
        BY <2>2 DEF Rank
      <3>3. MaxAttempts - attempt[f] \in Int
        BY SelfCorrectionAssumption DEF IInv, TypeOK
      <3>4. QED
        BY <3>1, <3>2, <3>3 DEF Rank
    <2>4. QED
      BY <2>1, <2>3
  <1>4. ASSUME NEW f \in Findings, Collect(f)
        PROVE  /\ PhaseLeft' = PhaseLeft
               /\ Rank(f)' < Rank(f)
               /\ \A g \in Findings \ {f} : Rank(g)' = Rank(g)
    <2>1. UNCHANGED <<phase, pc, attempt, retried>>
          /\ terminal[f] = "none" /\ terminal'[f] # "none"
          /\ \A g \in Findings \ {f} : terminal'[g] = terminal[g]
      BY <1>4 DEF Collect, taskVars, IInv, TypeOK, TerminalClass
    <2>2. /\ Rank(f) = 13 * (MaxAttempts - attempt[f]) + StepsLeft(pc[f], retried[f]) + 1
          /\ Rank(f)' = 13 * (MaxAttempts - attempt[f]) + StepsLeft(pc[f], retried[f]) + 0
      BY <2>1 DEF Rank
    <2>3. MaxAttempts - attempt[f] \in Int /\ StepsLeft(pc[f], retried[f]) \in Nat
      BY StepsLeftNat, SelfCorrectionAssumption DEF IInv, TypeOK
    <2>4. Rank(f)' < Rank(f)
      BY <2>2, <2>3
    <2>5. QED
      BY <2>1, <2>4 DEF Rank, PhaseLeft
  <1>5. QED
    BY <1>2, <1>3, <1>4 DEF Conductor

(* Step 12 always gets nearer its end, for any findings, pool size and     *)
(* number of attempts.                                                     *)
THEOREM ShrinkTheorem == Spec => StepsShrink
  <1>1. IInv /\ [Next]_vars =>
           [\/ PhaseLeft' < PhaseLeft /\ \A f \in Findings : Rank(f)' <= Rank(f)
            \/ /\ PhaseLeft' = PhaseLeft
               /\ \E f \in Findings :
                     /\ Rank(f)' < Rank(f)
                     /\ \A g \in Findings \ {f} : Rank(g)' = Rank(g)]_vars
    BY ConductorShrinks, TaskShrinks DEF Next, Terminated, IInv
  <1>2. QED
    BY <1>1, SpecInv, PTL DEF Spec, StepsShrink

-----------------------------------------------------------------------------
(* A finding whose correction was ordered is queued or further.            *)
Ordered == phase = "correct" => \A f \in todo : pc[f] # "idle"

LEMMA SpecOrdered == Spec => []Ordered
  <1>1. Init => Ordered
    BY DEF Init, Ordered
  <1>2. IInv /\ Ordered /\ [Next]_vars => Ordered'
    <2> SUFFICES ASSUME IInv, Ordered, [Next]_vars PROVE Ordered'
      OBVIOUS
    <2>1. CASE UNCHANGED vars
      BY <2>1 DEF vars, conductorVars, taskVars, Ordered
    <2>2. ASSUME NEW f \in Findings, Task(f) PROVE Ordered'
      <3>1. UNCHANGED conductorVars /\ pc' = [pc EXCEPT ![f] = pc'[f]] /\ pc'[f] # "idle"
        BY <2>2, TaskFrame DEF IInv
      <3>2. QED
        BY <3>1 DEF Ordered, conductorVars, IInv, TypeOK
    <2>3. CASE Conductor
      <3>1. CASE ClaimRepair \/ Summarise \/ Account
        BY <3>1 DEF ClaimRepair, Summarise, Account, Ordered
      <3>2. CASE Select
        BY <3>2 DEF Select, ForCorrection, Ordered, IInv, TypeOK
      <3>3. CASE \E f \in Findings : Collect(f)
        BY <3>3 DEF Collect, taskVars, Ordered
      <3>4. QED
        BY <2>3, <3>1, <3>2, <3>3 DEF Conductor
    <2>4. QED
      BY <2>1, <2>2, <2>3 DEF Next, Terminated
  <1>3. QED
    BY <1>1, <1>2, SpecInv, PTL DEF Spec

(* Step 12 never waits for a result that will not come.                    *)
THEOREM NoStallTheorem == Spec => []NoStall
  <1>1. IInv /\ Ordered => NoStall
    <2> SUFFICES ASSUME IInv, Ordered, phase = "correct",
                        NEW f \in todo, terminal[f] = "none", pc[f] # "returned"
                 PROVE  \E g \in Findings : TaskMovable(g)
      BY DEF IInv, TypeOK, NoStall, ConductorMovable
    <2>1. f \in Findings /\ pc[f] # "idle"
      BY DEF IInv, TypeOK, Ordered
    <2>2. CASE pc[f] # "queued" \/ Cardinality(Busy) < Workers
      BY <2>1, <2>2 DEF TaskMovable
    <2>3. CASE ~(Cardinality(Busy) < Workers)
      <3>1. Busy # {}
        BY <2>3, FS_EmptySet, SelfCorrectionAssumption
      <3>2. PICK g \in Findings : pc[g] \notin {"idle", "queued", "returned"}
        BY <3>1 DEF Busy
      <3>3. QED
        BY <3>2 DEF TaskMovable
    <2>4. QED
      BY <2>2, <2>3
  <1>2. QED
    BY <1>1, SpecInv, SpecOrdered, PTL

-----------------------------------------------------------------------------
(* With one worker there is one correction at a time, and nobody else      *)
(* writes its prompt file between its own write and its call.              *)
Solo ==
    /\ \A f, g \in Busy : f = g
    /\ \A f \in Findings :
          /\ pc[f] = "send" => file[number[f]] = f
          /\ pc[f] = "reply" => prompt[f] = f
          /\ outcome[f] = "CORRECTED" => prompt[f] = f

LEMMA OnlyOneBusy ==
    ASSUME Workers = 1, TypeOK, Solo, NEW f \in Findings, Task(f)
    PROVE  /\ \A g \in Busy : g = f
           /\ \A g \in Busy' : g = f
  <1>1. IsFiniteSet(Busy)
    BY FS_Subset, SelfCorrectionAssumption DEF Busy
  <1>2. pc[f] \notin {"idle", "returned"} /\ \A g \in Findings \ {f} : pc'[g] = pc[g]
    BY TaskMoves, TaskFrame
  <1>3. CASE pc[f] = "queued"
    <2>1. Start(f)
      BY <1>3 DEF Task, BeginAttempt, GiveUp, TakeNumber, ReadNumber, OpenPrompt,
         WritePrompt, SendPrompt, Answered, RateLimited, NoAnswer, DeclareUnfixable,
         Drop, Raise, Reject, Accept
    <2>2. Cardinality(Busy) \in Nat /\ Cardinality(Busy) < 1
      BY <1>1, <2>1, FS_CardinalityType DEF Start
    <2>3. Busy = {}
      BY <1>1, <2>2, FS_EmptySet
    <2>4. QED
      BY <1>2, <2>3 DEF Busy
  <1>4. CASE pc[f] # "queued"
    <2>1. f \in Busy
      BY <1>2, <1>4 DEF Busy
    <2>2. QED
      BY <1>2, <2>1 DEF Busy, Solo
  <1>5. QED
    BY <1>3, <1>4

LEMMA TaskSolo ==
    ASSUME Workers = 1, IInv, Solo, NEW f \in Findings, Task(f)
    PROVE  Solo'
  <1> USE DEF Goto, Return, Record, promptVars
  <1>0. TypeOK
    BY DEF IInv
  <1>1. \A g \in Findings \ {f} :
           /\ pc'[g] = pc[g] /\ outcome'[g] = outcome[g]
           /\ pc[g] \notin {"send", "reply"}
    BY <1>0, OnlyOneBusy, TaskFrame DEF TypeOK, Busy
  <1>2. CASE WritePrompt(f)
    BY <1>0, <1>1, <1>2, OnlyOneBusy DEF WritePrompt, TypeOK, Solo
  <1>3. CASE SendPrompt(f)
    BY <1>0, <1>1, <1>3, OnlyOneBusy DEF SendPrompt, TypeOK, Solo
  <1>4. CASE Answered(f)
    BY <1>0, <1>1, <1>4, OnlyOneBusy
    DEF Answered, RateLimited, NoAnswer, DeclareUnfixable, Drop, Raise, Reject, Accept,
        TypeOK, Solo
  <1>5. CASE TakeNumber(f) \/ ReadNumber(f) \/ OpenPrompt(f)
    BY <1>0, <1>1, <1>5, OnlyOneBusy
    DEF TakeNumber, ReadNumber, OpenPrompt, TypeOK, Solo
  <1>6. CASE Start(f) \/ BeginAttempt(f) \/ GiveUp(f)
    BY <1>0, <1>1, <1>6, OnlyOneBusy
    DEF Start, BeginAttempt, GiveUp, ExhaustedOutcome, TypeOK, Solo
  <1>7. QED
    BY <1>2, <1>3, <1>4, <1>5, <1>6 DEF Task

(* "Each SC is independent" (step_12_self_correct) is true of a pool of one *)
(* worker: a correction is accepted only in answer to its own prompt.  Two *)
(* workers are enough to break it.                                         *)
THEOREM SoloWorkerTheorem ==
    ASSUME Workers = 1
    PROVE  Spec => []CorrectionAnswersOwnPrompt
  <1>1. Init => Solo
    BY DEF Init, Solo, Busy
  <1>2. IInv /\ Solo /\ [Next]_vars => Solo'
    <2> SUFFICES ASSUME IInv, Solo, [Next]_vars PROVE Solo'
      OBVIOUS
    <2>1. CASE UNCHANGED vars
      BY <2>1 DEF vars, taskVars, promptVars, Solo, Busy
    <2>2. CASE \E f \in Findings : Task(f)
      BY <2>2, TaskSolo
    <2>3. CASE Conductor
      <3>1. CASE Select
        <4>1. \A f \in Findings : pc[f] = "idle" /\ pc'[f] \in {"idle", "queued"}
          BY <3>1 DEF Select, IInv, Corrections, Phases
        <4>2. UNCHANGED <<outcome, promptVars>>
          BY <3>1 DEF Select
        <4>3. QED
          BY <4>1, <4>2 DEF Solo, Busy, promptVars
      <3>2. CASE ~Select
        <4>1. UNCHANGED <<taskVars, promptVars>>
          BY <2>3, <3>2 DEF Conductor, ClaimRepair, Summarise, Account, Collect
        <4>2. QED
          BY <4>1 DEF Solo, Busy, taskVars, promptVars
      <3>3. QED
        BY <3>1, <3>2
    <2>4. QED
      BY <2>1, <2>2, <2>3 DEF Next, Terminated
  <1>3. Solo => CorrectionAnswersOwnPrompt
    BY DEF Solo, CorrectionAnswersOwnPrompt
  <1>4. QED
    BY <1>1, <1>2, <1>3, SpecInv, PTL DEF Spec
-----------------------------------------------------------------------------
(* Step 12 ends.  Fairness is that of FairSpec; that the guards imply       *)
(* ENABLED is the hypothesis GuardsEnabled.                                *)
TaskGuardFair(f) == []<>~TaskMovable(f) \/ []<><<Task(f)>>_vars
ConductorGuardFair == []<>~ConductorMovable \/ []<><<Conductor>>_vars

LEMMA TaskIsFair ==
    ASSUME NEW f \in Findings
    PROVE  FairTask(f) /\ []GuardsEnabled => TaskGuardFair(f)
  <1>1. GuardsEnabled => (TaskMovable(f) => TaskEnabled(f))
    BY DEF GuardsEnabled
  <1>2. QED
    BY <1>1, PTL DEF FairTask, TaskEnabled, TaskGuardFair

LEMMA ConductorIsFair == WF_vars(Conductor) /\ []GuardsEnabled => ConductorGuardFair
  <1>1. GuardsEnabled => (ConductorMovable => ConductorEnabled)
    BY DEF GuardsEnabled
  <1>2. QED
    BY <1>1, PTL DEF ConductorEnabled, ConductorGuardFair

(* What is fair is fair from every later moment on, for one correction more *)
(* and so for all of them.                                                 *)
EachFair(T) == \A f \in T : FairTask(f)
AllFair(T) == []EachFair(T)

LEMMA NoneToBeFair == AllFair({})
  <1>1. EachFair({})
    BY DEF EachFair
  <1>2. QED
    BY <1>1, PTL DEF AllFair

LEMMA OneMoreFair ==
    ASSUME NEW T, NEW f
    PROVE  AllFair(T) /\ FairTask(f) => AllFair(T \cup {f})
  <1>1. EachFair(T) /\ FairTask(f) => EachFair(T \cup {f})
    BY DEF EachFair
  <1>2. FairTask(f) => []FairTask(f)
    BY PTL DEF FairTask
  <1>3. QED
    BY <1>1, <1>2, PTL DEF AllFair

LEMMA FairnessLasts == Fairness => []Fairness
  <1> SUFFICES ASSUME EachFair(Findings) PROVE AllFair(Findings)
    BY PTL DEF Fairness, AllFair, EachFair
  <1>1. IsFiniteSet(Findings)
    BY SelfCorrectionAssumption
  <1>2. PICK n \in Nat : \E a : a[0] = {} /\ a[n] = Findings
               /\ \A k \in Nat : a[k + 1] = a[k] \/ \E f \in Findings : a[k + 1] = a[k] \cup {f}
    BY <1>1, Enumeration
  <1>3. PICK a : a[0] = {} /\ a[n] = Findings
               /\ \A k \in Nat : a[k + 1] = a[k] \/ \E f \in Findings : a[k + 1] = a[k] \cup {f}
    BY <1>2
  <1>4. AllFair(a[0])
    BY <1>3, NoneToBeFair
  <1>5. ASSUME NEW k \in Nat, AllFair(a[k]) PROVE AllFair(a[k + 1])
    <2>1. \A f \in Findings : FairTask(f)
      BY DEF EachFair
    <2>2. \A f \in Findings : AllFair(a[k] \cup {f})
      BY <1>5, <2>1, OneMoreFair
    <2>3. QED
      BY <1>3, <1>5, <2>2
  <1>6. Table([k \in Nat |-> AllFair(a[k])])
    BY DEF Table
  <1>7. \A k \in Nat : AllFair(a[k])
    BY <1>4, <1>5, <1>6, TableInduction
  <1>8. QED
    BY <1>3, <1>7

(* From now on: the invariants, the steps, the fairness and the guards.     *)
Runs == []IInv /\ []NoStall /\ [][Next]_vars /\ []Fairness /\ []GuardsEnabled

LEMMA FairSpecRuns == FairSpec /\ []GuardsEnabled => Runs
  BY SpecInv, NoStallTheorem, FairnessLasts, PTL DEF FairSpec, Spec, Runs

(* All the steps that are left, those of the corrections and the phases.    *)
Ranks == [f \in Findings |-> Rank(f)]
MostSteps == 13 * (MaxAttempts + 1) + 1
Total == Cardinality(Remaining(Ranks, MostSteps)) + PhaseLeft

LEMMA LeftType ==
  TypeOK => /\ MostSteps \in Nat /\ Ranks \in [Findings -> 0 .. MostSteps]
            /\ PhaseLeft \in Nat /\ Total \in Nat
  <1> SUFFICES ASSUME TypeOK
               PROVE  /\ MostSteps \in Nat /\ Ranks \in [Findings -> 0 .. MostSteps]
                      /\ PhaseLeft \in Nat /\ Total \in Nat
    OBVIOUS
  <1>1. MaxAttempts \in Nat /\ MostSteps \in Nat
    BY SelfCorrectionAssumption DEF MostSteps
  <1>2. ASSUME NEW f \in Findings PROVE Rank(f) \in 0 .. MostSteps
    <2>1. StepsLeft(pc[f], retried[f]) \in 0 .. 13
      BY StepsLeftValues DEF TypeOK
    <2>2. MaxAttempts - attempt[f] \in 0 .. MaxAttempts
      BY <1>1 DEF TypeOK
    <2>3. QED
      BY <1>1, <2>1, <2>2 DEF Rank, MostSteps
  <1>3. Ranks \in [Findings -> 0 .. MostSteps]
    BY <1>2 DEF Ranks
  <1>4. PhaseLeft \in Nat
    BY DEF TypeOK, PhaseLeft
  <1>5. Cardinality(Remaining(Ranks, MostSteps)) \in Nat
    BY <1>1, <1>3, RemainingFinite, SelfCorrectionAssumption
  <1>6. QED
    BY <1>1, <1>3, <1>4, <1>5 DEF Total

LEMMA TotalFalls ==
    ASSUME IInv, TypeOK', Conductor \/ \E f \in Findings : Task(f)
    PROVE  Total' < Total
  <1>0. TypeOK
    BY DEF IInv
  <1>1. /\ MostSteps \in Nat /\ Ranks \in [Findings -> 0 .. MostSteps] /\ PhaseLeft \in Nat
        /\ Ranks' \in [Findings -> 0 .. MostSteps] /\ PhaseLeft' \in Nat /\ MostSteps' = MostSteps
    <2>1. TypeOK' => (/\ MostSteps \in Nat /\ Ranks \in [Findings -> 0 .. MostSteps]
                      /\ PhaseLeft \in Nat /\ Total \in Nat)'
      BY LeftType, PTL
    <2>2. MostSteps' = MostSteps
      BY DEF MostSteps
    <2>3. QED
      BY <1>0, <2>1, <2>2, LeftType
  <1>2. /\ \A f \in Findings : Ranks[f] = Rank(f) /\ Ranks'[f] = Rank(f)'
        /\ Total = Cardinality(Remaining(Ranks, MostSteps)) + PhaseLeft
        /\ Total' = Cardinality(Remaining(Ranks', MostSteps)) + PhaseLeft'
    BY <1>1 DEF Ranks, Total
  <1>3. /\ Cardinality(Remaining(Ranks, MostSteps)) \in Nat
        /\ Cardinality(Remaining(Ranks', MostSteps)) \in Nat
    BY <1>1, RemainingFinite, SelfCorrectionAssumption
  <1>4. CASE PhaseLeft' < PhaseLeft /\ \A f \in Findings : Rank(f)' <= Rank(f)
    <2>1. Cardinality(Remaining(Ranks', MostSteps)) <= Cardinality(Remaining(Ranks, MostSteps))
      BY <1>1, <1>2, <1>4, RemainingKeeps, SelfCorrectionAssumption
    <2>2. QED
      BY <1>1, <1>2, <1>3, <1>4, <2>1
  <1>5. ASSUME NEW f \in Findings, PhaseLeft' = PhaseLeft, Rank(f)' < Rank(f),
               \A g \in Findings \ {f} : Rank(g)' = Rank(g)
        PROVE  Total' < Total
    <2>1. Ranks'[f] < Ranks[f] /\ \A g \in Findings \ {f} : Ranks'[g] <= Ranks[g]
      BY <1>1, <1>2, <1>5
    <2>2. Cardinality(Remaining(Ranks', MostSteps)) < Cardinality(Remaining(Ranks, MostSteps))
      BY <1>1, <2>1, RemainingShrinks, SelfCorrectionAssumption
    <2>3. QED
      BY <1>1, <1>2, <1>3, <1>5, <2>2
  <1>6. QED
    BY <1>0, <1>4, <1>5, ConductorShrinks, TaskShrinks

FallsBelow(n) == <>(Total < n)

(* A correction that can move, or the conductor, brings the total down: its *)
(* own step does, and so does any step that takes the turn from it.        *)
LEMMA TaskAdvances ==
    ASSUME NEW n \in Nat, NEW f \in Findings
    PROVE  Runs /\ FairTask(f) => (Total = n /\ TaskMovable(f) => FallsBelow(n))
  <1>1. IInv /\ IInv' /\ Total = n /\ TaskMovable(f) /\ [Next]_vars
        => (Total = n /\ TaskMovable(f))' \/ (Total < n)'
    <2>1. ASSUME UNCHANGED vars
          PROVE  Total' = Total /\ (TaskMovable(f))' = TaskMovable(f)
      BY <2>1 DEF Total, Ranks, MostSteps, Rank, StepsLeft, CallLeft, PhaseLeft, TaskMovable,
                  Busy, vars, conductorVars, taskVars
    <2>2. QED
      BY <2>1, TotalFalls DEF Next, Terminated, IInv
  <1>2. IInv /\ IInv' /\ Total = n /\ <<Task(f)>>_vars => (Total < n)'
    BY TotalFalls DEF IInv
  <1>3. QED
    BY <1>1, <1>2, TaskIsFair, PTL DEF TaskGuardFair, Runs, FallsBelow

LEMMA ConductorAdvances ==
    ASSUME NEW n \in Nat
    PROVE  Runs => (Total = n /\ ConductorMovable => FallsBelow(n))
  <1>1. IInv /\ IInv' /\ Total = n /\ ConductorMovable /\ [Next]_vars
        => (Total = n /\ ConductorMovable)' \/ (Total < n)'
    <2>1. ASSUME UNCHANGED vars
          PROVE  Total' = Total /\ ConductorMovable' = ConductorMovable
      BY <2>1 DEF Total, Ranks, MostSteps, Rank, StepsLeft, CallLeft, PhaseLeft,
                  ConductorMovable, vars, conductorVars, taskVars
    <2>2. QED
      BY <2>1, TotalFalls DEF Next, Terminated, IInv
  <1>2. IInv /\ IInv' /\ Total = n /\ <<Conductor>>_vars => (Total < n)'
    BY TotalFalls DEF IInv
  <1>3. QED
    BY <1>1, <1>2, ConductorIsFair, PTL DEF ConductorGuardFair, Runs, Fairness, FallsBelow

(* With less than n steps left Step 12 ends.                               *)
EndsWithin(n) == [](Total < n => <>(phase = "done"))

LEMMA EndsWithNothing == Runs => EndsWithin(0)
  <1>1. IInv => ~(Total < 0)
    BY LeftType DEF IInv
  <1>2. QED
    BY <1>1, PTL DEF EndsWithin, Runs

LEMMA OneStepMore ==
    ASSUME NEW n \in Nat
    PROVE  Runs => (EndsWithin(n) => EndsWithin(n + 1))
  <1> SUFFICES ASSUME []IInv, []NoStall, [][Next]_vars, []Fairness, []GuardsEnabled
               PROVE  EndsWithin(n) => EndsWithin(n + 1)
    BY PTL DEF Runs
  <1>1. Runs
    BY PTL DEF Runs
  <1>2. \A f \in Findings : FairTask(f)
    BY PTL DEF Fairness
  <1>3. \A f \in Findings : Total = n /\ TaskMovable(f) => FallsBelow(n)
    BY <1>1, <1>2, TaskAdvances
  <1>4. Total = n /\ ConductorMovable => FallsBelow(n)
    BY <1>1, ConductorAdvances
  <1>5. NoStall
    BY PTL
  <1>6. Total = n /\ ~(phase = "done") => FallsBelow(n)
    BY <1>3, <1>4, <1>5 DEF NoStall
  <1>7. IInv => (Total < n + 1 => Total < n \/ Total = n)
    BY LeftType DEF IInv
  <1>8. QED
    BY <1>6, <1>7, PTL DEF EndsWithin, FallsBelow

(* Every correction ends and Step 12 updates the lists, for any findings,   *)
(* pool size and number of attempts: by induction on the steps left.       *)
THEOREM CorrectionsEndTheorem == FairSpec /\ []GuardsEnabled => CorrectionsEnd
  <1>1. ASSUME Runs PROVE CorrectionsEnd
    <2>1. IInv
      BY <1>1, PTL DEF Runs
    <2>2. EndsWithin(0)
      BY <1>1, EndsWithNothing
    <2>3. \A n \in Nat : EndsWithin(n) => EndsWithin(n + 1)
      BY <1>1, OneStepMore
    <2>4. Table([n \in Nat |-> EndsWithin(n)])
      BY DEF Table
    <2>5. \A n \in Nat : EndsWithin(n)
      BY <2>2, <2>3, <2>4, TableInduction
    <2>6. PICK n \in Nat : Total < n
      <3>1. Total + 1 \in Nat /\ Total < Total + 1
        BY <2>1, LeftType DEF IInv
      <3>2. QED
        BY <3>1
    <2>7. EndsWithin(n)
      BY <2>5
    <2>8. QED
      BY <2>6, <2>7, PTL DEF EndsWithin, CorrectionsEnd
  <1>2. QED
    BY <1>1, FairSpecRuns
=============================================================================
