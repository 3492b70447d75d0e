---------------------------- MODULE Step11Proofs ----------------------------
(***************************************************************************)
(* Proofs about Step11 for any findings, tools, budget, cap and pool size: *)
(* its types, that it uses the discipline as ReactDiscipline allows, and   *)
(* with what ReactDisciplineProofs shows of the discipline, that full-     *)
(* image scans do not repeat and that foreign records only come from       *)
(* shared full-image launches; then that nobody waits without someone who  *)
(* moves, and that every investigation ends.                               *)
(***************************************************************************)
EXTENDS Step11, Descent

DP == INSTANCE ReactDisciplineProofs
        WITH Threads <- Findings, Pids <- ReqPids, Results <- Outcomes

(* What ReactDiscipline assumes of its nulls, for Step 11's instance.      *)
LEMMA DisciplineAssumptions == DP!ToolAssumption /\ DP!NullAssumption
  BY Step11Assumption, NullAssumption
  DEF DP!ToolAssumption, DP!NullAssumption, Tools

-----------------------------------------------------------------------------
(* The part of the types that needs nothing of the discipline, and what a  *)
(* task knows of its request: past ReplyTool there is one, only vol tools  *)
(* are dispatched, and an outcome is held until it is published.           *)
LocalTypes ==
    /\ pc \in [Findings ->
          {"queued", "ask", "precheck", "lookup", "dispatch", "own", "scan",
           "publish", "release", "answer", "run_tool", "finish",
           "done", "skipped", "crashed"}]
    /\ tool \in [Findings -> Tools \cup {NoResult}]
    /\ asked \in [Findings -> ReqPids \cup {NoPid}]
    /\ got \in [Findings -> Outcomes \cup {NoResult}]
    /\ conclusion \in [Findings -> {"none", "", "ai", "paused", "timeout", "cap"}]
    /\ verdict \in [Findings -> Verdicts \cup {"none"}]
    /\ cache \in [VolTools -> ReqPids \cup {NoPid}]

Dispatched == {"lookup", "dispatch", "own", "scan", "publish", "release", "answer"}

RequestKnown ==
    \A f \in Findings :
        /\ pc[f] \in {"precheck", "run_tool"} \cup Dispatched =>
              tool[f] \in Tools /\ asked[f] \in ReqPids
        /\ pc[f] \in Dispatched => tool[f] \in VolTools
        /\ pc[f] = "publish" => got[f] \in Outcomes

Local == LocalTypes /\ RequestKnown

LEMMA InitLocal == Init => Local
  BY DEF Init, Local, LocalTypes, RequestKnown, Dispatched

LEMMA TaskLocal ==
    ASSUME Local, NEW f \in Findings, Task(f) PROVE Local'
  <1> USE DEF Local, LocalTypes, RequestKnown, Dispatched, Goto, disciplineVars,
              requestVars, findingVars
  <1>1. CASE Start(f)
    BY <1>1 DEF Start
  <1>2. CASE TurnsExhausted(f)
    BY <1>2 DEF TurnsExhausted
  <1>3. CASE ReplyNonDict(f)
    BY <1>3 DEF ReplyNonDict
  <1>4. CASE ReplyMalformed(f)
    BY <1>4 DEF ReplyMalformed
  <1>5. CASE ReplyConclude(f)
    <2>1. PICK v \in AIVerdicts, text \in {"", "ai"} :
             /\ verdict' = [verdict EXCEPT ![f] = v]
             /\ conclusion' = [conclusion EXCEPT ![f] = text]
      BY <1>5 DEF ReplyConclude
    <2>2. v \in Verdicts
      BY Step11Assumption
    <2>3. QED
      BY <1>5, <2>1, <2>2 DEF ReplyConclude
  <1>6. CASE ReplyUnregistered(f)
    BY <1>6 DEF ReplyUnregistered
  <1>7. CASE ReplyTool(f)
    <2>1. PICK t \in Tools, p \in AIPids :
             IF Redirect(t) \in Covered
             THEN Observe(f, Redirect(t), p, "records", p) /\ UNCHANGED requestVars
             ELSE /\ tool' = [tool EXCEPT ![f] = Redirect(t)]
                  /\ asked' = [asked EXCEPT ![f] = p]
                  /\ Goto(f, "precheck")
                  /\ UNCHANGED ctx
      BY <1>7 DEF ReplyTool
    <2>2. Redirect(t) \in Tools /\ p \in ReqPids
      BY Step11Assumption DEF Redirect
    <2>3. CASE Redirect(t) \in Covered
      BY <1>7, <2>1, <2>3 DEF ReplyTool, Observe
    <2>4. CASE Redirect(t) \notin Covered
      BY <1>7, <2>1, <2>2, <2>4 DEF ReplyTool
    <2>5. QED
      BY <2>3, <2>4
  <1>8. CASE Precheck(f)
    <2>1. CASE D!PrecheckPasses(tool[f])
      BY <1>8, <2>1 DEF Precheck
    <2>2. CASE ~D!PrecheckPasses(tool[f])
      BY <1>8, <2>2 DEF Precheck, EndTurn, Observe, ClearRequest
    <2>3. QED
      BY <2>1, <2>2
  <1>9. CASE Lookup(f)
    BY <1>9 DEF Lookup, EndTurn, Observe, ClearRequest
  <1>10. CASE Dispatch(f)
    BY <1>10 DEF Dispatch
  <1>11. CASE RunnerCached(f)
    BY <1>11 DEF RunnerCached, FilterByPid, Outcomes, Records, ReqPids
  <1>12. CASE RunnerScans(f)
    BY <1>12 DEF RunnerScans
  <1>13. CASE ScanSucceeds(f)
    BY <1>13 DEF ScanSucceeds, Outcomes, Records, ReqPids
  <1>14. CASE ScanUnavailable(f)
    BY <1>14 DEF ScanUnavailable, Outcomes
  <1>15. CASE ScanRaises(f)
    BY <1>15 DEF ScanRaises, Outcomes
  <1>16. CASE Publish(f)
    BY <1>16 DEF Publish
  <1>17. CASE ReleaseKey(f)
    BY <1>17 DEF ReleaseKey
  <1>18. CASE AnswerRecords(f)
    BY <1>18 DEF AnswerRecords, Answered, EndTurn, Observe, ClearRequest
  <1>19. CASE AnswerBudget(f)
    BY <1>19 DEF AnswerBudget, Answered, EndTurn, Observe, ClearRequest
  <1>20. CASE AnswerTimeout(f)
    BY <1>20 DEF AnswerTimeout, Answered, ClearRequest, Verdicts
  <1>21. CASE AnswerError(f)
    BY <1>21 DEF AnswerError, Answered, EndTurn, Observe, ClearRequest
  <1>22. CASE RunTool(f)
    BY <1>22 DEF RunTool, EndTurn, Observe, ClearRequest
  <1>23. CASE Finish(f)
    BY <1>23 DEF Finish, Verdicts
  <1>24. QED
    BY <1>1, <1>2, <1>3, <1>4, <1>5, <1>6, <1>7, <1>8, <1>9, <1>10, <1>11, <1>12, <1>13, <1>14, <1>15, <1>16, <1>17, <1>18, <1>19, <1>20, <1>21, <1>22, <1>23
    DEF Task, Reply, Runner, Answer

LEMMA SpecLocal == Spec => []Local
  <1>1. Local /\ [Next]_vars => Local'
    <2> SUFFICES ASSUME Local, [Next]_vars PROVE Local'
      OBVIOUS
    <2>1. CASE UNCHANGED vars
      BY <2>1 DEF vars, Local, LocalTypes, RequestKnown, requestVars, findingVars
    <2>2. CASE PoolJoined
      BY <2>1, <2>2 DEF PoolJoined
    <2>3. QED
      BY <2>1, <2>2, TaskLocal DEF Next
  <1>2. QED
    BY <1>1, InitLocal, PTL DEF Spec

-----------------------------------------------------------------------------
(* Every step of a task is a step of the discipline, or leaves it alone.   *)
LEMMA TaskUsesDiscipline ==
    ASSUME Local, NEW f \in Findings, Task(f)
    PROVE  [D!Next]_D!disciplineVars
  <1> USE DEF disciplineVars, D!disciplineVars, D!callVars, D!budgetVars, D!noteVars
  <1>1. pc[f] \in Dispatched \cup {"run_tool"} => tool[f] \in Tools /\ asked[f] \in ReqPids
    BY DEF Local, RequestKnown
  <1>2. CASE \/ Start(f) \/ TurnsExhausted(f) \/ Reply(f) \/ Precheck(f)
             \/ Lookup(f) \/ RunnerCached(f) \/ RunnerScans(f)
             \/ ScanSucceeds(f) \/ ScanRaises(f) \/ Finish(f)
    BY <1>2 DEF Start, TurnsExhausted, Reply, ReplyNonDict, ReplyMalformed,
                ReplyConclude, ReplyUnregistered, ReplyTool, Precheck, Lookup,
                RunnerCached, RunnerScans, ScanSucceeds, ScanRaises, Finish
  <1>3. CASE Dispatch(f)
    BY <1>1, <1>3 DEF Dispatch, Dispatched, D!Next
  <1>4. CASE ScanUnavailable(f)
    BY <1>1, <1>4 DEF ScanUnavailable, Dispatched, D!Next, D!JustNote
  <1>5. CASE Publish(f)
    BY <1>5 DEF Publish, Local, RequestKnown, D!Next
  <1>6. CASE ReleaseKey(f)
    BY <1>6 DEF ReleaseKey, D!Next
  <1>7. CASE Answer(f)
    <2>1. D!CollectAndNote(f, tool[f]) /\ pc[f] = "answer"
      BY <1>7 DEF Answer, AnswerRecords, AnswerBudget, AnswerTimeout, AnswerError,
                  Answered, D!CollectAndNote, D!Note
    <2>2. QED
      BY <1>1, <2>1 DEF Dispatched, D!Next
  <1>8. CASE RunTool(f)
    <2>1. CASE UNCHANGED <<timedOut, unavailable>>
      BY <1>8, <2>1 DEF RunTool
    <2>2. CASE D!JustNote(tool[f])
      BY <1>1, <1>8, <2>2 DEF RunTool, D!Next
    <2>3. QED
      BY <1>8, <2>1, <2>2 DEF RunTool, D!JustNote, D!Note
  <1>9. QED
    BY <1>2, <1>3, <1>4, <1>5, <1>6, <1>7, <1>8 DEF Task, Runner

(* Step 11 implements the open discipline: whatever ReactDiscipline        *)
(* promises to any caller holds of the investigation loop.                 *)
THEOREM Step11UsesDiscipline == Spec => UsesDiscipline
  <1>1. Init => D!Init
    BY DEF Init
  <1>2. Local /\ [Next]_vars => [D!Next]_D!disciplineVars
    BY TaskUsesDiscipline
    DEF Next, PoolJoined, vars, disciplineVars, D!disciplineVars
  <1>3. QED
    BY <1>1, <1>2, SpecLocal, PTL DEF Spec, UsesDiscipline, D!Spec

(* The proofs' instance of the discipline is the one Step 11 uses.         *)
LEMMA SameDiscipline == D!Spec => DP!Spec
  <1>1. D!Init <=> DP!Init
    BY DEF D!Init, DP!Init, D!Keys, DP!Keys
  <1>2. D!Next <=> DP!Next
    BY DEF D!Next, D!HighCostDispatch, D!JoinInFlight, D!RefuseLaunch, D!OwnLaunch,
           D!BecomeOwner, D!Charge, D!DedupeRun, D!Resolve, D!Release,
           D!CollectAndNote, D!Collect, D!Note, D!JustNote,
           D!NoteUnavailable, D!NoteTimedOut, D!RegisterLaunch,
           D!ResetDiscipline, D!BudgetSpent, D!ScopeKey, D!Keys,
           D!budgetVars, D!noteVars, D!callVars, DP!Next,
           DP!HighCostDispatch, DP!JoinInFlight, DP!RefuseLaunch,
           DP!OwnLaunch, DP!BecomeOwner, DP!Charge, DP!DedupeRun,
           DP!Resolve, DP!Release, DP!CollectAndNote, DP!Collect, DP!Note,
           DP!JustNote, DP!NoteUnavailable, DP!NoteTimedOut,
           DP!RegisterLaunch, DP!ResetDiscipline, DP!BudgetSpent,
           DP!ScopeKey, DP!Keys, DP!budgetVars, DP!noteVars, DP!callVars
  <1>3. [D!Next]_D!disciplineVars <=> [DP!Next]_DP!disciplineVars
    BY <1>2 DEF D!disciplineVars, DP!disciplineVars
  <1>4. QED
    BY <1>1, <1>3, PTL DEF D!Spec, DP!Spec

(* What the discipline keeps, in the terms of Step 11.                     *)
LEMMA DisciplineInv == Spec => []DP!IInv
  <1>1. DP!Spec => []DP!IInv
    BY DisciplineAssumptions, DP!SpecInv
  <1>2. QED
    BY <1>1, Step11UsesDiscipline, SameDiscipline, PTL DEF UsesDiscipline

-----------------------------------------------------------------------------
(* The phase of a task and the phase of its dispatch agree, and a call is  *)
(* keyed by what its task asked for.                                       *)
PhasesLinked ==
    \A f \in Findings :
        /\ st[f] = "running" <=> pc[f] \in {"own", "scan", "publish"}
        /\ st[f] = "resolved" <=> pc[f] = "release"
        /\ st[f] \in {"waiting", "returned"} <=> pc[f] = "answer"

CallKey ==
    \A f \in Findings :
        st[f] # "idle" => key[f] = D!ScopeKey(tool[f], asked[f])

Linked == PhasesLinked /\ CallKey

LEMMA InitLinked == Init => Linked
  BY DEF Init, D!Init, Linked, PhasesLinked, CallKey

Active == {"own", "scan", "publish", "release", "answer"}

(* A task that only moves outside the dispatch keeps the link.             *)
LEMMA IdleMove ==
    ASSUME Local, DP!IInv, Linked, NEW f \in Findings, NEW l,
           Goto(f, l), pc[f] \notin Active, l \notin Active, UNCHANGED <<st, key>>,
           \A g \in Findings \ {f} : tool'[g] = tool[g] /\ asked'[g] = asked[g]
    PROVE  Linked'
  <1>1. st[f] = "idle"
    BY DEF Linked, PhasesLinked, DP!IInv, DP!TypeOK, Active
  <1>2. PhasesLinked'
    BY DEF Linked, PhasesLinked, Goto, Active, Local, LocalTypes
  <1>3. CallKey'
    BY <1>1 DEF Linked, CallKey
  <1>4. QED
    BY <1>2, <1>3 DEF Linked

(* The owner's runner moves inside "running".                              *)
LEMMA RunnerMove ==
    ASSUME Local, Linked, NEW f \in Findings, NEW l \in {"own", "scan", "publish"},
           Goto(f, l), pc[f] \in {"own", "scan", "publish"},
           UNCHANGED <<st, key, requestVars>>
    PROVE  Linked'
  <1>1. PhasesLinked'
    BY DEF Linked, PhasesLinked, Goto, Local, LocalTypes
  <1>2. CallKey'
    BY DEF Linked, CallKey, requestVars
  <1>3. QED
    BY <1>1, <1>2 DEF Linked

LEMMA EndTurnMove ==
    ASSUME Local, DP!IInv, Linked, NEW f \in Findings, NEW k, NEW p,
           EndTurn(f, k, p), pc[f] \notin Active, UNCHANGED <<st, key>>
    PROVE  Linked'
  <1>1. \A g \in Findings \ {f} : tool'[g] = tool[g] /\ asked'[g] = asked[g]
    BY DEF EndTurn, ClearRequest, Local, LocalTypes
  <1>2. QED
    BY <1>1, IdleMove DEF EndTurn, Observe, Active

LEMMA DispatchLinked ==
    ASSUME Local, DP!IInv, Linked, NEW f \in Findings, Dispatch(f)
    PROVE  Linked'
  <1> DEFINE k == D!ScopeKey(tool[f], asked[f])
  <1>1. /\ key' = [key EXCEPT ![f] = k]
        /\ \E x \in {"waiting", "returned", "running"} : st' = [st EXCEPT ![f] = x]
        /\ UNCHANGED requestVars
    BY DEF Dispatch, D!HighCostDispatch, D!JoinInFlight, D!RefuseLaunch,
           D!OwnLaunch, D!BecomeOwner
  <1>2. PhasesLinked'
    BY <1>1 DEF Dispatch, Linked, PhasesLinked, Goto, Local, LocalTypes,
                DP!IInv, DP!TypeOK
  <1>3. CallKey'
    BY <1>1 DEF Linked, CallKey, requestVars, DP!IInv, DP!TypeOK
  <1>4. QED
    BY <1>2, <1>3 DEF Linked

LEMMA PublishLinked ==
    ASSUME Local, DP!IInv, Linked, NEW f \in Findings, Publish(f)
    PROVE  Linked'
  <1>1. PhasesLinked'
    BY DEF Publish, D!Resolve, Linked, PhasesLinked, Goto, Local, LocalTypes,
           DP!IInv, DP!TypeOK
  <1>2. CallKey'
    BY DEF Publish, D!Resolve, Linked, CallKey, requestVars, DP!IInv, DP!TypeOK
  <1>3. QED
    BY <1>1, <1>2 DEF Linked

LEMMA ReleaseLinked ==
    ASSUME Local, DP!IInv, Linked, NEW f \in Findings, ReleaseKey(f)
    PROVE  Linked'
  <1>1. PhasesLinked'
    BY DEF ReleaseKey, D!Release, Linked, PhasesLinked, Goto, Local, LocalTypes,
           DP!IInv, DP!TypeOK
  <1>2. CallKey'
    BY DEF ReleaseKey, D!Release, Linked, CallKey, requestVars, DP!IInv, DP!TypeOK
  <1>3. QED
    BY <1>1, <1>2 DEF Linked

LEMMA AnswerLinked ==
    ASSUME Local, DP!IInv, Linked, NEW f \in Findings, Answer(f)
    PROVE  Linked'
  <1>1. /\ D!Collect(f) /\ ClearRequest(f)
        /\ pc[f] = "answer"
        /\ \E l \in {"ask", "finish"} : Goto(f, l)
    BY DEF Answer, AnswerRecords, AnswerBudget, AnswerTimeout, AnswerError,
           Answered, EndTurn, Observe
  <1>2. PhasesLinked'
    BY <1>1 DEF D!Collect, Linked, PhasesLinked, Goto, Local, LocalTypes,
                DP!IInv, DP!TypeOK
  <1>3. CallKey'
    BY <1>1 DEF D!Collect, ClearRequest, Linked, CallKey, Local, LocalTypes,
                DP!IInv, DP!TypeOK
  <1>4. QED
    BY <1>2, <1>3 DEF Linked

(* No other step moves a call, or the task of another finding.             *)
LEMMA TaskLinked ==
    ASSUME Local, DP!IInv, Linked, NEW f \in Findings, Task(f)
    PROVE  Linked'
  <1>1. CASE Start(f) \/ TurnsExhausted(f) \/ Finish(f)
    BY <1>1, IdleMove
    DEF Start, TurnsExhausted, Finish, Active, disciplineVars, requestVars
  <1>2. CASE ReplyTool(f)
    <2>1. /\ pc[f] \notin Active
          /\ \E l \in {"ask", "precheck"} : Goto(f, l) /\ l \notin Active
          /\ UNCHANGED <<st, key>>
          /\ \A g \in Findings \ {f} : tool'[g] = tool[g] /\ asked'[g] = asked[g]
      BY <1>2 DEF ReplyTool, TurnLeft, Observe, Active, disciplineVars, requestVars,
                  Local, LocalTypes
    <2>2. QED
      BY <2>1, IdleMove
  <1>3. CASE Reply(f) /\ ~ReplyTool(f)
    BY <1>3, IdleMove
    DEF Reply, ReplyNonDict, ReplyMalformed, ReplyConclude, ReplyUnregistered,
        TurnLeft, Active, disciplineVars, requestVars
  <1>4. CASE Precheck(f)
    BY <1>4, IdleMove, EndTurnMove
    DEF Precheck, Active, disciplineVars, requestVars
  <1>5. CASE Lookup(f)
    BY <1>5, IdleMove, EndTurnMove DEF Lookup, Active, disciplineVars, requestVars
  <1>6. CASE RunTool(f)
    BY <1>6, EndTurnMove DEF RunTool, Active
  <1>7. CASE RunnerCached(f) \/ RunnerScans(f) \/ ScanSucceeds(f)
             \/ ScanUnavailable(f) \/ ScanRaises(f)
    BY <1>7, RunnerMove
    DEF RunnerCached, RunnerScans, ScanSucceeds, ScanUnavailable, ScanRaises,
        disciplineVars
  <1>8. QED
    BY <1>1, <1>2, <1>3, <1>4, <1>5, <1>6, <1>7, DispatchLinked, PublishLinked,
       ReleaseLinked, AnswerLinked
    DEF Task, Runner

Base == Local /\ Linked /\ DP!IInv

LEMMA SpecBase == Spec => []Base
  <1>1. Local /\ DP!IInv /\ Linked /\ [Next]_vars => Linked'
    <2>1. ASSUME Linked, UNCHANGED vars PROVE Linked'
      BY <2>1 DEF vars, disciplineVars, requestVars, Linked, PhasesLinked, CallKey
    <2>2. QED
      BY <2>1, TaskLinked DEF Next, PoolJoined
  <1>2. QED
    BY <1>1, InitLinked, SpecLocal, DisciplineInv, PTL DEF Spec, Base

-----------------------------------------------------------------------------
(* The cache holds a tool's unfiltered records or nothing, and nobody      *)
(* scans a full-image tool that it holds.                                  *)
CacheInv ==
    /\ \A t \in VolTools : cache[t] \in {NoPid, AllPids}
    /\ \A f \in Findings :
          pc[f] = "scan" /\ tool[f] \in FullImage => cache[tool[f]] = NoPid

(* Two threads that scan one full-image tool would own one scope key.      *)
LEMMA OneFullImageScan ==
    ASSUME Base, NEW f \in Findings, NEW g \in Findings,
           pc[f] = "scan", pc[g] = "scan", tool[f] = tool[g], tool[f] \in FullImage
    PROVE  f = g
  <1>1. st[f] = "running" /\ st[g] = "running"
    BY DEF Base, Linked, PhasesLinked
  <1>2. key[f] = key[g]
    BY <1>1 DEF Base, Linked, CallKey, D!ScopeKey
  <1>3. key[f] \in DP!Keys
    BY <1>1 DEF Base, DP!IInv, DP!CallPhases
  <1>4. inflight[key[f]] = f /\ inflight[key[f]] = g
    BY <1>1, <1>2, <1>3 DEF Base, DP!IInv, DP!TableMatchesOwners, DP!Owning
  <1>5. QED
    BY <1>4

(* A scan begins only where nothing is cached; a scan that ends stores all *)
(* records of its tool, which no other thread is scanning.                 *)
LEMMA TaskCache ==
    ASSUME Base, CacheInv, NEW f \in Findings, Task(f) PROVE CacheInv'
  <1> USE DEF Base, Local, LocalTypes, RequestKnown, Dispatched
  <1>1. CASE ScanSucceeds(f)
    <2>1. \A g \in Findings \ {f} :
             pc'[g] = "scan" /\ tool'[g] \in FullImage => tool'[g] # tool[f]
      BY <1>1, OneFullImageScan DEF ScanSucceeds, Goto, requestVars
    <2>2. QED
      BY <1>1, <2>1, Step11Assumption DEF ScanSucceeds, CacheInv, Goto, requestVars
  <1>2. CASE RunnerScans(f)
    BY <1>2 DEF RunnerScans, CacheInv, Goto, requestVars
  <1>3. CASE ~ScanSucceeds(f) /\ ~RunnerScans(f)
    <2>1. UNCHANGED cache
      BY <1>3 DEF Task, Start, TurnsExhausted, Reply, ReplyNonDict, ReplyMalformed,
         ReplyConclude, ReplyUnregistered, ReplyTool, Precheck, Lookup, Dispatch,
         Runner, RunnerCached, ScanUnavailable, ScanRaises, Publish, ReleaseKey,
         Answer, AnswerRecords, AnswerBudget, AnswerTimeout, AnswerError, Answered,
         RunTool, Finish
    <2>2. pc'[f] # "scan" /\ \A g \in Findings \ {f} : pc'[g] = pc[g]
      <3>1. CASE Reply(f)
        BY <3>1 DEF Reply, Goto, ReplyNonDict, ReplyMalformed, ReplyConclude,
           ReplyUnregistered, ReplyTool, Observe
      <3>2. CASE Answer(f)
        BY <3>2 DEF Answer, Goto, AnswerRecords, AnswerBudget, AnswerTimeout, AnswerError,
           EndTurn, Observe
      <3>3. CASE Precheck(f) \/ Lookup(f) \/ RunTool(f)
        BY <3>3 DEF Precheck, Goto, Lookup, RunTool, EndTurn, Observe
      <3>4. CASE Runner(f)
        BY <1>3, <3>4 DEF Runner, Goto, RunnerCached, ScanUnavailable, ScanRaises,
           Publish, ReleaseKey
      <3>5. CASE Start(f) \/ TurnsExhausted(f) \/ Dispatch(f) \/ Finish(f)
        BY <3>5 DEF Start, Goto, TurnsExhausted, Dispatch, Finish
      <3>6. QED
        BY <3>1, <3>2, <3>3, <3>4, <3>5 DEF Task
    <2>3. \A g \in Findings \ {f} : tool'[g] = tool[g]
      BY <1>3 DEF Task, Start, TurnsExhausted, Reply, ReplyNonDict, ReplyMalformed,
         ReplyConclude, ReplyUnregistered, ReplyTool, Precheck, Lookup, Dispatch,
         Runner, RunnerCached, ScanUnavailable, ScanRaises, Publish, ReleaseKey,
         Answer, AnswerRecords, AnswerBudget, AnswerTimeout, AnswerError, EndTurn,
         ClearRequest, RunTool, Finish, requestVars
    <2>4. QED
      BY <2>1, <2>2, <2>3 DEF CacheInv, Goto
  <1>4. QED
    BY <1>1, <1>2, <1>3

LEMMA SpecCache == Spec => []CacheInv
  <1>1. Init => CacheInv
    BY DEF Init, CacheInv
  <1>2. Base /\ CacheInv /\ [Next]_vars => CacheInv'
    <2>1. ASSUME CacheInv, UNCHANGED vars PROVE CacheInv'
      BY <2>1 DEF vars, requestVars, CacheInv
    <2>2. QED
      BY <2>1, TaskCache DEF Next, PoolJoined
  <1>3. QED
    BY <1>1, <1>2, SpecBase, PTL DEF Spec

(* Full-image plugins are scanned by one thread at a time, and never again *)
(* once their records are cached.                                          *)
THEOREM ScannedOnceTheorem == Spec => []FullImageScannedOnce
  <1>1. Init => CacheInv
    BY DEF Init, CacheInv
  <1>2. Base /\ CacheInv /\ [Next]_vars => CacheInv'
    <2>1. ASSUME CacheInv, UNCHANGED vars PROVE CacheInv'
      BY <2>1 DEF vars, requestVars, CacheInv
    <2>2. QED
      BY <2>1, TaskCache DEF Next, PoolJoined
  <1>3. Base /\ CacheInv => FullImageScannedOnce
    BY OneFullImageScan DEF CacheInv, FullImageScannedOnce
  <1>4. QED
    BY <1>1, <1>2, <1>3, SpecBase, PTL DEF Spec
-----------------------------------------------------------------------------
(* Outside the full-image list, an outcome on its way to a finding holds   *)
(* the records the finding asked for, whoever launched the scan.           *)
OwnRecords(r, f) == r \in Outcomes /\ r.kind = "records" => r.pid = asked[f]

OwnResults ==
    \A f \in Findings :
        /\ st[f] = "returned" => res[f] # NoResult
        /\ tool[f] \notin FullImage =>
              /\ pc[f] = "publish" => OwnRecords(got[f], f)
              /\ st[f] \in {"resolved", "returned"} => OwnRecords(res[f], f)

(* Two calls of one scope outside the full-image list made one request.    *)
LEMMA SameScope ==
    ASSUME Base, NEW f \in Findings, NEW g \in Findings,
           asked[f] \in ReqPids,
           D!ScopeKey(tool[f], asked[f]) = D!ScopeKey(tool[g], asked[g]),
           tool[f] \notin FullImage
    PROVE  tool[g] = tool[f] /\ asked[g] = asked[f]
  BY NullAssumption DEF D!ScopeKey

(* Joining a launch whose outcome is already there.                        *)
LEMMA DispatchResults ==
    ASSUME Base, OwnResults, NEW f \in Findings, Dispatch(f)
    PROVE  OwnResults'
  <1> DEFINE k == D!ScopeKey(tool[f], asked[f])
             owner == inflight[k]
  <1>1. /\ tool[f] \in VolTools /\ asked[f] \in ReqPids
        /\ UNCHANGED <<tool, asked, got>>
        /\ pc'[f] # "publish" /\ \A g \in Findings \ {f} : pc'[g] = pc[g]
    BY DEF Dispatch, Base, Local, LocalTypes, RequestKnown, Dispatched, Goto,
           requestVars
  <1>2. /\ st \in [Findings -> {"idle", "running", "resolved", "waiting", "returned"}]
        /\ res \in [Findings -> Outcomes \cup {NoResult, BudgetExhausted}]
    BY DEF Base, DP!IInv, DP!TypeOK
  <1>3. CASE D!JoinInFlight(f, tool[f], asked[f])
    <2>1. k \in DP!Keys
      BY <1>1, DisciplineAssumptions, DP!ScopeKeyIsKey
      DEF D!ScopeKey, DP!ScopeKey, Tools
    <2>2. owner \in Findings /\ DP!Owning(owner) /\ key[owner] = k
      BY <1>3, <2>1 DEF Base, DP!IInv, DP!TypeOK, DP!TableMatchesOwners, D!JoinInFlight
    <2>3. k = D!ScopeKey(tool[owner], asked[owner])
      BY <2>2 DEF Base, Linked, CallKey, DP!Owning
    <2>4. tool[f] \notin FullImage => tool[owner] = tool[f] /\ asked[owner] = asked[f]
      BY <1>1, <2>2, <2>3, SameScope
    <2>5. st[owner] # "running" => st[owner] = "resolved" /\ res[owner] \in Outcomes
      BY <2>2 DEF Base, DP!IInv, DP!CallPhases, DP!Owning
    <2>6. /\ st' = [st EXCEPT ![f] = IF st[owner] = "running" THEN "waiting" ELSE "returned"]
          /\ res' = [res EXCEPT ![f] = IF st[owner] = "running" THEN NoResult ELSE res[owner]]
      BY <1>3 DEF D!JoinInFlight
    <2>7. QED
      BY <1>1, <1>2, <2>2, <2>4, <2>5, <2>6, NullAssumption DEF OwnResults, OwnRecords
  <1>4. CASE D!RefuseLaunch(f, tool[f], asked[f])
    BY <1>1, <1>2, <1>4, NullAssumption DEF D!RefuseLaunch, OwnResults, OwnRecords
  <1>5. CASE D!OwnLaunch(f, tool[f], asked[f])
    BY <1>1, <1>2, <1>5 DEF D!OwnLaunch, D!BecomeOwner, OwnResults, OwnRecords
  <1>6. QED
    BY <1>3, <1>4, <1>5 DEF Dispatch, D!HighCostDispatch

(* The runner hands to its Future what its own request is owed.            *)
LEMMA RunnerResults ==
    ASSUME Base, CacheInv, OwnResults, NEW f \in Findings,
           \/ RunnerCached(f) \/ ScanSucceeds(f) \/ ScanUnavailable(f) \/ ScanRaises(f)
    PROVE  OwnResults'
  <1>1. /\ UNCHANGED <<tool, asked, st, res>>
        /\ pc'[f] = "publish" /\ \A g \in Findings \ {f} : pc'[g] = pc[g] /\ got'[g] = got[g]
    BY DEF RunnerCached, ScanSucceeds, ScanUnavailable, ScanRaises, Base, Local,
           LocalTypes, Goto, requestVars, disciplineVars
  <1>2. got'[f].kind = "records" => got'[f].pid = asked[f]
    <2>1. CASE RunnerCached(f)
      <3>1. tool[f] \in VolTools
        BY <2>1 DEF RunnerCached, Base, Local, RequestKnown, Dispatched
      <3>2. FilterByPid(cache[tool[f]], asked[f]) = asked[f]
        BY <2>1, <3>1 DEF RunnerCached, CacheInv, FilterByPid
      <3>3. QED
        BY <2>1, <3>2 DEF RunnerCached, Records, Base, Local, LocalTypes
    <2>2. CASE ScanSucceeds(f)
      BY <2>2 DEF ScanSucceeds, Records, Base, Local, LocalTypes
    <2>3. CASE ScanUnavailable(f)
      BY <2>3 DEF ScanUnavailable, Unavailable, Failure, Base, Local, LocalTypes
    <2>4. CASE ScanRaises(f)
      <3>1. PICK e \in {Timeout, Error} : got' = [got EXCEPT ![f] = e]
        BY <2>4 DEF ScanRaises
      <3>2. e.kind # "records"
        BY <3>1 DEF Timeout, Error, Failure
      <3>3. QED
        BY <3>1, <3>2 DEF Base, Local, LocalTypes
    <2>5. QED
      BY <2>1, <2>2, <2>3, <2>4
  <1>3. QED
    BY <1>1, <1>2 DEF OwnResults, OwnRecords

(* Whoever waits for the owner made the owner's request.                   *)
LEMMA PublishResults ==
    ASSUME Base, OwnResults, NEW f \in Findings, Publish(f)
    PROVE  OwnResults'
  <1> DEFINE sharing == {g \in Findings : st[g] = "waiting" /\ on[g] = f}
  <1>1. /\ UNCHANGED <<tool, asked>> /\ got[f] \in Outcomes /\ pc[f] = "publish"
        /\ pc'[f] # "publish" /\ \A g \in Findings \ {f} : pc'[g] = pc[g] /\ got'[g] = got[g]
        /\ st[f] = "running"
    BY DEF Publish, Base, Local, LocalTypes, RequestKnown, Goto, requestVars, D!Resolve
  <1>2. /\ st' = [g \in Findings |-> IF g = f THEN "resolved"
                                     ELSE IF g \in sharing THEN "returned" ELSE st[g]]
        /\ res' = [g \in Findings |-> IF g = f \/ g \in sharing THEN got[f] ELSE res[g]]
    BY DEF Publish, D!Resolve
  <1>3. ASSUME NEW g \in sharing, tool[g] \notin FullImage
        PROVE  tool[g] = tool[f] /\ asked[g] = asked[f]
    <2>1. key[g] = key[f]
      BY <1>3 DEF Base, DP!IInv, DP!WaitersHaveRunner
    <2>2. D!ScopeKey(tool[g], asked[g]) = D!ScopeKey(tool[f], asked[f])
      BY <1>1, <1>3, <2>1 DEF Base, Linked, CallKey
    <2>3. asked[g] \in ReqPids
      BY <1>3 DEF Base, Linked, PhasesLinked, Local, RequestKnown, Dispatched
    <2>4. QED
      BY <1>3, <2>2, <2>3, SameScope
  <1>4. QED
    BY <1>1, <1>2, <1>3, NullAssumption DEF OwnResults, OwnRecords

LEMMA TaskResults ==
    ASSUME Base, CacheInv, OwnResults, NEW f \in Findings, Task(f)
    PROVE  OwnResults'
  <1> USE DEF Base, Local, LocalTypes, Goto, disciplineVars, requestVars, findingVars
  <1>1. CASE ReleaseKey(f)
    <2>1. res[f] \in Outcomes /\ st[f] = "resolved"
      BY <1>1 DEF ReleaseKey, D!Release, DP!IInv, DP!CallPhases
    <2>2. st' = [st EXCEPT ![f] = "returned"] /\ UNCHANGED <<res, tool, asked, got>>
      BY <1>1 DEF ReleaseKey, D!Release
    <2>3. pc'[f] # "publish" /\ \A g \in Findings \ {f} : pc'[g] = pc[g]
      BY <1>1 DEF ReleaseKey
    <2>4. res[f] # NoResult
      BY <2>1, NullAssumption
    <2>5. st \in [Findings -> {"idle", "running", "resolved", "waiting", "returned"}]
      BY DEF DP!IInv, DP!TypeOK
    <2>6. \A g \in Findings : st'[g] = IF g = f THEN "returned" ELSE st[g]
      BY <2>2, <2>5
    <2>7. QED
      <3> SUFFICES ASSUME NEW g \in Findings
                   PROVE  /\ st'[g] = "returned" => res'[g] # NoResult
                          /\ tool'[g] \notin FullImage =>
                                /\ pc'[g] = "publish" => OwnRecords(got[g], g)'
                                /\ st'[g] \in {"resolved", "returned"} =>
                                      OwnRecords(res[g], g)'
        BY DEF OwnResults
      <3>1. CASE g = f
        BY <2>1, <2>2, <2>3, <2>4, <2>6, <3>1 DEF OwnResults, OwnRecords
      <3>2. CASE g # f
        BY <2>2, <2>3, <2>6, <3>2 DEF OwnResults, OwnRecords
      <3>3. QED
        BY <3>1, <3>2
  <1>2. CASE Answer(f)
    <2>1. st' = [st EXCEPT ![f] = "idle"] /\ res' = [res EXCEPT ![f] = NoResult]
          /\ got' = got /\ ClearRequest(f)
          /\ \E l \in {"ask", "finish"} : pc' = [pc EXCEPT ![f] = l]
      BY <1>2 DEF Answer, AnswerRecords, AnswerBudget, AnswerTimeout, AnswerError,
                  Answered, D!Collect, EndTurn, Observe
    <2>2. QED
      BY <2>1 DEF OwnResults, OwnRecords, ClearRequest, DP!IInv, DP!TypeOK
  <1>3. CASE RunnerScans(f)
    BY <1>3 DEF RunnerScans, OwnResults, OwnRecords
  <1>4. CASE \/ Start(f) \/ TurnsExhausted(f) \/ Reply(f) \/ Precheck(f)
             \/ Lookup(f) \/ RunTool(f) \/ Finish(f)
    <2>1. pc[f] \notin Active /\ UNCHANGED <<st, res, got>>
      BY <1>4 DEF Active, Start, TurnsExhausted, Reply, ReplyNonDict, ReplyMalformed,
         ReplyConclude, ReplyUnregistered, ReplyTool, TurnLeft, Precheck, Lookup,
         RunTool, Finish
    <2>2. st[f] = "idle"
      BY <2>1 DEF Linked, PhasesLinked, DP!IInv, DP!TypeOK, Active
    <2>3. pc'[f] # "publish"
      <3>1. CASE Reply(f)
        BY <3>1 DEF Reply, ReplyNonDict, ReplyMalformed, ReplyConclude,
                    ReplyUnregistered, ReplyTool, Observe
      <3>2. CASE ~Reply(f)
        BY <1>4, <3>2 DEF Start, TurnsExhausted, Precheck, Lookup, RunTool, Finish,
                          EndTurn, Observe
      <3>3. QED
        BY <3>1, <3>2
    <2>4. \A g \in Findings \ {f} :
             pc'[g] = pc[g] /\ tool'[g] = tool[g] /\ asked'[g] = asked[g]
      <3>1. CASE Reply(f)
        BY <3>1 DEF Reply, ReplyNonDict, ReplyMalformed, ReplyConclude,
                    ReplyUnregistered, ReplyTool, Observe
      <3>2. CASE ~Reply(f)
        BY <1>4, <3>2 DEF Start, TurnsExhausted, Precheck, Lookup, RunTool, Finish,
                          EndTurn, Observe, ClearRequest
      <3>3. QED
        BY <3>1, <3>2
    <2>5. QED
      BY <2>1, <2>2, <2>3, <2>4 DEF OwnResults, OwnRecords
  <1>5. QED
    BY <1>1, <1>2, <1>3, <1>4, DispatchResults, RunnerResults, PublishResults
    DEF Task, Runner

LEMMA SpecResults == Spec => []OwnResults
  <1>1. Init => OwnResults
    BY DEF Init, D!Init, OwnResults
  <1>2. Base /\ CacheInv /\ OwnResults /\ [Next]_vars => OwnResults'
    <2>1. ASSUME OwnResults, UNCHANGED vars PROVE OwnResults'
      BY <2>1 DEF vars, disciplineVars, requestVars, OwnResults, OwnRecords
    <2>2. QED
      BY <2>1, TaskResults DEF Next, PoolJoined
  <1>3. QED
    BY <1>1, <1>2, SpecBase, SpecCache, PTL DEF Spec
-----------------------------------------------------------------------------
(* What a finding has been shown.                                          *)
Contexts == ctx \in [Findings -> Seq(Entries)] /\ ForeignRecordsOnlyShared

(* One more entry, of which the two facts have to be known.                *)
LEMMA ObserveContext ==
    ASSUME Contexts, NEW f \in Findings, NEW t \in Tools, NEW a \in ReqPids,
           NEW k \in {"records", "unavailable", "skipped", "budget", "error"},
           NEW p \in ReqPids \cup {NoPid},
           k = "records" /\ p # a => t \in FullImage,
           Observe(f, t, a, k, p)
    PROVE  Contexts'
  <1> DEFINE e == [tool |-> t, asked |-> a, kind |-> k, pid |-> p]
  <1>1. e \in Entries
    BY DEF Entries
  <1>2. ctx' = [ctx EXCEPT ![f] = Append(@, e)]
    BY DEF Observe
  <1>3. ctx' \in [Findings -> Seq(Entries)]
    BY <1>1, <1>2 DEF Contexts
  <1>4. ForeignRecordsOnlyShared'
    <2> SUFFICES ASSUME NEW g \in Findings, NEW i \in 1 .. Len(ctx'[g])
                 PROVE  LET x == ctx'[g][i]
                        IN  x.kind = "records" /\ x.pid # x.asked => x.tool \in FullImage
      BY DEF ForeignRecordsOnlyShared
    <2>1. CASE g # f \/ i <= Len(ctx[f])
      <3>1. i \in 1 .. Len(ctx[g]) /\ ctx'[g][i] = ctx[g][i]
        BY <1>1, <1>2, <2>1 DEF Contexts
      <3>2. QED
        BY <3>1 DEF Contexts, ForeignRecordsOnlyShared
    <2>2. CASE g = f /\ ~(i <= Len(ctx[f]))
      <3>1. ctx'[g][i] = e
        BY <1>1, <1>2, <2>2 DEF Contexts
      <3>2. QED
        BY <3>1
    <2>3. QED
      BY <2>1, <2>2
  <1>5. QED
    BY <1>3, <1>4 DEF Contexts

LEMMA SameContext ==
    ASSUME Contexts, UNCHANGED ctx PROVE Contexts'
  BY DEF Contexts, ForeignRecordsOnlyShared

(* The cache and the outcomes of a launch serve the PID asked for, unless  *)
(* a full-image launch was shared.                                         *)
LEMMA TaskContext ==
    ASSUME Base, CacheInv, OwnResults, Contexts, NEW f \in Findings, Task(f)
    PROVE  Contexts'
  <1>1. pc[f] \in {"precheck", "run_tool"} \cup Dispatched =>
           tool[f] \in Tools /\ asked[f] \in ReqPids
    BY DEF Base, Local, RequestKnown
  <1>2. pc[f] \in Dispatched => tool[f] \in VolTools
    BY DEF Base, Local, RequestKnown
  <1>3. CASE ReplyTool(f)
    <2>1. PICK t \in Tools, p \in AIPids :
             IF Redirect(t) \in Covered
             THEN Observe(f, Redirect(t), p, "records", p) ELSE UNCHANGED ctx
      BY <1>3 DEF ReplyTool
    <2>2. Redirect(t) \in Tools /\ p \in ReqPids
      BY Step11Assumption DEF Redirect
    <2>3. QED
      BY <2>1, <2>2, ObserveContext, SameContext
  <1>4. CASE Precheck(f)
    <2>1. tool[f] \in Tools /\ asked[f] \in ReqPids
      BY <1>1, <1>4 DEF Precheck
    <2>2. UNCHANGED ctx \/ Observe(f, tool[f], asked[f], "skipped", NoPid)
      BY <1>4 DEF Precheck, EndTurn
    <2>3. QED
      BY <2>1, <2>2, ObserveContext, SameContext
  <1>5. CASE Lookup(f)
    <2>1. tool[f] \in VolTools /\ tool[f] \in Tools /\ asked[f] \in ReqPids
      BY <1>1, <1>2, <1>5 DEF Lookup, Dispatched
    <2>2. cache[tool[f]] # NoPid => FilterByPid(cache[tool[f]], asked[f]) = asked[f]
      BY <2>1 DEF CacheInv, FilterByPid
    <2>3. UNCHANGED ctx \/ Observe(f, tool[f], asked[f], "records", asked[f])
      BY <1>5, <2>2 DEF Lookup, EndTurn
    <2>4. QED
      BY <2>1, <2>3, ObserveContext, SameContext
  <1>6. CASE Answer(f)
    <2>1. tool[f] \in Tools /\ asked[f] \in ReqPids /\ st[f] = "returned"
      BY <1>1, <1>6 DEF Answer, AnswerRecords, AnswerBudget, AnswerTimeout,
                        AnswerError, Answered, D!Collect, Dispatched
    <2>2. CASE AnswerRecords(f)
      <3>1. res[f] \in Outcomes /\ res[f].kind \in {"records", "unavailable"}
        BY <2>1, <2>2 DEF AnswerRecords, OwnResults, Base, DP!IInv, DP!TypeOK
      <3>2. res[f].pid \in ReqPids \cup {NoPid}
        BY <3>1 DEF Outcomes, Records, Unavailable, Timeout, Error, Failure
      <3>3. res[f].kind = "records" /\ res[f].pid # asked[f] => tool[f] \in FullImage
        BY <2>1, <3>1 DEF OwnResults, OwnRecords
      <3>4. Observe(f, tool[f], asked[f], res[f].kind, res[f].pid)
        BY <2>2 DEF AnswerRecords, EndTurn
      <3>5. QED
        BY <2>1, <3>1, <3>2, <3>3, <3>4, ObserveContext
    <2>3. CASE AnswerBudget(f)
      <3>1. Observe(f, tool[f], asked[f], "budget", NoPid)
        BY <2>3 DEF AnswerBudget, EndTurn
      <3>2. QED
        BY <2>1, <3>1, ObserveContext
    <2>4. CASE AnswerError(f)
      <3>1. Observe(f, tool[f], asked[f], "error", NoPid)
        BY <2>4 DEF AnswerError, EndTurn
      <3>2. QED
        BY <2>1, <3>1, ObserveContext
    <2>5. CASE AnswerTimeout(f)
      BY <2>5, SameContext DEF AnswerTimeout
    <2>6. QED
      BY <1>6, <2>2, <2>3, <2>4, <2>5 DEF Answer
  <1>7. CASE RunTool(f)
    <2>1. tool[f] \in Tools /\ asked[f] \in ReqPids
      BY <1>1, <1>7 DEF RunTool
    <2>2. \/ Observe(f, tool[f], asked[f], "records", asked[f])
          \/ Observe(f, tool[f], asked[f], "unavailable", NoPid)
      BY <1>7 DEF RunTool, EndTurn
    <2>3. QED
      BY <2>1, <2>2, ObserveContext
  <1>8. CASE \/ Start(f) \/ TurnsExhausted(f) \/ Dispatch(f) \/ Runner(f) \/ Finish(f)
             \/ Reply(f) /\ ~ReplyTool(f)
    <2>1. UNCHANGED ctx
      BY <1>8 DEF Start, TurnsExhausted, Dispatch, Runner, RunnerCached, RunnerScans,
         ScanSucceeds, ScanUnavailable, ScanRaises, Publish, ReleaseKey, Finish, Reply,
         ReplyNonDict, ReplyMalformed, ReplyConclude, ReplyUnregistered, findingVars
    <2>2. QED
      BY <2>1, SameContext
  <1>9. QED
    BY <1>3, <1>4, <1>5, <1>6, <1>7, <1>8 DEF Task, Reply

LEMMA SpecContexts == Spec => []Contexts
  <1>1. Init => Contexts
    BY DEF Init, Contexts, ForeignRecordsOnlyShared
  <1>2. Base /\ CacheInv /\ OwnResults /\ Contexts /\ [Next]_vars => Contexts'
    <2>1. ASSUME Contexts, UNCHANGED vars PROVE Contexts'
      BY <2>1, SameContext DEF vars, findingVars
    <2>2. QED
      BY <2>1, TaskContext DEF Next, PoolJoined
  <1>3. QED
    BY <1>1, <1>2, SpecBase, SpecCache, SpecResults, PTL DEF Spec

(* Every variable of Step 11 keeps its type.                               *)
THEOREM Step11TypeCorrect == Spec => []TypeOK
  <1>1. DP!TypeOK => D!TypeOK
    BY DEF DP!TypeOK, D!TypeOK, DP!Keys, D!Keys
  <1>2. Base /\ Contexts => TypeOK
    BY <1>1 DEF Base, DP!IInv, Local, LocalTypes, Contexts, TypeOK
  <1>3. QED
    BY <1>2, SpecBase, SpecContexts, PTL

(* Records of a PID the AI did not ask for come only from a full-image     *)
(* launch, for any number of findings, turns and workers.                  *)
THEOREM ForeignRecordsTheorem == Spec => []ForeignRecordsOnlyShared
  BY SpecContexts, PTL DEF Contexts

-----------------------------------------------------------------------------
(* A conclusion without a verdict is a pause that is about to end the      *)
(* investigation.                                                          *)
Verdicted ==
    \A f \in Findings : verdict[f] = "none" =>
        /\ \/ conclusion[f] = "none"
           \/ conclusion[f] = "paused" /\ pc[f] \in {"finish", "done"}
        /\ pc[f] = "done" /\ conclusion[f] = "none" => ctx[f] = <<>>

LEMMA TaskVerdicted ==
    ASSUME Base, Contexts, Verdicted, NEW f \in Findings, Task(f)
    PROVE  Verdicted'
  <1>0. LocalTypes
    BY DEF Base, Local
  <1> USE <1>0 DEF LocalTypes, Verdicted, Goto
  <1>1. CASE Finish(f)
    <2>1. pc' = [pc EXCEPT ![f] = "done"] /\ ctx' = ctx
      BY <1>1 DEF Finish
    <2>2. CASE conclusion[f] \in {"none", ""} /\ ctx[f] # <<>>
      <3>1. verdict' = [verdict EXCEPT ![f] = "inconclusive"]
            /\ conclusion' = [conclusion EXCEPT ![f] = "cap"]
        BY <1>1, <2>2 DEF Finish
      <3>2. QED
        BY <2>1, <3>1
    <2>3. CASE ~(conclusion[f] \in {"none", ""} /\ ctx[f] # <<>>)
      <3>1. UNCHANGED <<verdict, conclusion>>
        BY <1>1, <2>3 DEF Finish
      <3>2. QED
        BY <2>1, <2>3, <3>1
    <2>4. QED
      BY <2>2, <2>3
  <1>2. CASE ReplyConclude(f)
    <2>1. PICK v \in AIVerdicts, text \in {"", "ai"} :
             /\ verdict' = [verdict EXCEPT ![f] = v]
             /\ conclusion' = [conclusion EXCEPT ![f] = text]
      BY <1>2 DEF ReplyConclude
    <2>2. v # "none"
      BY Step11Assumption DEF Verdicts
    <2>3. QED
      BY <1>2, <2>1, <2>2 DEF ReplyConclude
  <1>3. CASE ReplyUnregistered(f)
    BY <1>3 DEF ReplyUnregistered
  <1>4. CASE AnswerTimeout(f)
    BY <1>4 DEF AnswerTimeout
  <1>5. CASE ~(Finish(f) \/ ReplyConclude(f) \/ ReplyUnregistered(f) \/ AnswerTimeout(f))
    <2>1. UNCHANGED <<verdict, conclusion>>
      BY <1>5 DEF Task, Start, TurnsExhausted, Reply, ReplyNonDict, ReplyMalformed,
         ReplyTool, Precheck, Lookup, Dispatch, Runner, RunnerCached, RunnerScans,
         ScanSucceeds, ScanUnavailable, ScanRaises, Publish, ReleaseKey, Answer,
         AnswerRecords, AnswerBudget, AnswerError, RunTool, findingVars
    <2>2. pc[f] \notin {"finish", "done"} /\ pc'[f] # "done"
          /\ \A g \in Findings \ {f} : pc'[g] = pc[g]
      <3>1. CASE Reply(f)
        BY <1>5, <3>1 DEF Reply, ReplyNonDict, ReplyMalformed, ReplyTool, TurnLeft, Observe
      <3>2. CASE Answer(f)
        BY <1>5, <3>2 DEF Answer, AnswerRecords, AnswerBudget, AnswerError, Answered,
                          EndTurn, Observe
      <3>3. CASE Runner(f)
        BY <3>3 DEF Runner, RunnerCached, RunnerScans, ScanSucceeds, ScanUnavailable,
                    ScanRaises, Publish, ReleaseKey
      <3>4. CASE \/ Start(f) \/ TurnsExhausted(f) \/ Precheck(f) \/ Lookup(f)
                 \/ Dispatch(f) \/ RunTool(f)
        BY <3>4 DEF Start, TurnsExhausted, Precheck, Lookup, Dispatch, RunTool,
                    EndTurn, Observe
      <3>5. QED
        BY <1>5, <3>1, <3>2, <3>3, <3>4 DEF Task
    <2>3. \A g \in Findings \ {f} : ctx'[g] = ctx[g]
      BY <1>5 DEF Task, Contexts, Start, TurnsExhausted, Reply, ReplyNonDict,
         ReplyMalformed, ReplyTool, Precheck, Lookup, Dispatch, Runner, RunnerCached,
         RunnerScans, ScanSucceeds, ScanUnavailable, ScanRaises, Publish, ReleaseKey,
         Answer, AnswerRecords, AnswerBudget, AnswerError, RunTool, EndTurn, Observe,
         findingVars
    <2>4. QED
      BY <2>1, <2>2, <2>3
  <1>6. QED
    BY <1>1, <1>2, <1>3, <1>4, <1>5

(* Neither a failure, a timeout, a refusal nor the turn cap leaves a       *)
(* finished investigation without a verdict.                               *)
THEOREM NoSilentGapTheorem == Spec => []NoSilentGap
  <1>1. Init => Verdicted
    BY DEF Init, Verdicted
  <1>2. Base /\ Contexts /\ Verdicted /\ [Next]_vars => Verdicted'
    <2>1. ASSUME Verdicted, UNCHANGED vars PROVE Verdicted'
      BY <2>1 DEF vars, findingVars, Verdicted
    <2>2. QED
      BY <2>1, TaskVerdicted DEF Next, PoolJoined
  <1>3. Verdicted => NoSilentGap
    BY DEF Verdicted, NoSilentGap
  <1>4. QED
    BY <1>1, <1>2, <1>3, SpecBase, SpecContexts, PTL DEF Spec

-----------------------------------------------------------------------------
(* The two ways a task moves: it goes on with its turn, or it observes     *)
(* something and the turn is over.                                         *)
InTurn == {"precheck", "lookup", "dispatch", "own", "scan", "publish",
           "release", "answer", "run_tool"}

GoesOn(f, l) ==
    /\ Goto(f, l) /\ UNCHANGED ctx
    /\ l \in DOMAIN StepsLeft /\ StepsLeft[l] < StepsLeft[pc[f]]
    /\ l \in InTurn => pc[f] \in InTurn \/ TurnLeft(f)

Observes(f) ==
    /\ pc[f] \in InTurn \/ TurnLeft(f)
    /\ \E t, a, k, p : Observe(f, t, a, k, p)

LEMMA StepsLeftValues ==
    /\ DOMAIN StepsLeft = {"queued", "ask", "finish", "done", "skipped", "crashed"} \cup InTurn
    /\ \A l \in DOMAIN StepsLeft : StepsLeft[l] \in 0 .. 12
    /\ StepsLeft["queued"] = 12 /\ StepsLeft["ask"] = 11
    /\ \A l \in InTurn : StepsLeft[l] \in 3 .. 10
    /\ StepsLeft["finish"] = 2
    /\ StepsLeft["done"] = 0 /\ StepsLeft["skipped"] = 0 /\ StepsLeft["crashed"] = 0
  BY DEF StepsLeft, InTurn

LEMMA Onward ==
    ASSUME NEW f \in Findings, NEW k \in DOMAIN StepsLeft, NEW l \in DOMAIN StepsLeft,
           pc[f] = k, Goto(f, l), ctx' = ctx, StepsLeft[l] < StepsLeft[k],
           l \in InTurn => k \in InTurn \/ TurnLeft(f)
    PROVE  \E m : GoesOn(f, m)
  BY DEF GoesOn

LEMMA TaskMoves ==
    ASSUME Base, NEW f \in Findings, Task(f)
    PROVE  (\E l : GoesOn(f, l)) \/ Observes(f)
  <1> DEFINE Goes(k, l) == pc[f] = k /\ Goto(f, l) /\ ctx' = ctx
  <1>1. CASE Start(f)
    <2>1. Goes("queued", "skipped") \/ Goes("queued", "ask")
      BY <1>1 DEF Start, findingVars
    <2>2. QED
      BY <2>1, Onward, StepsLeftValues DEF InTurn
  <1>2. CASE TurnsExhausted(f)
    <2>1. Goes("ask", "finish")
      BY <1>2 DEF TurnsExhausted, findingVars
    <2>2. QED
      BY <2>1, Onward, StepsLeftValues DEF InTurn
  <1>3. CASE Reply(f) /\ ~ReplyTool(f)
    <2>1. Goes("ask", "finish") \/ Goes("ask", "crashed")
      BY <1>3 DEF Reply, ReplyNonDict, ReplyMalformed, ReplyConclude,
                  ReplyUnregistered, TurnLeft, findingVars
    <2>2. QED
      BY <2>1, Onward, StepsLeftValues DEF InTurn
  <1>4. CASE ReplyTool(f)
    <2>1. PICK t \in Tools, p \in AIPids :
             IF Redirect(t) \in Covered
             THEN Observe(f, Redirect(t), p, "records", p)
             ELSE Goto(f, "precheck") /\ UNCHANGED ctx
      BY <1>4 DEF ReplyTool
    <2>2. TurnLeft(f) /\ pc[f] = "ask"
      BY <1>4 DEF ReplyTool, TurnLeft
    <2>3. Observes(f) \/ Goes("ask", "precheck")
      BY <2>1, <2>2 DEF Observes
    <2>4. QED
      BY <2>2, <2>3, Onward, StepsLeftValues DEF InTurn
  <1>5. CASE Precheck(f)
    <2>1. Goes("precheck", "lookup") \/ Goes("precheck", "run_tool") \/ Observes(f)
      BY <1>5 DEF Precheck, EndTurn, Observes, InTurn
    <2>2. QED
      BY <2>1, Onward, StepsLeftValues DEF InTurn, StepsLeft
  <1>6. CASE Lookup(f)
    <2>1. Goes("lookup", "dispatch") \/ Observes(f)
      BY <1>6 DEF Lookup, EndTurn, Observes, InTurn
    <2>2. QED
      BY <2>1, Onward, StepsLeftValues DEF InTurn, StepsLeft
  <1>7. CASE Dispatch(f)
    <2>1. Goes("dispatch", "own") \/ Goes("dispatch", "answer")
      BY <1>7 DEF Dispatch, findingVars
    <2>2. QED
      BY <2>1, Onward, StepsLeftValues DEF InTurn, StepsLeft
  <1>8. CASE Runner(f)
    <2>1. \/ Goes("own", "scan") \/ Goes("own", "publish") \/ Goes("scan", "publish")
          \/ Goes("publish", "release") \/ Goes("release", "answer")
      BY <1>8 DEF Runner, RunnerCached, RunnerScans, ScanSucceeds, ScanUnavailable,
                  ScanRaises, Publish, ReleaseKey, findingVars
    <2>2. QED
      BY <2>1, Onward, StepsLeftValues DEF InTurn, StepsLeft
  <1>9. CASE Answer(f)
    <2>1. Goes("answer", "finish") \/ Observes(f)
      BY <1>9 DEF Answer, AnswerRecords, AnswerBudget, AnswerTimeout, AnswerError,
                  Answered, EndTurn, Observes, InTurn
    <2>2. QED
      BY <2>1, Onward, StepsLeftValues DEF InTurn
  <1>10. CASE RunTool(f)
    BY <1>10 DEF RunTool, EndTurn, Observes, InTurn
  <1>11. CASE Finish(f)
    <2>1. Goes("finish", "done")
      BY <1>11 DEF Finish
    <2>2. QED
      BY <2>1, Onward, StepsLeftValues DEF InTurn
  <1>12. QED
    BY <1>1, <1>2, <1>3, <1>4, <1>5, <1>6, <1>7, <1>8, <1>9, <1>10, <1>11
    DEF Task, Reply

LEMMA TaskBounded ==
    ASSUME Base, Contexts, TurnsBounded, NEW f \in Findings, Task(f)
    PROVE  TurnsBounded'
  <1>1. pc \in [Findings -> DOMAIN StepsLeft] /\ ctx \in [Findings -> Seq(Entries)]
    BY DEF Base, Local, LocalTypes, Contexts, StepsLeft
  <1>2. MaxTurns \in Nat /\ \A g \in Findings : Len(ctx[g]) \in Nat
    BY <1>1, Step11Assumption
  <1>3. ASSUME NEW l, GoesOn(f, l) PROVE TurnsBounded'
    BY <1>1, <1>2, <1>3 DEF GoesOn, Goto, TurnsBounded, InTurn, TurnLeft
  <1>4. ASSUME Observes(f) PROVE TurnsBounded'
    <2>1. PICK e : ctx' = [ctx EXCEPT ![f] = Append(@, e)] /\ pc' = [pc EXCEPT ![f] = "ask"]
      BY <1>4 DEF Observes, Observe, Goto
    <2>2. Len(ctx[f]) < MaxTurns
      BY <1>4 DEF Observes, TurnsBounded, TurnLeft, InTurn
    <2>3. Len(ctx'[f]) = Len(ctx[f]) + 1 /\ \A g \in Findings \ {f} : ctx'[g] = ctx[g]
      BY <1>1, <2>1
    <2>4. QED
      BY <1>1, <1>2, <2>1, <2>2, <2>3 DEF TurnsBounded
  <1>5. QED
    BY <1>3, <1>4, TaskMoves

(* No investigation observes more than max_turns tools, for any number of  *)
(* findings, turns and workers.                                            *)
THEOREM TurnsTheorem == Spec => []TurnsBounded
  <1>1. Init => TurnsBounded
    BY Step11Assumption DEF Init, TurnsBounded
  <1>2. Base /\ Contexts /\ TurnsBounded /\ [Next]_vars => TurnsBounded'
    <2>1. ASSUME TurnsBounded, UNCHANGED vars PROVE TurnsBounded'
      BY <2>1 DEF vars, findingVars, TurnsBounded
    <2>2. QED
      BY <2>1, TaskBounded DEF Next, PoolJoined
  <1>3. QED
    BY <1>1, <1>2, SpecBase, SpecContexts, PTL DEF Spec

LEMMA RankArithmetic ==
    ASSUME NEW n \in Int, NEW a \in Nat, NEW b \in Nat
    PROVE  /\ a < b => 12 * n + a < 12 * n + b
           /\ a = 11 /\ b >= 3 => 12 * (n - 1) + a < 12 * n + b
  OBVIOUS

LEMMA TaskShrinks ==
    ASSUME Base, Contexts, TurnsBounded, NEW f \in Findings, Task(f)
    PROVE  /\ Rank(f)' < Rank(f)
           /\ \A g \in Findings \ {f} : Rank(g)' = Rank(g)
  <1>1. pc \in [Findings -> DOMAIN StepsLeft] /\ ctx \in [Findings -> Seq(Entries)]
    BY DEF Base, Local, LocalTypes, Contexts, StepsLeft
  <1>2. MaxTurns \in Nat /\ Len(ctx[f]) \in Nat
    BY <1>1, Step11Assumption
  <1>3. StepsLeft[pc[f]] \in 0 .. 12
    BY <1>1, StepsLeftValues
  <1>4. ASSUME NEW l, GoesOn(f, l)
        PROVE  /\ Rank(f)' < Rank(f)
               /\ \A g \in Findings \ {f} : Rank(g)' = Rank(g)
    <2>1. /\ ctx' = ctx /\ pc'[f] = l /\ \A g \in Findings \ {f} : pc'[g] = pc[g]
          /\ StepsLeft[l] < StepsLeft[pc[f]] /\ StepsLeft[l] \in 0 .. 12
      BY <1>1, <1>4, StepsLeftValues DEF GoesOn, Goto
    <2>2. Rank(f)' = 12 * (MaxTurns - Len(ctx[f])) + StepsLeft[l]
      BY <2>1 DEF Rank
    <2>3. Rank(f)' < Rank(f)
      <3>1. /\ MaxTurns - Len(ctx[f]) \in Int
            /\ StepsLeft[l] \in Nat /\ StepsLeft[pc[f]] \in Nat
        BY <1>2, <1>3, <2>1
      <3>2. QED
        BY <2>1, <2>2, <3>1, RankArithmetic DEF Rank
    <2>4. \A g \in Findings \ {f} : Rank(g)' = Rank(g)
      BY <2>1 DEF Rank
    <2>5. QED
      BY <2>3, <2>4
  <1>5. ASSUME Observes(f)
        PROVE  /\ Rank(f)' < Rank(f)
               /\ \A g \in Findings \ {f} : Rank(g)' = Rank(g)
    <2>1. PICK e : ctx' = [ctx EXCEPT ![f] = Append(@, e)] /\ pc' = [pc EXCEPT ![f] = "ask"]
      BY <1>5 DEF Observes, Observe, Goto
    <2>2. /\ Len(ctx'[f]) = Len(ctx[f]) + 1 /\ pc'[f] = "ask"
          /\ \A g \in Findings \ {f} : ctx'[g] = ctx[g] /\ pc'[g] = pc[g]
      BY <1>1, <2>1
    <2>3. StepsLeft["ask"] = 11 /\ StepsLeft[pc[f]] >= 3
      BY <1>5, StepsLeftValues DEF Observes, TurnLeft
    <2>4. Rank(f)' = 12 * (MaxTurns - Len(ctx[f]) - 1) + StepsLeft["ask"]
      BY <1>2, <2>2 DEF Rank
    <2>5. Rank(f)' < Rank(f)
      BY <1>2, <1>3, <2>3, <2>4, RankArithmetic DEF Rank
    <2>6. \A g \in Findings \ {f} : Rank(g)' = Rank(g)
      BY <2>2 DEF Rank
    <2>7. QED
      BY <2>5, <2>6
  <1>6. QED
    BY <1>4, <1>5, TaskMoves

(* Every step brings one investigation nearer its end and sets none back.  *)
THEOREM ShrinkTheorem == Spec => StepsShrink
  <1>1. Base /\ Contexts /\ TurnsBounded /\ [Next]_vars =>
           [\E f \in Findings : /\ Rank(f)' < Rank(f)
                                /\ \A g \in Findings \ {f} : Rank(g)' = Rank(g)]_vars
    BY TaskShrinks DEF Next, PoolJoined
  <1>2. QED
    BY <1>1, SpecBase, SpecContexts, TurnsTheorem, PTL DEF Spec, StepsShrink

-----------------------------------------------------------------------------
(* A task that holds a worker can move, or waits for one that runs the     *)
(* launch it shares and can.                                               *)
LEMMA BusyNotStalled ==
    ASSUME Base, NEW f \in Findings, ~Settled(f), pc[f] # "queued"
    PROVE  \E g \in Findings : Movable(g)
  <1>1. CASE pc[f] = "answer" /\ st[f] # "returned"
    <2>1. st[f] = "waiting"
      BY <1>1 DEF Base, Linked, PhasesLinked
    <2>2. on[f] \in Findings /\ st[on[f]] = "running"
      BY <2>1 DEF Base, DP!IInv, DP!WaitersHaveRunner
    <2>3. pc[on[f]] \in {"own", "scan", "publish"}
      BY <2>2 DEF Base, Linked, PhasesLinked
    <2>4. Movable(on[f])
      BY <2>3 DEF Movable, Settled
    <2>5. QED
      BY <2>2, <2>4
  <1>2. CASE ~(pc[f] = "answer" /\ st[f] # "returned")
    BY <1>2 DEF Movable
  <1>3. QED
    BY <1>1, <1>2

(* The pool never waits on itself, for any number of findings and workers. *)
THEOREM NoStallTheorem == Spec => []NoStall
  <1> DEFINE busy == {g \in Findings : pc[g] # "queued" /\ ~Settled(g)}
  <1>1. Base => NoStall
    <2> SUFFICES ASSUME Base, NEW f \in Findings, ~Settled(f)
                 PROVE  \E g \in Findings : Movable(g)
      BY DEF NoStall
    <2>1. CASE pc[f] = "queued" /\ WorkerFree
      BY <2>1 DEF Movable
    <2>2. CASE pc[f] = "queued" /\ ~WorkerFree
      <3>1. busy # {}
        <4>1. Cardinality({}) = 0 /\ MaxWorkers > 0
          BY FS_EmptySet, Step11Assumption
        <4>2. QED
          BY <2>2, <4>1 DEF WorkerFree
      <3>2. PICK g \in Findings : pc[g] # "queued" /\ ~Settled(g)
        BY <3>1
      <3>3. QED
        BY <3>2, BusyNotStalled
    <2>3. CASE pc[f] # "queued"
      BY <2>3, BusyNotStalled
    <2>4. QED
      BY <2>1, <2>2, <2>3
  <1>2. QED
    BY <1>1, SpecBase, PTL

-----------------------------------------------------------------------------
(* What the task of one finding leaves of another: only the end of a       *)
(* launch it shares moves the call of a waiting finding.                   *)
LEMMA OthersKept ==
    ASSUME Base, NEW f \in Findings, NEW g \in Findings \ {f}, Task(f)
    PROVE  /\ pc'[g] = pc[g] /\ got'[g] = got[g] /\ on'[g] = on[g]
           /\ verdict'[g] = verdict[g] /\ conclusion'[g] = conclusion[g]
           /\ \/ st'[g] = st[g] /\ res'[g] = res[g]
              \/ Publish(f) /\ st[g] = "waiting" /\ on[g] = f
  <1>1. /\ pc \in [Findings ->
              {"queued", "ask", "precheck", "lookup", "dispatch", "own", "scan",
               "publish", "release", "answer", "run_tool", "finish",
               "done", "skipped", "crashed"}]
        /\ got \in [Findings -> Outcomes \cup {NoResult}]
        /\ conclusion \in [Findings -> {"none", "", "ai", "paused", "timeout", "cap"}]
        /\ verdict \in [Findings -> Verdicts \cup {"none"}]
    BY DEF Base, Local, LocalTypes
  <1>2. /\ st \in [Findings -> {"idle", "running", "resolved", "waiting", "returned"}]
        /\ on \in [Findings -> Findings \cup {NoThread}]
        /\ res \in [Findings -> Outcomes \cup {NoResult, BudgetExhausted}]
    BY DEF Base, DP!IInv, DP!TypeOK
  <1> USE DEF Goto, disciplineVars, requestVars, findingVars
  <1>3. CASE Start(f) \/ TurnsExhausted(f) \/ Finish(f)
    BY <1>1, <1>3 DEF Start, TurnsExhausted, Finish
  <1>4. CASE Reply(f)
    BY <1>1, <1>4 DEF Reply, ReplyNonDict, ReplyMalformed, ReplyConclude,
                      ReplyUnregistered, ReplyTool, Observe
  <1>5. CASE Precheck(f) \/ Lookup(f) \/ RunTool(f)
    BY <1>1, <1>5 DEF Precheck, Lookup, RunTool, EndTurn, Observe
  <1>6. CASE Dispatch(f)
    BY <1>1, <1>2, <1>6 DEF Dispatch, D!HighCostDispatch, D!JoinInFlight,
       D!RefuseLaunch, D!OwnLaunch, D!BecomeOwner
  <1>7. CASE RunnerCached(f) \/ RunnerScans(f) \/ ScanSucceeds(f)
             \/ ScanUnavailable(f) \/ ScanRaises(f)
    BY <1>1, <1>7 DEF RunnerCached, RunnerScans, ScanSucceeds, ScanUnavailable, ScanRaises
  <1>8. CASE Publish(f)
    BY <1>1, <1>2, <1>8 DEF Publish, D!Resolve
  <1>9. CASE ReleaseKey(f)
    BY <1>1, <1>2, <1>9 DEF ReleaseKey, D!Release
  <1>10. CASE Answer(f)
    BY <1>1, <1>2, <1>10 DEF Answer, AnswerRecords, AnswerBudget, AnswerTimeout,
       AnswerError, Answered, D!Collect, EndTurn, Observe
  <1>11. QED
    BY <1>3, <1>4, <1>5, <1>6, <1>7, <1>8, <1>9, <1>10 DEF Task, Runner

(* The only answer to a timed-out launch labels the finding.               *)
LEMMA TimeoutAnswered ==
    ASSUME Base, NEW f \in Findings, Answer(f), res[f] = Timeout
    PROVE  /\ pc'[f] = "finish"
           /\ verdict'[f] = "inconclusive" /\ conclusion'[f] = "timeout"
  <1>1. Timeout # Error /\ Timeout # BudgetExhausted
        /\ Timeout.kind \notin {"records", "unavailable"}
    BY NullAssumption DEF Timeout, Error, Failure, Outcomes
  <1>2. AnswerTimeout(f)
    BY <1>1 DEF Answer, AnswerRecords, AnswerBudget, AnswerError
  <1>3. QED
    BY <1>2 DEF AnswerTimeout, Goto, Base, Local, LocalTypes

(* The way of a sharer once its launch has timed out.                      *)
Owed(g, s) == st[g] = s /\ res[g] = Timeout

Labelled(g, l) ==
    pc[g] = l /\ verdict[g] = "inconclusive" /\ conclusion[g] = "timeout"

LEMMA TaskAt ==
    ASSUME NEW g \in Findings, Task(g)
    PROVE  /\ pc[g] = "publish" => Publish(g)
           /\ pc[g] = "release" => ReleaseKey(g)
           /\ pc[g] = "answer" => Answer(g)
           /\ pc[g] = "finish" => Finish(g)
           /\ ~Settled(g)
  BY DEF Task, Settled, Start, TurnsExhausted, Reply, ReplyNonDict,
         ReplyMalformed, ReplyConclude, ReplyUnregistered, ReplyTool, TurnLeft,
         Precheck, Lookup, Dispatch, Runner, RunnerCached, RunnerScans, ScanSucceeds,
         ScanUnavailable, ScanRaises, Publish, ReleaseKey, Answer, AnswerRecords,
         AnswerBudget, AnswerTimeout, AnswerError, Answered, RunTool, Finish

LEMMA SharingStep ==
    ASSUME Base, NEW f \in Findings, NEW g \in Findings, Sharing(f, g),
           NEW h \in Findings, Task(h)
    PROVE  /\ h # f => Sharing(f, g)'
           /\ h = f => Owed(g, "resolved")' \/ Owed(g, "returned")'
  <1>1. pc[f] = "publish" /\ got[f] = Timeout /\ st[f] = "running"
        /\ (g = f \/ (st[g] = "waiting" /\ on[g] = f))
    BY DEF Sharing, Base, Linked, PhasesLinked
  <1>2. CASE h # f
    <2>1. pc'[f] = "publish" /\ got'[f] = Timeout
      BY <1>1, <1>2, OthersKept
    <2>2. CASE g # f /\ h = g
      <3>1. pc[g] = "answer" /\ st[g] # "returned"
        BY <1>1, <2>2 DEF Base, Linked, PhasesLinked
      <3>2. Answer(g)
        BY <2>2, <3>1, TaskAt
      <3>3. FALSE
        BY <3>1, <3>2
        DEF Answer, AnswerRecords, AnswerBudget, AnswerTimeout, AnswerError, Answered,
            D!Collect
      <3>4. QED
        BY <3>3
    <2>3. CASE g # f /\ h # g
      <3>1. st'[g] = st[g] /\ on'[g] = on[g]
        BY <1>1, <1>2, <2>3, OthersKept
      <3>2. QED
        BY <1>1, <1>2, <2>1, <2>3, <3>1 DEF Sharing
    <2>4. QED
      BY <1>2, <2>1, <2>2, <2>3 DEF Sharing
  <1>3. CASE h = f
    <2>1. Publish(f)
      BY <1>1, <1>3, TaskAt
    <2>2. st'[g] \in {"resolved", "returned"} /\ res'[g] = Timeout
      BY <1>1, <2>1 DEF Publish, D!Resolve
    <2>3. QED
      BY <1>3, <2>2 DEF Owed
  <1>4. QED
    BY <1>2, <1>3

LEMMA TimingStep ==
    ASSUME Base, NEW g \in Findings, NEW h \in Findings, Task(h)
    PROVE  /\ Owed(g, "resolved") =>
                 IF h = g THEN Owed(g, "returned")' ELSE Owed(g, "resolved")'
           /\ Owed(g, "returned") =>
                 IF h = g THEN Labelled(g, "finish")' ELSE Owed(g, "returned")'
           /\ Labelled(g, "finish") =>
                 IF h = g THEN Labelled(g, "done")' ELSE Labelled(g, "finish")'
           /\ Labelled(g, "done") => Labelled(g, "done")'
  <1>1. CASE h # g
    BY <1>1, OthersKept DEF Owed, Labelled
  <1>2. CASE h = g
    <2>1. st[g] = "resolved" => pc[g] = "release"
      BY DEF Base, Linked, PhasesLinked
    <2>2. st[g] = "returned" => pc[g] = "answer"
      BY DEF Base, Linked, PhasesLinked
    <2>3. /\ pc[g] = "release" => ReleaseKey(g)
          /\ pc[g] = "answer" => Answer(g)
          /\ pc[g] = "finish" => Finish(g)
          /\ pc[g] # "done"
      BY <1>2, TaskAt DEF Settled
    <2>4. Owed(g, "resolved") => Owed(g, "returned")'
      BY <2>1, <2>3 DEF Owed, ReleaseKey, D!Release, Base, DP!IInv, DP!TypeOK
    <2>5. Owed(g, "returned") => Labelled(g, "finish")'
      BY <2>2, <2>3, TimeoutAnswered DEF Owed, Labelled
    <2>6. Labelled(g, "finish") => Labelled(g, "done")'
      BY <2>3 DEF Labelled, Finish, Goto, Base, Local, LocalTypes
    <2>7. QED
      BY <1>2, <2>3, <2>4, <2>5, <2>6 DEF Labelled
  <1>3. QED
    BY <1>1, <1>2

(* No step takes the timeout of a shared launch back.                      *)
THEOREM TimeoutSticksTheorem == Spec => TimeoutSticks
  <1>1. \A g \in Findings : TimingOut(g) <=>
           Owed(g, "resolved") \/ Owed(g, "returned")
           \/ Labelled(g, "finish") \/ Labelled(g, "done")
    BY DEF TimingOut, Owed, Labelled
  <1>2. \A g \in Findings : TimingOut(g)' <=>
           Owed(g, "resolved")' \/ Owed(g, "returned")'
           \/ Labelled(g, "finish")' \/ Labelled(g, "done")'
    BY DEF TimingOut, Owed, Labelled
  <1>3. ASSUME Base, Next, NEW f \in Findings, NEW g \in Findings
        PROVE  /\ Sharing(f, g) => Sharing(f, g)' \/ TimingOut(g)'
               /\ TimingOut(g) => TimingOut(g)'
    <2>1. CASE \E h \in Findings : Task(h)
      BY <1>1, <1>2, <1>3, <2>1, SharingStep, TimingStep
    <2>2. CASE PoolJoined
      BY <2>2 DEF PoolJoined, vars, disciplineVars, findingVars, Sharing, TimingOut
    <2>3. QED
      BY <1>3, <2>1, <2>2 DEF Next
  <1>4. Base /\ [Next]_vars =>
           [\A f, g \in Findings :
               /\ Sharing(f, g) => Sharing(f, g)' \/ TimingOut(g)'
               /\ TimingOut(g) => TimingOut(g)']_vars
    BY <1>3
  <1>5. QED
    BY <1>4, SpecBase, PTL DEF Spec, TimeoutSticks

(* A sharer on its way can move, and so can the launch it shares.          *)
LEMMA SharersMove ==
    ASSUME Base, NEW f \in Findings, NEW g \in Findings
    PROVE  /\ Sharing(f, g) => Movable(f)
           /\ Owed(g, "resolved") \/ Owed(g, "returned") \/ Labelled(g, "finish") =>
                 Movable(g)
  <1>1. st[g] = "resolved" => pc[g] = "release"
    BY DEF Base, Linked, PhasesLinked
  <1>2. st[g] = "returned" => pc[g] = "answer"
    BY DEF Base, Linked, PhasesLinked
  <1>3. QED
    BY <1>1, <1>2 DEF Sharing, Owed, Labelled, Movable, Settled

-----------------------------------------------------------------------------
(* Step 11 ends.  Fairness is that of FairSpec; that the guards imply      *)
(* ENABLED is the hypothesis GuardsEnabled.                                *)
TaskGuardFair(f) == []<>~Movable(f) \/ []<><<Task(f)>>_vars

LEMMA TaskIsFair ==
    ASSUME NEW f \in Findings
    PROVE  FairTask(f) /\ []GuardsEnabled => TaskGuardFair(f)
  <1>1. GuardsEnabled => (Movable(f) => TaskEnabled(f))
    BY DEF GuardsEnabled
  <1>2. QED
    BY <1>1, PTL DEF FairTask, TaskEnabled, TaskGuardFair

(* What is fair is fair from every later moment on: for one more  *)
(* investigation and so for all of them.                                   *)
EachFair(T) == \A f \in T : FairTask(f)
AllFair(T) == []EachFair(T)

LEMMA NoneToBeFair == AllFair({})
  <1>1. EachFair({})
    BY DEF EachFair
  <1>2. QED
    BY <1>1, PTL DEF AllFair

LEMMA OneMoreFair ==
    ASSUME NEW T, NEW f
    PROVE  AllFair(T) /\ FairTask(f) => AllFair(T \cup {f})
  <1>1. EachFair(T) /\ FairTask(f) => EachFair(T \cup {f})
    BY DEF EachFair
  <1>2. FairTask(f) => []FairTask(f)
    BY PTL DEF FairTask
  <1>3. QED
    BY <1>1, <1>2, PTL DEF AllFair

LEMMA FairnessLasts == Fairness => []Fairness
  <1> SUFFICES ASSUME EachFair(Findings) PROVE AllFair(Findings)
    BY PTL DEF Fairness, AllFair, EachFair
  <1>1. IsFiniteSet(Findings)
    BY Step11Assumption
  <1>2. PICK n \in Nat : \E a : a[0] = {} /\ a[n] = Findings
               /\ \A k \in Nat : a[k + 1] = a[k] \/ \E f \in Findings : a[k + 1] = a[k] \cup {f}
    BY <1>1, Enumeration
  <1>3. PICK a : a[0] = {} /\ a[n] = Findings
               /\ \A k \in Nat : a[k + 1] = a[k] \/ \E f \in Findings : a[k + 1] = a[k] \cup {f}
    BY <1>2
  <1>4. AllFair(a[0])
    BY <1>3, NoneToBeFair
  <1>5. ASSUME NEW k \in Nat, AllFair(a[k]) PROVE AllFair(a[k + 1])
    <2>1. \A f \in Findings : FairTask(f)
      BY DEF EachFair
    <2>2. \A f \in Findings : AllFair(a[k] \cup {f})
      BY <1>5, <2>1, OneMoreFair
    <2>3. QED
      BY <1>3, <1>5, <2>2
  <1>6. Table([k \in Nat |-> AllFair(a[k])])
    BY DEF Table
  <1>7. \A k \in Nat : AllFair(a[k])
    BY <1>4, <1>5, <1>6, TableInduction
  <1>8. QED
    BY <1>3, <1>7

(* From now on: the invariants, the steps, the fairness and the guards.    *)
Invs == Base /\ Contexts /\ TurnsBounded /\ NoStall

Runs == []Invs /\ [][Next]_vars /\ []Fairness /\ []GuardsEnabled

LEMMA FairSpecRuns == FairSpec /\ []GuardsEnabled => Runs
  BY SpecBase, SpecContexts, TurnsTheorem, NoStallTheorem, FairnessLasts, PTL
  DEF FairSpec, Spec, Runs, Invs

(* One sharer is settled, ...                                              *)
LEMMA SharerSettles ==
    ASSUME NEW f \in Findings, NEW g \in Findings
    PROVE  Runs /\ FairTask(f) /\ FairTask(g) =>
              (Sharing(f, g) ~> (pc[g] = "done" /\ verdict[g] = "inconclusive"))
  <1>1. /\ FairTask(f) /\ []GuardsEnabled => TaskGuardFair(f)
        /\ FairTask(g) /\ []GuardsEnabled => TaskGuardFair(g)
    BY TaskIsFair
  <1>2. Invs => /\ Sharing(f, g) => Movable(f)
                /\ Owed(g, "resolved") => Movable(g)
                /\ Owed(g, "returned") => Movable(g)
                /\ Labelled(g, "finish") => Movable(g)
    BY SharersMove DEF Invs
  <1>3. ASSUME Invs, UNCHANGED vars
        PROVE  /\ Sharing(f, g) => Sharing(f, g)'
               /\ Owed(g, "resolved") => Owed(g, "resolved")'
               /\ Owed(g, "returned") => Owed(g, "returned")'
               /\ Labelled(g, "finish") => Labelled(g, "finish")'
    BY <1>3 DEF vars, disciplineVars, findingVars, Sharing, Owed, Labelled
  <1>4. Invs /\ [Next]_vars =>
           /\ Sharing(f, g) =>
                 Sharing(f, g)' \/ Owed(g, "resolved")' \/ Owed(g, "returned")'
           /\ Owed(g, "resolved") => Owed(g, "resolved")' \/ Owed(g, "returned")'
           /\ Owed(g, "returned") => Owed(g, "returned")' \/ Labelled(g, "finish")'
           /\ Labelled(g, "finish") => Labelled(g, "finish")' \/ Labelled(g, "done")'
    BY <1>3, SharingStep, TimingStep DEF Next, PoolJoined, Invs
  <1>5. Invs /\ <<Task(f)>>_vars /\ Sharing(f, g) =>
           Owed(g, "resolved")' \/ Owed(g, "returned")'
    BY SharingStep DEF Invs
  <1>6. Invs /\ <<Task(g)>>_vars =>
           /\ Owed(g, "resolved") => Owed(g, "returned")'
           /\ Owed(g, "returned") => Labelled(g, "finish")'
           /\ Labelled(g, "finish") => Labelled(g, "done")'
    BY TimingStep DEF Invs
  <1>7. Labelled(g, "done") => pc[g] = "done" /\ verdict[g] = "inconclusive"
    BY DEF Labelled
  <1>8. QED
    BY <1>1, <1>2, <1>4, <1>5, <1>6, <1>7, PTL DEF Runs, TaskGuardFair

(* ... and so is everyone who shares a launch that times out, for any      *)
(* number of findings, turns and workers.                                  *)
THEOREM TimeoutSettlesTheorem == FairSpec /\ []GuardsEnabled => TimeoutSettlesSharers
  <1>1. ASSUME Runs, Fairness PROVE TimeoutSettlesSharers
    <2>1. \A f \in Findings : FairTask(f)
      BY <1>1, PTL DEF Fairness
    <2>2. \A f, g \in Findings :
             Sharing(f, g) ~> (pc[g] = "done" /\ verdict[g] = "inconclusive")
      BY <1>1, <2>1, SharerSettles
    <2>3. QED
      BY <2>2, Zenon DEF TimeoutSettlesSharers, Sharing
  <1>2. FairSpec => Fairness
    BY PTL DEF FairSpec
  <1>3. QED
    BY <1>1, <1>2, FairSpecRuns

(* All the steps that are left.                                            *)
Ranks == [f \in Findings |-> Rank(f)]
MostSteps == 12 * (MaxTurns + 1)
Total == Cardinality(Remaining(Ranks, MostSteps))

LEMMA LeftType ==
  Invs => MostSteps \in Nat /\ Ranks \in [Findings -> 0 .. MostSteps] /\ Total \in Nat
  <1> SUFFICES ASSUME Invs
               PROVE  MostSteps \in Nat /\ Ranks \in [Findings -> 0 .. MostSteps]
                      /\ Total \in Nat
    OBVIOUS
  <1>1. MaxTurns \in Nat /\ MostSteps \in Nat
    BY Step11Assumption DEF MostSteps
  <1>2. ASSUME NEW f \in Findings PROVE Rank(f) \in 0 .. MostSteps
    <2>1. StepsLeft[pc[f]] \in 0 .. 12
      <3>1. pc[f] \in DOMAIN StepsLeft
        BY DEF Invs, Base, Local, LocalTypes, StepsLeft
      <3>2. QED
        BY <3>1, StepsLeftValues
    <2>2. Len(ctx[f]) \in Nat /\ Len(ctx[f]) <= MaxTurns
      BY DEF Invs, Contexts, TurnsBounded
    <2>3. MaxTurns - Len(ctx[f]) \in 0 .. MaxTurns
      BY <1>1, <2>2
    <2>4. Rank(f) = 12 * (MaxTurns - Len(ctx[f])) + StepsLeft[pc[f]]
      BY DEF Rank
    <2>5. ASSUME NEW n \in 0 .. MaxTurns, NEW k \in 0 .. 12
          PROVE  12 * n + k \in 0 .. 12 * (MaxTurns + 1)
      BY <1>1
    <2>6. QED
      BY <2>1, <2>3, <2>4, <2>5 DEF MostSteps
  <1>3. Ranks \in [Findings -> 0 .. MostSteps]
    BY <1>2 DEF Ranks
  <1>4. Total \in Nat
    BY <1>1, <1>3, RemainingFinite, Step11Assumption DEF Total
  <1>5. QED
    BY <1>1, <1>3, <1>4

LEMMA TotalFalls ==
    ASSUME Invs, Invs', NEW f \in Findings, Task(f)
    PROVE  Total' < Total
  <1>1. /\ MostSteps \in Nat /\ MostSteps' = MostSteps
        /\ Ranks \in [Findings -> 0 .. MostSteps]
        /\ Ranks' \in [Findings -> 0 .. MostSteps]
    <2>1. Invs' => (/\ MostSteps \in Nat /\ Ranks \in [Findings -> 0 .. MostSteps]
                    /\ Total \in Nat)'
      BY LeftType, PTL
    <2>2. MostSteps' = MostSteps
      BY DEF MostSteps
    <2>3. QED
      BY <2>1, <2>2, LeftType
  <1>2. \A g \in Findings : Ranks[g] = Rank(g) /\ Ranks'[g] = Rank(g)'
    BY <1>1 DEF Ranks
  <1>3. Rank(f)' < Rank(f) /\ \A g \in Findings \ {f} : Rank(g)' = Rank(g)
    BY TaskShrinks DEF Invs
  <1>4. Ranks'[f] < Ranks[f] /\ \A g \in Findings \ {f} : Ranks'[g] <= Ranks[g]
    BY <1>1, <1>2, <1>3
  <1>5. Cardinality(Remaining(Ranks', MostSteps)) < Cardinality(Remaining(Ranks, MostSteps))
    BY <1>1, <1>4, RemainingShrinks, Step11Assumption
  <1>6. QED
    BY <1>1, <1>5 DEF Total

FallsBelow(n) == <>(Total < n)

(* A task that can move brings the total down: its own step does, and so   *)
(* does any step that takes the worker from it.                            *)
LEMMA TaskAdvances ==
    ASSUME NEW n \in Nat, NEW f \in Findings
    PROVE  Runs /\ FairTask(f) => (Total = n /\ Movable(f) => FallsBelow(n))
  <1>1. Invs /\ Invs' /\ Total = n /\ Movable(f) /\ [Next]_vars
        => (Total = n /\ Movable(f))' \/ (Total < n)'
    <2>1. ASSUME UNCHANGED vars
          PROVE  Total' = Total /\ (Movable(f))' = Movable(f)
      BY <2>1 DEF Total, Ranks, MostSteps, Rank, Movable, Settled, WorkerFree,
                  vars, disciplineVars, findingVars
    <2>2. QED
      BY <2>1, TotalFalls DEF Next, PoolJoined
  <1>2. Invs /\ Invs' /\ Total = n /\ <<Task(f)>>_vars => (Total < n)'
    BY TotalFalls
  <1>3. QED
    BY <1>1, <1>2, TaskIsFair, PTL DEF TaskGuardFair, Runs, FallsBelow

(* With less than n steps left Step 11 ends.                               *)
AllSettled == \A f \in Findings : Settled(f)
EndsWithin(n) == [](Total < n => <>AllSettled)

LEMMA EndsWithNothing == Runs => EndsWithin(0)
  <1>1. Invs => ~(Total < 0)
    BY LeftType
  <1>2. QED
    BY <1>1, PTL DEF EndsWithin, Runs

LEMMA OneStepMore ==
    ASSUME NEW n \in Nat
    PROVE  Runs => (EndsWithin(n) => EndsWithin(n + 1))
  <1> SUFFICES ASSUME []Invs, [][Next]_vars, []Fairness, []GuardsEnabled
               PROVE  EndsWithin(n) => EndsWithin(n + 1)
    BY PTL DEF Runs
  <1>1. Runs
    BY PTL DEF Runs
  <1>2. \A f \in Findings : FairTask(f)
    BY PTL DEF Fairness
  <1>3. \A f \in Findings : Total = n /\ Movable(f) => FallsBelow(n)
    BY <1>1, <1>2, TaskAdvances
  <1>4. Invs
    BY PTL
  <1>5. Total = n /\ ~AllSettled => FallsBelow(n)
    BY <1>3, <1>4 DEF Invs, NoStall, AllSettled
  <1>6. Invs => (Total < n + 1 => Total < n \/ Total = n)
    BY LeftType
  <1>7. QED
    BY <1>5, <1>6, PTL DEF EndsWithin, FallsBelow

(* Every investigation ends, for any findings, tools, turns and workers:   *)
(* by induction on the steps left.                                         *)
THEOREM InvestigationsEndTheorem == FairSpec /\ []GuardsEnabled => InvestigationsEnd
  <1>1. ASSUME Runs PROVE InvestigationsEnd
    <2>1. Invs
      BY <1>1, PTL DEF Runs
    <2>2. EndsWithin(0)
      BY <1>1, EndsWithNothing
    <2>3. \A n \in Nat : EndsWithin(n) => EndsWithin(n + 1)
      BY <1>1, OneStepMore
    <2>4. Table([n \in Nat |-> EndsWithin(n)])
      BY DEF Table
    <2>5. \A n \in Nat : EndsWithin(n)
      BY <2>2, <2>3, <2>4, TableInduction
    <2>6. PICK n \in Nat : Total < n
      <3>1. Total + 1 \in Nat /\ Total < Total + 1
        BY <2>1, LeftType
      <3>2. QED
        BY <3>1
    <2>7. EndsWithin(n)
      BY <2>5
    <2>8. QED
      BY <2>6, <2>7, PTL DEF EndsWithin, AllSettled, InvestigationsEnd
  <1>2. QED
    BY <1>1, FairSpecRuns
=============================================================================
