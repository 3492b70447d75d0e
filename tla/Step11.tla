------------------------------- MODULE Step11 -------------------------------
(***************************************************************************)
(* coordinator.step_11_investigate: the ReAct investigation loop.  A pool  *)
(* of threads investigates the findings side by side.  In each turn the AI *)
(* concludes or asks for a tool; what the tool shows is appended to the    *)
(* finding's context_results and the next turn begins.  The threads share  *)
(* the cache of unfiltered records and the state of ReactDiscipline.       *)
(*                                                                         *)
(* Records are abstracted to the PID they belong to, AllPids for the       *)
(* unfiltered output of a plugin.  LOW_YIELD_TOOLS is empty in the code,   *)
(* so its skip never happens.                                              *)
(***************************************************************************)
EXTENDS Naturals, Sequences, FiniteSets

CONSTANTS
    Findings,    \* each has one pool task
    PidOf,       \* the first pid claim of a finding, or NoPid
    Pids, AllPids, NoPid,
    VolTools,    \* registered tools of arg type memory or vol_generic
    OtherTools,  \* the other registered tools, run through run_tool
    FullImage, Budgeted, Budget,
    Covered,     \* tools with records in mandatory_results
    Substitute,  \* _REACT_TOOL_REDIRECTS, the identity elsewhere
    AIVerdicts,  \* the verdicts the AI's replies are drawn from
    AIPids,      \* the PIDs it asks for; AllPids is a request with no PID
    MaxTurns,    \* max_turns
    MaxWorkers,  \* step11_max_workers()
    Image, NoThread, NoResult, BudgetExhausted

Verdicts == {"malicious", "benign", "inconclusive", "inconclusive_fp"}
Tools == VolTools \cup OtherTools
ReqPids == Pids \cup {AllPids}

ASSUME Step11Assumption ==
    /\ IsFiniteSet(Findings)
    /\ VolTools \cap OtherTools = {}
    /\ FullImage \subseteq VolTools
    /\ Budgeted \subseteq VolTools   \* every key of HIGH_COST_TOOL_BUDGET is a vol_ tool
    /\ Budget \in [Budgeted -> Nat]
    /\ Covered \subseteq Tools
    /\ Substitute \in [Tools -> Tools]
    /\ PidOf \in [Findings -> Pids \cup {NoPid}]
    /\ AllPids \notin Pids
    /\ NoPid \notin ReqPids
    /\ AIPids \subseteq ReqPids
    /\ AIVerdicts \subseteq Verdicts
    /\ MaxTurns \in Nat \ {0}
    /\ MaxWorkers \in Nat \ {0}

(* What the runner of a vol tool hands to its Future.  "records" are those *)
(* of the PID it filtered to; a tool that cannot run on this evidence      *)
(* yields an empty list; "timeout" and "error" are exceptions.             *)
Records(p) == [kind |-> "records", pid |-> p]
Failure(k) == [kind |-> k, pid |-> NoPid]
Unavailable == Failure("unavailable")
Timeout == Failure("timeout")
Error == Failure("error")
Outcomes == {Records(p) : p \in ReqPids \cup {NoPid}}
            \cup {Unavailable, Timeout, Error}

ASSUME NullAssumption ==
    /\ NoThread \notin Findings
    /\ NoResult \notin Outcomes \cup Tools
    /\ BudgetExhausted \notin Outcomes
    /\ NoResult # BudgetExhausted
    /\ Image \notin ReqPids

Entries == [tool: Tools, asked: ReqPids, pid: ReqPids \cup {NoPid},
            kind: {"records", "unavailable", "skipped", "budget", "error"}]

VARIABLES
    counter, inflight, timedOut, unavailable, st, key, on, res,  \* ReactDiscipline
    pc,          \* where each finding's task is
    tool, asked, \* the tool and PID of the current turn
    got,         \* what the runner of an owned launch produced
    ctx,         \* context_results
    conclusion,  \* "none", "" or the kind of text
    verdict,     \* finding["react_conclusion"], or "none" while it is absent
    cache        \* _step11_investigation_cache: whose records are stored, per tool

disciplineVars == <<counter, inflight, timedOut, unavailable, st, key, on, res>>
requestVars == <<tool, asked>>
findingVars == <<ctx, conclusion, verdict>>
vars == <<disciplineVars, pc, requestVars, got, findingVars, cache>>

D == INSTANCE ReactDiscipline
        WITH Threads <- Findings, Pids <- ReqPids, Results <- Outcomes

Init ==
    /\ D!Init
    /\ pc = [f \in Findings |-> "queued"]
    /\ tool = [f \in Findings |-> NoResult]
    /\ asked = [f \in Findings |-> NoPid]
    /\ got = [f \in Findings |-> NoResult]
    /\ ctx = [f \in Findings |-> <<>>]
    /\ conclusion = [f \in Findings |-> "none"]
    /\ verdict = [f \in Findings |-> "none"]
    /\ cache = [t \in VolTools |-> NoPid]

Goto(f, l) == pc' = [pc EXCEPT ![f] = l]

Settled(f) == pc[f] \in {"done", "skipped", "crashed"}

(* One entry of context_results; the turn and its request are over.       *)
Observe(f, t, a, k, p) ==
    /\ ctx' = [ctx EXCEPT ![f] =
                  Append(@, [tool |-> t, asked |-> a, kind |-> k, pid |-> p])]
    /\ Goto(f, "ask")

ClearRequest(f) ==
    /\ tool' = [tool EXCEPT ![f] = NoResult]
    /\ asked' = [asked EXCEPT ![f] = NoPid]

EndTurn(f, k, p) == Observe(f, tool[f], asked[f], k, p) /\ ClearRequest(f)

-----------------------------------------------------------------------------
WorkerFree ==
    Cardinality({g \in Findings : pc[g] # "queued" /\ ~Settled(g)}) < MaxWorkers

(* A pool worker takes the finding.  One without a pid claim is left alone.*)
Start(f) ==
    /\ pc[f] = "queued"
    /\ WorkerFree
    /\ Goto(f, IF PidOf[f] = NoPid THEN "skipped" ELSE "ask")
    /\ UNCHANGED <<disciplineVars, requestVars, got, findingVars, cache>>

TurnLeft(f) == pc[f] = "ask" /\ Len(ctx[f]) < MaxTurns

TurnsExhausted(f) ==
    /\ pc[f] = "ask" /\ Len(ctx[f]) >= MaxTurns
    /\ Goto(f, "finish")
    /\ UNCHANGED <<disciplineVars, requestVars, got, findingVars, cache>>

(* A reply that is not a dict ends the loop.                               *)
ReplyNonDict(f) ==
    /\ TurnLeft(f)
    /\ Goto(f, "finish")
    /\ UNCHANGED <<disciplineVars, requestVars, got, findingVars, cache>>

(* A dict whose verdict or conclusion is not a string, {"verdict": null},  *)
(* raises in the task; the pool logs it and the finding keeps no verdict.  *)
ReplyMalformed(f) ==
    /\ TurnLeft(f)
    /\ Goto(f, "crashed")
    /\ UNCHANGED <<disciplineVars, requestVars, got, findingVars, cache>>

(* The AI concludes, with a verdict and a text that may be empty.          *)
ReplyConclude(f) ==
    /\ TurnLeft(f)
    /\ \E v \in AIVerdicts, text \in {"", "ai"} :
          /\ verdict' = [verdict EXCEPT ![f] = v]
          /\ conclusion' = [conclusion EXCEPT ![f] = text]
    /\ Goto(f, "finish")
    /\ UNCHANGED <<disciplineVars, requestVars, got, ctx, cache>>

ReplyUnregistered(f) ==
    /\ TurnLeft(f)
    /\ conclusion' = [conclusion EXCEPT ![f] = "paused"]
    /\ Goto(f, "finish")
    /\ UNCHANGED <<disciplineVars, requestVars, got, ctx, verdict, cache>>

(* A redundant high-cost tool is replaced by its substitute when that one  *)
(* is already covered; a covered tool is answered from mandatory_results.  *)
Redirect(t) == IF Substitute[t] \in Covered THEN Substitute[t] ELSE t

ReplyTool(f) ==
    /\ TurnLeft(f)
    /\ \E t \in Tools, p \in AIPids :
          IF Redirect(t) \in Covered
          THEN Observe(f, Redirect(t), p, "records", p) /\ UNCHANGED requestVars
          ELSE /\ tool' = [tool EXCEPT ![f] = Redirect(t)]
               /\ asked' = [asked EXCEPT ![f] = p]
               /\ Goto(f, "precheck")
               /\ UNCHANGED ctx
    /\ UNCHANGED <<disciplineVars, got, conclusion, verdict, cache>>

-----------------------------------------------------------------------------
(* precheck_tool, under the discipline lock.                               *)
Precheck(f) ==
    /\ pc[f] = "precheck"
    /\ IF D!PrecheckPasses(tool[f])
       THEN /\ Goto(f, IF tool[f] \in VolTools THEN "lookup" ELSE "run_tool")
            /\ UNCHANGED <<ctx, requestVars>>
       ELSE EndTurn(f, "skipped", NoPid)
    /\ UNCHANGED <<disciplineVars, got, conclusion, verdict, cache>>

(* The PID filter of filter_tool_by_pid.                                   *)
FilterByPid(stored, p) ==
    IF p = AllPids THEN stored
    ELSE IF stored \in {AllPids, p} THEN p ELSE NoPid

(* "reused" is read under the cache lock; a hit is filtered for this PID.  *)
Lookup(f) ==
    /\ pc[f] = "lookup"
    /\ IF cache[tool[f]] = NoPid
       THEN Goto(f, "dispatch") /\ UNCHANGED <<ctx, requestVars>>
       ELSE EndTurn(f, "records", FilterByPid(cache[tool[f]], asked[f]))
    /\ UNCHANGED <<disciplineVars, got, conclusion, verdict, cache>>

(* high_cost_dispatch: join, be refused, or own the launch.                *)
Dispatch(f) ==
    /\ pc[f] = "dispatch"
    /\ D!HighCostDispatch(f, tool[f], asked[f])
    /\ Goto(f, IF st'[f] = "running" THEN "own" ELSE "answer")
    /\ UNCHANGED <<requestVars, got, findingVars, cache>>

(* The owner enters filter_tool_by_pid, which looks at the cache again.    *)
RunnerCached(f) ==
    /\ pc[f] = "own" /\ cache[tool[f]] # NoPid
    /\ got' = [got EXCEPT ![f] = Records(FilterByPid(cache[tool[f]], asked[f]))]
    /\ Goto(f, "publish")
    /\ UNCHANGED <<disciplineVars, requestVars, findingVars, cache>>

(* Mutant: the owner trusts the first look at the cache and scans.         *)
RunnerScansUnseen(f) ==
    /\ pc[f] = "own"
    /\ Goto(f, "scan")
    /\ UNCHANGED <<disciplineVars, requestVars, got, findingVars, cache>>

RunnerScans(f) ==
    /\ pc[f] = "own" /\ cache[tool[f]] = NoPid
    /\ Goto(f, "scan")
    /\ UNCHANGED <<disciplineVars, requestVars, got, findingVars, cache>>

ScanSucceeds(f) ==
    /\ pc[f] = "scan"
    /\ cache' = [cache EXCEPT ![tool[f]] = AllPids]
    /\ got' = [got EXCEPT ![f] = Records(asked[f])]
    /\ Goto(f, "publish")
    /\ UNCHANGED <<disciplineVars, requestVars, findingVars>>

(* Mutant: the scope key is noted in place of the tool's name.             *)
ScanUnavailableNotesKey(f) ==
    /\ pc[f] = "scan"
    /\ D!NoteUnavailable(key[f])
    /\ got' = [got EXCEPT ![f] = Unavailable]
    /\ Goto(f, "publish")
    /\ UNCHANGED <<counter, inflight, st, key, on, res, requestVars, findingVars, cache>>

(* RuntimeError, ValueError and OSError are caught in the runner.          *)
ScanUnavailable(f) ==
    /\ pc[f] = "scan"
    /\ D!NoteUnavailable(tool[f])
    /\ got' = [got EXCEPT ![f] = Unavailable]
    /\ Goto(f, "publish")
    /\ UNCHANGED <<counter, inflight, st, key, on, res, requestVars, findingVars, cache>>

(* Mutant: the exception leaves the dispatch with no set_exception.        *)
ScanRaisesUnpublished(f) ==
    /\ pc[f] = "scan"
    /\ st' = [st EXCEPT ![f] = "returned"]
    /\ res' = [res EXCEPT ![f] = Timeout]
    /\ inflight' = [inflight EXCEPT ![key[f]] = NoThread]
    /\ Goto(f, "answer")
    /\ UNCHANGED <<counter, timedOut, unavailable, key, on, got, requestVars,
                   findingVars, cache>>

(* VolatilityTimeout and any other exception leave it.                     *)
ScanRaises(f) ==
    /\ pc[f] = "scan"
    /\ \E e \in {Timeout, Error} : got' = [got EXCEPT ![f] = e]
    /\ Goto(f, "publish")
    /\ UNCHANGED <<disciplineVars, requestVars, findingVars, cache>>

Publish(f) ==
    /\ pc[f] = "publish"
    /\ D!Resolve(f, got[f])
    /\ got' = [got EXCEPT ![f] = NoResult]
    /\ Goto(f, "release")
    /\ UNCHANGED <<requestVars, findingVars, cache>>

ReleaseKey(f) ==
    /\ pc[f] = "release"
    /\ D!Release(f)
    /\ Goto(f, "answer")
    /\ UNCHANGED <<requestVars, got, findingVars, cache>>

-----------------------------------------------------------------------------
(* The dispatch returned, to its owner or to a thread that shared it.      *)
Answered(f) ==
    /\ pc[f] = "answer"
    /\ D!Collect(f)
    /\ UNCHANGED <<counter, inflight, got, cache>>

AnswerRecords(f) ==
    /\ Answered(f)
    /\ res[f] # BudgetExhausted /\ res[f].kind \in {"records", "unavailable"}
    /\ EndTurn(f, res[f].kind, res[f].pid)
    /\ UNCHANGED <<timedOut, unavailable, conclusion, verdict>>

AnswerBudget(f) ==
    /\ Answered(f)
    /\ res[f] = BudgetExhausted
    /\ EndTurn(f, "budget", NoPid)
    /\ UNCHANGED <<timedOut, unavailable, conclusion, verdict>>

(* Mutant: a timeout ends the investigation and labels nothing.            *)
AnswerTimeoutUnlabelled(f) ==
    /\ Answered(f)
    /\ res[f] = Timeout
    /\ D!NoteTimedOut(tool[f])
    /\ conclusion' = [conclusion EXCEPT ![f] = "timeout"]
    /\ ClearRequest(f)
    /\ Goto(f, "finish")
    /\ UNCHANGED <<ctx, verdict>>

(* A timed-out corroborator settles the finding as inconclusive.           *)
AnswerTimeout(f) ==
    /\ Answered(f)
    /\ res[f] = Timeout
    /\ D!NoteTimedOut(tool[f])
    /\ verdict' = [verdict EXCEPT ![f] = "inconclusive"]
    /\ conclusion' = [conclusion EXCEPT ![f] = "timeout"]
    /\ ClearRequest(f)
    /\ Goto(f, "finish")
    /\ UNCHANGED ctx

AnswerError(f) ==
    /\ Answered(f)
    /\ res[f] = Error
    /\ D!NoteUnavailable(tool[f])
    /\ EndTurn(f, "error", NoPid)
    /\ UNCHANGED <<conclusion, verdict>>

(* The run_tool path.  No such tool has a budget, so register_launch never *)
(* refuses; a failure is noted unless its failure_mode is of another kind, *)
(* and the turn records an empty result.                                   *)
RunTool(f) ==
    /\ pc[f] = "run_tool"
    /\ \/ EndTurn(f, "records", asked[f]) /\ UNCHANGED <<timedOut, unavailable>>
       \/ EndTurn(f, "unavailable", NoPid) /\ D!Note(tool[f])
    /\ UNCHANGED <<counter, inflight, st, key, on, res, got,
                   conclusion, verdict, cache>>

(* Mutant: the cap is described in the conclusion only.                    *)
FinishUnlabelled(f) ==
    /\ pc[f] = "finish"
    /\ conclusion' = IF conclusion[f] \in {"none", ""} /\ ctx[f] # <<>>
                     THEN [conclusion EXCEPT ![f] = "cap"] ELSE conclusion
    /\ Goto(f, "done")
    /\ UNCHANGED <<disciplineVars, requestVars, got, ctx, verdict, cache>>

(* After the loop: with turns taken and no (or an empty) conclusion, the   *)
(* turn cap is recorded.                                                   *)
Finish(f) ==
    /\ pc[f] = "finish"
    /\ IF conclusion[f] \in {"none", ""} /\ ctx[f] # <<>>
       THEN /\ conclusion' = [conclusion EXCEPT ![f] = "cap"]
            /\ verdict' = [verdict EXCEPT ![f] = "inconclusive"]
       ELSE UNCHANGED <<conclusion, verdict>>
    /\ Goto(f, "done")
    /\ UNCHANGED <<disciplineVars, requestVars, got, ctx, cache>>

(* The executor is joined once every task is settled.                      *)
PoolJoined == (\A f \in Findings : Settled(f)) /\ UNCHANGED vars

Reply(f) ==
    \/ ReplyNonDict(f) \/ ReplyMalformed(f) \/ ReplyConclude(f)
    \/ ReplyUnregistered(f) \/ ReplyTool(f)

Runner(f) ==
    \/ RunnerCached(f) \/ RunnerScans(f)
    \/ ScanSucceeds(f) \/ ScanUnavailable(f) \/ ScanRaises(f)
    \/ Publish(f) \/ ReleaseKey(f)

Answer(f) ==
    AnswerRecords(f) \/ AnswerBudget(f) \/ AnswerTimeout(f) \/ AnswerError(f)

Task(f) ==
    \/ Start(f) \/ TurnsExhausted(f) \/ Reply(f)
    \/ Precheck(f) \/ Lookup(f) \/ Dispatch(f) \/ Runner(f) \/ Answer(f)
    \/ RunTool(f) \/ Finish(f)

Next == (\E f \in Findings : Task(f)) \/ PoolJoined

(* Each thread is scheduled: the AI call and every tool carry a timeout,   *)
(* so a task that can move does.                                           *)
FairTask(f) == WF_vars(Task(f))

Fairness == \A f \in Findings : FairTask(f)

Spec == Init /\ [][Next]_vars

FairSpec == Spec /\ Fairness

(* When Task(f) can move, spelled out: a queued task needs a worker, one   *)
(* in its dispatch the answer.                                             *)
Movable(f) ==
    /\ ~Settled(f)
    /\ pc[f] = "queued" => WorkerFree
    /\ pc[f] = "answer" => st[f] = "returned"

TaskEnabled(f) == ENABLED <<Task(f)>>_vars

(* A task that can move has a step to take.                                *)
GuardsEnabled == \A f \in Findings : Movable(f) => TaskEnabled(f)

-----------------------------------------------------------------------------
TypeOK ==
    /\ D!TypeOK
    /\ pc \in [Findings ->
          {"queued", "ask", "precheck", "lookup", "dispatch", "own", "scan",
           "publish", "release", "answer", "run_tool", "finish",
           "done", "skipped", "crashed"}]
    /\ tool \in [Findings -> Tools \cup {NoResult}]
    /\ asked \in [Findings -> ReqPids \cup {NoPid}]
    /\ got \in [Findings -> Outcomes \cup {NoResult}]
    /\ ctx \in [Findings -> Seq(Entries)]
    /\ conclusion \in [Findings -> {"none", "", "ai", "paused", "timeout", "cap"}]
    /\ verdict \in [Findings -> Verdicts \cup {"none"}]
    /\ cache \in [VolTools -> ReqPids \cup {NoPid}]

(* Step 11 uses the discipline as its module allows: every step of a task  *)
(* is a step of ReactDiscipline or leaves its state alone.                 *)
UsesDiscipline == D!Spec

(* A full-image plugin is never scanning while its records are already in  *)
(* the cross-finding cache: once one finding primed it nobody scans again, *)
(* and no two findings ever scan it side by side (step_11_investigate).    *)
FullImageScannedOnce ==
    \A f, g \in Findings :
        pc[f] = "scan" /\ tool[f] \in FullImage =>
            /\ cache[tool[f]] = NoPid
            /\ pc[g] = "scan" /\ tool[g] = tool[f] => f = g

(* Records of a PID other than the one asked for can reach a finding only  *)
(* through a shared full-image launch; the cache, the memo of mandatory    *)
(* results and PID-scoped launches always serve the PID asked for.         *)
ForeignRecordsOnlyShared ==
    \A f \in Findings : \A i \in 1..Len(ctx[f]) :
        LET e == ctx[f][i]
        IN  e.kind = "records" /\ e.pid # e.asked => e.tool \in FullImage

(* A finished investigation leaves no verdict only when the AI asked for   *)
(* an unregistered tool or never acted at all; a tool that timed out,      *)
(* failed or was refused never leaves the finding unlabelled, which the    *)
(* benign floor of the disposition would file as benign.                   *)
NoSilentGap ==
    \A f \in Findings :
        pc[f] = "done" /\ verdict[f] = "none" =>
            conclusion[f] = "paused" \/ (conclusion[f] = "none" /\ ctx[f] = <<>>)

(* A launch that times out settles everyone who shares it: its owner and   *)
(* every finding waiting on its Future end inconclusive.                   *)
TimeoutSettlesSharers ==
    \A f, g \in Findings :
        (/\ pc[f] = "publish" /\ got[f] = Timeout
         /\ g = f \/ (st[g] = "waiting" /\ on[g] = f))
        ~> (pc[g] = "done" /\ verdict[g] = "inconclusive")

(* Every investigation ends, however launches, waits and failures of the   *)
(* findings interleave and however few workers the pool has.               *)
InvestigationsEnd == <>(\A f \in Findings : Settled(f))

(* The pool never waits on itself: while an investigation is unsettled,    *)
(* some task can move, however few workers there are and whoever joined    *)
(* whose launch (high_cost_dispatch, the executor of step_11_investigate). *)
NoStall == \A f \in Findings : ~Settled(f) => \E g \in Findings : Movable(g)

(* No investigation observes more than max_turns tools, the turn under way *)
(* included, whatever the AI asks for and however a turn ends.             *)
TurnsBounded ==
    \A f \in Findings :
        /\ Len(ctx[f]) <= MaxTurns
        /\ pc[f] \in {"precheck", "lookup", "dispatch", "own", "scan", "publish",
                      "release", "answer", "run_tool"} => Len(ctx[f]) < MaxTurns

(* What a task still has to do: the steps left in its turn and the turns   *)
(* left after it.                                                          *)
StepsLeft ==
    [queued |-> 12, ask |-> 11, precheck |-> 10, lookup |-> 9, dispatch |-> 8,
     own |-> 7, scan |-> 6, publish |-> 5, release |-> 4, answer |-> 3,
     run_tool |-> 3, finish |-> 2, done |-> 0, skipped |-> 0, crashed |-> 0]

Rank(f) == 12 * (MaxTurns - Len(ctx[f])) + StepsLeft[pc[f]]

(* Every step of Step 11 brings one investigation nearer its end and sets  *)
(* none back: no wait, failure, refusal or shared outcome makes a finding  *)
(* repeat work, so an investigation takes 12 * (MaxTurns + 1) steps at most.*)
StepsShrink ==
    [][\E f \in Findings :
           /\ Rank(f)' < Rank(f)
           /\ \A g \in Findings \ {f} : Rank(g)' = Rank(g)]_vars

(* A timed-out launch holds on to everyone who shares it: no step of any   *)
(* thread hands a sharer another outcome, takes the verdict back, or lets  *)
(* the investigation go on.                                                *)
TimingOut(f) ==
    \/ st[f] \in {"resolved", "returned"} /\ res[f] = Timeout
    \/ pc[f] \in {"finish", "done"} /\ verdict[f] = "inconclusive"
                                  /\ conclusion[f] = "timeout"

Sharing(f, g) ==
    /\ pc[f] = "publish" /\ got[f] = Timeout
    /\ g = f \/ (st[g] = "waiting" /\ on[g] = f)

TimeoutSticks ==
    [][\A f, g \in Findings :
           /\ Sharing(f, g) => Sharing(f, g)' \/ TimingOut(g)'
           /\ TimingOut(g) => TimingOut(g)']_vars

-----------------------------------------------------------------------------
(* What comments and docstrings of the code say, and the code does not do. *)

(* high_cost_dispatch: "await the SAME Future (filter afterward)": a       *)
(* finding's context shows records of the PID it asked for.                *)
SharedEvidenceIsOwn ==
    \A f \in Findings : \A i \in 1..Len(ctx[f]) :
        ctx[f][i].kind = "records" => ctx[f][i].pid = ctx[f][i].asked
=============================================================================
