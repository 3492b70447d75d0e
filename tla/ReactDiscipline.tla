-------------------------- MODULE ReactDiscipline --------------------------
(***************************************************************************)
(* react_discipline.py: the process-wide state, all of it under one lock,  *)
(* that the parallel ReAct threads of Step 11 use to decide whether a tool *)
(* may be launched, must be waited for, or is refused.                     *)
(*                                                                         *)
(* A thread calls high_cost_dispatch and gets an answer: it joins a launch *)
(* already in flight for the same raw scope, or is refused because the     *)
(* budget is spent, or owns a new launch.  The owner runs the tool in its  *)
(* own thread, publishes the outcome in its Future and, in a finally       *)
(* clause that takes the lock again, removes the scope key.                *)
(*                                                                         *)
(* The module is open: Next lets the threads call with any tool and scope, *)
(* so what is shown here holds for every caller.  Step11 composes it with  *)
(* the real one.                                                           *)
(***************************************************************************)
EXTENDS Naturals

CONSTANTS
    Threads,         \* callers; Step 11 has one per finding
    Tools,           \* tool names
    Pids,            \* argument signatures ("pid=...") a call may carry
    FullImage,       \* HIGH_COST_FULL_IMAGE_TOOLS
    Budgeted,        \* the keys of HIGH_COST_TOOL_BUDGET
    Budget,          \* HIGH_COST_TOOL_BUDGET
    Results,         \* what a runner may return or raise
    Image,           \* the image_id part of a full-image scope key
    NoThread,
    NoResult,
    BudgetExhausted  \* the synthetic result of budget_exhausted_result

ASSUME ToolAssumption ==
    /\ FullImage \subseteq Tools
    /\ Budgeted \subseteq Tools
    /\ Budget \in [Budgeted -> Nat]

ASSUME NullAssumption ==
    /\ NoThread \notin Threads
    /\ NoResult \notin Results
    /\ BudgetExhausted \notin Results
    /\ NoResult # BudgetExhausted
    /\ Image \notin Pids

VARIABLES
    counter,      \* _tool_run_counter, for the tools whose count is ever read
    inflight,     \* _inflight_tool_futures: the thread that owns each scope key
    timedOut,     \* _timeout_tool_cache
    unavailable,  \* _unavailable_tool_cache
    st,           \* where each thread is in its dispatch
    key,          \* the scope key of the call
    on,           \* the owner whose Future a duplicate caller awaits
    res           \* what the call returns, or the exception it raises

budgetVars == <<counter, inflight>>
noteVars == <<timedOut, unavailable>>
callVars == <<st, key, on, res>>
disciplineVars == <<counter, inflight, timedOut, unavailable, st, key, on, res>>

Keys == Tools \X (Pids \cup {Image})

(* dedupe_scope_key: a full-image scan is keyed on the image, never on the *)
(* PID that is asked for.                                                  *)
ScopeKey(t, p) == IF t \in FullImage THEN <<t, Image>> ELSE <<t, p>>

(* Mutant: one launch too many.                                            *)
BudgetSpentLate(t) == t \in Budgeted /\ counter[t] > Budget[t]

BudgetSpent(t) == t \in Budgeted /\ counter[t] >= Budget[t]

(* Owners hold a scope key; they keep it between set_result and the pop.   *)
Owning(f) == st[f] \in {"running", "resolved"}

Init ==
    /\ counter = [t \in Budgeted |-> 0]
    /\ inflight = [k \in Keys |-> NoThread]
    /\ timedOut = {}
    /\ unavailable = {}
    /\ st = [f \in Threads |-> "idle"]
    /\ key = [f \in Threads |-> NoResult]
    /\ on = [f \in Threads |-> NoThread]
    /\ res = [f \in Threads |-> NoResult]

-----------------------------------------------------------------------------
(* high_cost_dispatch.  Its three outcomes are decided in one critical     *)
(* section, the in-flight test before the budget test.                     *)

(* Mutant: a late duplicate caller is tested against the budget first.     *)
JoinInFlightBudgetFirst(f, t, p) ==
    LET k == ScopeKey(t, p)
        owner == inflight[k]
    IN  /\ st[f] = "idle"
        /\ owner # NoThread
        /\ key' = [key EXCEPT ![f] = k]
        /\ on' = [on EXCEPT ![f] = owner]
        /\ st' = [st EXCEPT ![f] = IF BudgetSpent(t) THEN "returned" ELSE "waiting"]
        /\ res' = [res EXCEPT ![f] = IF BudgetSpent(t) THEN BudgetExhausted ELSE @]
        /\ UNCHANGED <<budgetVars, noteVars>>

(* An owner is in flight: share its Future.  A Future that already holds   *)
(* its outcome, but whose key is not popped yet, answers at once.          *)
JoinInFlight(f, t, p) ==
    LET k == ScopeKey(t, p)
        owner == inflight[k]
    IN  /\ st[f] = "idle"
        /\ owner # NoThread
        /\ key' = [key EXCEPT ![f] = k]
        /\ on' = [on EXCEPT ![f] = owner]
        /\ st' = [st EXCEPT ![f] = IF st[owner] = "running"
                                   THEN "waiting" ELSE "returned"]
        /\ res' = [res EXCEPT ![f] = IF st[owner] = "running"
                                     THEN NoResult ELSE res[owner]]
        /\ UNCHANGED <<budgetVars, noteVars>>

RefuseLaunch(f, t, p) ==
    LET k == ScopeKey(t, p)
    IN  /\ st[f] = "idle"
        /\ inflight[k] = NoThread
        /\ BudgetSpent(t)
        /\ st' = [st EXCEPT ![f] = "returned"]
        /\ key' = [key EXCEPT ![f] = k]
        /\ res' = [res EXCEPT ![f] = BudgetExhausted]
        /\ UNCHANGED <<budgetVars, noteVars, on>>

(* Mutant: the launch does not look for another owner of its scope.        *)
BecomeOwnerUnchecked(f, k) ==
    /\ st[f] = "idle"
    /\ inflight' = [inflight EXCEPT ![k] = f]
    /\ st' = [st EXCEPT ![f] = "running"]
    /\ key' = [key EXCEPT ![f] = k]
    /\ UNCHANGED <<noteVars, on, res>>

(* Create the Future and become its owner, as both dispatchers do.         *)
BecomeOwner(f, k) ==
    /\ st[f] = "idle"
    /\ inflight[k] = NoThread
    /\ inflight' = [inflight EXCEPT ![k] = f]
    /\ st' = [st EXCEPT ![f] = "running"]
    /\ key' = [key EXCEPT ![f] = k]
    /\ UNCHANGED <<noteVars, on, res>>

Charge(t) ==
    counter' = IF t \in Budgeted THEN [counter EXCEPT ![t] = @ + 1] ELSE counter

OwnLaunch(f, t, p) ==
    /\ ~BudgetSpent(t)
    /\ BecomeOwner(f, ScopeKey(t, p))
    /\ Charge(t)

HighCostDispatch(f, t, p) ==
    \/ JoinInFlight(f, t, p)
    \/ RefuseLaunch(f, t, p)
    \/ OwnLaunch(f, t, p)

(* dedupe_run: the same protocol with no budget.                           *)
DedupeRun(f, t, p) ==
    \/ JoinInFlight(f, t, p)
    \/ BecomeOwner(f, ScopeKey(t, p)) /\ UNCHANGED counter

(* Mutant: only the owner learns the outcome.                              *)
ResolveOwnerOnly(f, r) ==
    /\ st[f] = "running"
    /\ st' = [st EXCEPT ![f] = "resolved"]
    /\ res' = [res EXCEPT ![f] = r]
    /\ UNCHANGED <<budgetVars, noteVars, key, on>>

(* The runner ends: set_result or set_exception hands one outcome to every *)
(* caller that awaits this Future.                                         *)
Resolve(f, r) ==
    LET sharing == {g \in Threads : st[g] = "waiting" /\ on[g] = f}
    IN  /\ st[f] = "running"
        /\ st' = [g \in Threads |-> IF g = f THEN "resolved"
                                    ELSE IF g \in sharing THEN "returned"
                                    ELSE st[g]]
        /\ res' = [g \in Threads |-> IF g = f \/ g \in sharing
                                     THEN r ELSE res[g]]
        /\ UNCHANGED <<budgetVars, noteVars, key, on>>

(* The finally clause: pop the key under the lock and leave the dispatch.  *)
Release(f) ==
    /\ st[f] = "resolved"
    /\ inflight' = [inflight EXCEPT ![key[f]] = NoThread]
    /\ st' = [st EXCEPT ![f] = "returned"]
    /\ UNCHANGED <<counter, noteVars, key, on, res>>

(* The caller takes the answer and may call again.                         *)
Collect(f) ==
    /\ st[f] = "returned"
    /\ st' = [st EXCEPT ![f] = "idle"]
    /\ key' = [key EXCEPT ![f] = NoResult]
    /\ on' = [on EXCEPT ![f] = NoThread]
    /\ res' = [res EXCEPT ![f] = NoResult]

(* register_launch, when it admits the launch; a refusal changes nothing.  *)
RegisterLaunch(t) ==
    /\ t \in Budgeted /\ ~BudgetSpent(t)
    /\ Charge(t)
    /\ UNCHANGED <<inflight, noteVars, callVars>>

(* Mutant: the tool is noted under its scope.                              *)
NoteUnavailableScope(t) ==
    /\ unavailable' = unavailable \cup {<<t, Image>>}
    /\ UNCHANGED timedOut

NoteUnavailable(t) ==
    /\ unavailable' = unavailable \cup {t}
    /\ UNCHANGED timedOut

NoteTimedOut(t) ==
    /\ timedOut' = timedOut \cup {t}
    /\ UNCHANGED unavailable

(* precheck_tool without force: may t be attempted at all?                 *)
PrecheckPasses(t) == t \notin unavailable /\ t \notin timedOut

(* reset_react_tool_discipline_state runs at the entry of a Step 11, when  *)
(* no pool thread of an earlier one is left.                               *)
ResetDiscipline ==
    /\ \A f \in Threads : st[f] = "idle"
    /\ counter' = [t \in Budgeted |-> 0]
    /\ inflight' = [k \in Keys |-> NoThread]
    /\ timedOut' = {}
    /\ unavailable' = {}
    /\ UNCHANGED callVars

-----------------------------------------------------------------------------
(* A caller may note a failed tool and collect its answer in one go.       *)
Note(t) == NoteUnavailable(t) \/ NoteTimedOut(t) \/ UNCHANGED noteVars

CollectAndNote(f, t) == Collect(f) /\ Note(t) /\ UNCHANGED budgetVars

JustNote(t) ==
    (NoteUnavailable(t) \/ NoteTimedOut(t)) /\ UNCHANGED <<budgetVars, callVars>>

(* The runner may note its tool unavailable before the outcome is set.     *)
Next ==
    \/ \E f \in Threads, t \in Tools, p \in Pids :
          HighCostDispatch(f, t, p) \/ DedupeRun(f, t, p)
    \/ \E f \in Threads, r \in Results : Resolve(f, r)
    \/ \E f \in Threads : Release(f)
    \/ \E f \in Threads, t \in Tools : CollectAndNote(f, t)
    \/ \E t \in Tools : RegisterLaunch(t) \/ JustNote(t)
    \/ ResetDiscipline

(* A runner ends (its subprocess carries a timeout) and a thread that can  *)
(* move is scheduled.  Calling again is nobody's duty.                     *)
FairRunner(f) == WF_disciplineVars(\E r \in Results : Resolve(f, r))

FairOwner(f) == WF_disciplineVars(Release(f))

Fairness == \A f \in Threads : FairRunner(f) /\ FairOwner(f)

Spec == Init /\ [][Next]_disciplineVars

FairSpec == Spec /\ Fairness

RunnerEnabled(f) == ENABLED <<\E r \in Results : Resolve(f, r)>>_disciplineVars

OwnerEnabled(f) == ENABLED <<Release(f)>>_disciplineVars

(* A runner that runs has a way to end, an owner with its outcome one to   *)
(* leave.                                                                  *)
GuardsEnabled ==
    \A f \in Threads :
        /\ st[f] = "running" => RunnerEnabled(f)
        /\ st[f] = "resolved" => OwnerEnabled(f)

-----------------------------------------------------------------------------
TypeOK ==
    /\ counter \in [Budgeted -> Nat]
    /\ inflight \in [Keys -> Threads \cup {NoThread}]
    /\ timedOut \subseteq Tools
    /\ unavailable \subseteq Tools
    /\ st \in [Threads -> {"idle", "running", "resolved", "waiting", "returned"}]
    /\ key \in [Threads -> Keys \cup {NoResult}]
    /\ on \in [Threads -> Threads \cup {NoThread}]
    /\ res \in [Threads -> Results \cup {NoResult, BudgetExhausted}]

(* However many threads race for a high-cost tool, it is launched in one   *)
(* run no more often than HIGH_COST_TOOL_BUDGET allows (react_discipline   *)
(* reads and bumps the count inside one critical section).                 *)
BudgetRespected == \A t \in Budgeted : counter[t] <= Budget[t]

(* Two launches of one raw scope never overlap: a full-image plugin is not *)
(* run twice side by side because two findings ask for different PIDs.     *)
SingleFlight ==
    \A f, g \in Threads : Owning(f) /\ Owning(g) /\ key[f] = key[g] => f = g

(* Nobody waits on a Future that nobody will resolve: the thread a         *)
(* duplicate caller waits for is running the scope it asked for, and never *)
(* waits itself, so the pool cannot wait in a circle.                      *)
WaitersHaveRunner ==
    \A f \in Threads : st[f] = "waiting" =>
        /\ on[f] \in Threads
        /\ st[on[f]] = "running"
        /\ key[on[f]] = key[f]

(* A registered key is always released by the thread that owns it: the     *)
(* table and the owners agree, in both directions.                         *)
TableMatchesOwners ==
    \A k \in Keys, f \in Threads :
        inflight[k] = f <=> Owning(f) /\ key[f] = k

(* A caller that shared a launch gets that launch's outcome, never the     *)
(* synthetic refusal: the in-flight test comes before the budget test.     *)
SharersNotRefused ==
    \A f \in Threads : st[f] = "returned" /\ on[f] # NoThread => res[f] \in Results

(* One outcome per launch: whoever waits leaves its wait with the owner's  *)
(* outcome, in the step that publishes it, and until then waits for that   *)
(* same owner.                                                             *)
SharersGetTheOutcome ==
    [][\A f \in Threads : st[f] = "waiting" =>
           \/ st'[f] = "waiting" /\ on'[f] = on[f]
           \/ /\ st'[f] = "returned" /\ st'[on[f]] = "resolved"
              /\ res'[f] = res'[on[f]]]_disciplineVars

(* Nobody waits for ever: whoever shares a launch gets an answer, whatever *)
(* the other callers launch, join or note meanwhile.                       *)
WaitersAnswered ==
    \A f, g \in Threads : st[f] = "waiting" /\ on[f] = g ~> st[f] = "returned"

(* No key leaks: every launch leaves the in-flight table (the finally      *)
(* clause), so no later caller of its scope waits for it for ever.         *)
KeysReleased == \A k \in Keys, f \in Threads : inflight[k] = f ~> ~(inflight[k] = f)
=============================================================================
