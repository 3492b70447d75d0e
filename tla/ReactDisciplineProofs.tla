----------------------- MODULE ReactDisciplineProofs -----------------------
(***************************************************************************)
(* Proofs about ReactDiscipline for any number of threads, tools, PIDs and *)
(* any budget.  The inductive invariant adds to the properties what each   *)
(* phase of a dispatch knows: a call that has begun has a scope key, only  *)
(* a sharer remembers an owner, and a published outcome is a real one.     *)
(* From it, with fair runners, no waiter and no key is left behind.        *)
(***************************************************************************)
EXTENDS ReactDiscipline, TLAPS

CallPhases ==
    \A f \in Threads :
        /\ st[f] # "idle" => key[f] \in Keys
        /\ st[f] \in {"idle", "running", "resolved"} => on[f] = NoThread
        /\ st[f] = "resolved" => res[f] \in Results

IInv ==
    /\ TypeOK
    /\ BudgetRespected
    /\ CallPhases
    /\ TableMatchesOwners
    /\ WaitersHaveRunner
    /\ SharersNotRefused

(* A dispatch of a known tool is keyed by a scope key.                     *)
LEMMA ScopeKeyIsKey ==
    ASSUME NEW t \in Tools, NEW p \in Pids
    PROVE  ScopeKey(t, p) \in Keys
  BY DEF ScopeKey, Keys

(* The caches are empty and nobody calls in the initial state.             *)
LEMMA InitInv == Init => IInv
  BY ToolAssumption, NullAssumption
  DEF Init, IInv, TypeOK, BudgetRespected, CallPhases, TableMatchesOwners,
      WaitersHaveRunner, SharersNotRefused, Owning

(* Joining a launch in flight: the thread comes to wait on a running owner *)
(* of its own key, or reads an outcome that is already published.          *)
LEMMA JoinStep ==
    ASSUME IInv, NEW f \in Threads, NEW t \in Tools, NEW p \in Pids,
           JoinInFlight(f, t, p)
    PROVE  IInv'
  <1> DEFINE k == ScopeKey(t, p)
             owner == inflight[k]
  <1>1. k \in Keys
    BY ScopeKeyIsKey
  <1>2. owner \in Threads /\ Owning(owner) /\ key[owner] = k
    BY <1>1 DEF IInv, TypeOK, TableMatchesOwners, JoinInFlight
  <1>3. owner # f /\ st[f] = "idle"
    BY <1>2 DEF JoinInFlight, Owning
  <1>4. TypeOK'
    BY <1>1, <1>2 DEF IInv, TypeOK, JoinInFlight, budgetVars, noteVars
  <1>5. BudgetRespected'
    BY DEF IInv, BudgetRespected, JoinInFlight, budgetVars
  <1>6. CallPhases'
    BY <1>1, <1>2, <1>3 DEF IInv, TypeOK, CallPhases, JoinInFlight
  <1>7. TableMatchesOwners'
    BY <1>1, <1>2, <1>3
    DEF IInv, TypeOK, TableMatchesOwners, Owning, JoinInFlight, budgetVars
  <1>8. WaitersHaveRunner'
    BY <1>1, <1>2, <1>3 DEF IInv, TypeOK, WaitersHaveRunner, JoinInFlight
  <1>9. SharersNotRefused'
    BY <1>1, <1>2, <1>3
    DEF IInv, TypeOK, SharersNotRefused, CallPhases, Owning, JoinInFlight
  <1>10. QED
    BY <1>4, <1>5, <1>6, <1>7, <1>8, <1>9 DEF IInv

LEMMA RefuseStep ==
    ASSUME IInv, NEW f \in Threads, NEW t \in Tools, NEW p \in Pids,
           RefuseLaunch(f, t, p)
    PROVE  IInv'
  <1>1. ScopeKey(t, p) \in Keys
    BY ScopeKeyIsKey
  <1>2. TypeOK' /\ BudgetRespected' /\ CallPhases'
    BY <1>1 DEF IInv, TypeOK, BudgetRespected, CallPhases, RefuseLaunch,
                budgetVars, noteVars
  <1>3. TableMatchesOwners'
    BY <1>1 DEF IInv, TypeOK, TableMatchesOwners, Owning, RefuseLaunch, budgetVars
  <1>4. WaitersHaveRunner'
    BY <1>1, NullAssumption DEF IInv, TypeOK, WaitersHaveRunner, RefuseLaunch
  <1>5. SharersNotRefused'
    BY <1>1 DEF IInv, TypeOK, SharersNotRefused, CallPhases, RefuseLaunch
  <1>6. QED
    BY <1>2, <1>3, <1>4, <1>5 DEF IInv

(* Creating the Future: the key was free, so the new owner is its only one.*)
LEMMA OwnerStep ==
    ASSUME IInv, NEW f \in Threads, NEW k \in Keys, BecomeOwner(f, k),
           counter' \in [Budgeted -> Nat], BudgetRespected'
    PROVE  IInv'
  <1>1. TypeOK' /\ CallPhases'
    BY DEF IInv, TypeOK, CallPhases, BecomeOwner, noteVars
  <1>2. TableMatchesOwners'
    <2> SUFFICES ASSUME NEW j \in Keys, NEW g \in Threads
                 PROVE  (inflight[j] = g <=> Owning(g) /\ key[g] = j)'
      BY DEF TableMatchesOwners
    <2>1. CASE g = f
      BY <2>1, NullAssumption
      DEF IInv, TypeOK, TableMatchesOwners, Owning, BecomeOwner
    <2>2. CASE g # f
      BY <2>2, NullAssumption
      DEF IInv, TypeOK, TableMatchesOwners, Owning, BecomeOwner
    <2>3. QED
      BY <2>1, <2>2
  <1>3. WaitersHaveRunner'
    BY DEF IInv, TypeOK, WaitersHaveRunner, BecomeOwner
  <1>4. SharersNotRefused'
    BY DEF IInv, TypeOK, SharersNotRefused, BecomeOwner
  <1>5. QED
    BY <1>1, <1>2, <1>3, <1>4 DEF IInv

(* A launch is charged only while the budget is not spent.                 *)
LEMMA ChargeStep ==
    ASSUME TypeOK, BudgetRespected, NEW t \in Tools, ~BudgetSpent(t), Charge(t)
    PROVE  counter' \in [Budgeted -> Nat] /\ BudgetRespected'
  BY ToolAssumption DEF TypeOK, BudgetRespected, BudgetSpent, Charge

LEMMA ResolveStep ==
    ASSUME IInv, NEW f \in Threads, NEW r \in Results, Resolve(f, r)
    PROVE  IInv'
  <1>1. TypeOK' /\ BudgetRespected'
    BY DEF IInv, TypeOK, BudgetRespected, Resolve, budgetVars, noteVars
  <1>2. CallPhases'
    BY DEF IInv, TypeOK, CallPhases, Resolve
  <1>3. TableMatchesOwners'
    BY DEF IInv, TypeOK, TableMatchesOwners, Owning, Resolve, budgetVars
  <1>4. WaitersHaveRunner'
    BY DEF IInv, TypeOK, WaitersHaveRunner, Resolve
  <1>5. SharersNotRefused'
    BY DEF IInv, TypeOK, SharersNotRefused, CallPhases, Resolve
  <1>6. QED
    BY <1>1, <1>2, <1>3, <1>4, <1>5 DEF IInv

LEMMA ReleaseStep ==
    ASSUME IInv, NEW f \in Threads, Release(f)
    PROVE  IInv'
  <1>1. key[f] \in Keys /\ inflight[key[f]] = f
    BY DEF IInv, TypeOK, CallPhases, TableMatchesOwners, Owning, Release
  <1>2. TypeOK' /\ BudgetRespected' /\ CallPhases'
    BY <1>1, NullAssumption
    DEF IInv, TypeOK, BudgetRespected, CallPhases, Release, noteVars
  <1>3. TableMatchesOwners'
    BY <1>1, NullAssumption
    DEF IInv, TypeOK, TableMatchesOwners, Owning, Release
  <1>4. WaitersHaveRunner'
    BY DEF IInv, TypeOK, WaitersHaveRunner, Release
  <1>5. SharersNotRefused'
    BY DEF IInv, TypeOK, SharersNotRefused, CallPhases, Release
  <1>6. QED
    BY <1>2, <1>3, <1>4, <1>5 DEF IInv

LEMMA NoteTyped ==
    ASSUME TypeOK, NEW t \in Tools, Note(t)
    PROVE  timedOut' \subseteq Tools /\ unavailable' \subseteq Tools
  BY DEF TypeOK, Note, NoteUnavailable, NoteTimedOut, noteVars

LEMMA CollectStep ==
    ASSUME IInv, NEW f \in Threads, NEW t \in Tools, CollectAndNote(f, t)
    PROVE  IInv'
  <1>1. timedOut' \subseteq Tools /\ unavailable' \subseteq Tools
    BY NoteTyped DEF IInv, CollectAndNote
  <1>2. TypeOK' /\ BudgetRespected' /\ CallPhases'
    BY <1>1 DEF IInv, TypeOK, BudgetRespected, CallPhases, CollectAndNote,
                Collect, budgetVars
  <1>3. TableMatchesOwners'
    BY DEF IInv, TypeOK, TableMatchesOwners, Owning, CollectAndNote, Collect,
           budgetVars
  <1>4. WaitersHaveRunner'
    BY DEF IInv, TypeOK, WaitersHaveRunner, CollectAndNote, Collect
  <1>5. SharersNotRefused'
    BY DEF IInv, TypeOK, SharersNotRefused, CollectAndNote, Collect
  <1>6. QED
    BY <1>2, <1>3, <1>4, <1>5 DEF IInv

(* Steps that move no call leave the phases and the table as they are.     *)
LEMMA QuietStep ==
    ASSUME IInv, UNCHANGED <<inflight, callVars>>, TypeOK', BudgetRespected'
    PROVE  IInv'
  BY DEF IInv, CallPhases, TableMatchesOwners, WaitersHaveRunner,
         SharersNotRefused, Owning, callVars

LEMMA ResetStep == ASSUME IInv, ResetDiscipline PROVE IInv'
  <1>1. TypeOK' /\ BudgetRespected'
    BY ToolAssumption, NullAssumption
    DEF IInv, TypeOK, BudgetRespected, ResetDiscipline, callVars
  <1>2. CallPhases' /\ WaitersHaveRunner' /\ SharersNotRefused'
    BY DEF IInv, CallPhases, WaitersHaveRunner, SharersNotRefused,
           ResetDiscipline, callVars
  <1>3. TableMatchesOwners'
    BY NullAssumption
    DEF IInv, TypeOK, TableMatchesOwners, Owning, ResetDiscipline, callVars
  <1>4. QED
    BY <1>1, <1>2, <1>3 DEF IInv

(* Every step of the open discipline keeps the invariant.                  *)
LEMMA NextInv == IInv /\ [Next]_disciplineVars => IInv'
  <1> SUFFICES ASSUME IInv, [Next]_disciplineVars PROVE IInv'
    OBVIOUS
  <1>1. ASSUME NEW f \in Threads, NEW t \in Tools, NEW p \in Pids,
               HighCostDispatch(f, t, p)
        PROVE  IInv'
    <2>1. CASE OwnLaunch(f, t, p)
      BY <2>1, ScopeKeyIsKey, ChargeStep, OwnerStep DEF IInv, OwnLaunch
    <2>2. QED
      BY <1>1, <2>1, JoinStep, RefuseStep DEF HighCostDispatch
  <1>2. ASSUME NEW f \in Threads, NEW t \in Tools, NEW p \in Pids,
               DedupeRun(f, t, p)
        PROVE  IInv'
    <2>1. CASE BecomeOwner(f, ScopeKey(t, p)) /\ UNCHANGED counter
      <3>1. counter' \in [Budgeted -> Nat] /\ BudgetRespected'
        BY <2>1 DEF IInv, TypeOK, BudgetRespected
      <3>2. QED
        BY <2>1, <3>1, ScopeKeyIsKey, OwnerStep
    <2>2. QED
      BY <1>2, <2>1, JoinStep DEF DedupeRun
  <1>3. ASSUME NEW t \in Tools, RegisterLaunch(t) PROVE IInv'
    <2>1. counter' \in [Budgeted -> Nat] /\ BudgetRespected'
      BY <1>3, ChargeStep DEF IInv, RegisterLaunch
    <2>2. TypeOK'
      BY <1>3, <2>1 DEF IInv, TypeOK, RegisterLaunch, noteVars, callVars
    <2>3. QED
      BY <1>3, <2>1, <2>2, QuietStep DEF RegisterLaunch
  <1>4. ASSUME NEW t \in Tools, JustNote(t) PROVE IInv'
    <2>1. TypeOK' /\ BudgetRespected'
      BY <1>4 DEF IInv, TypeOK, BudgetRespected, JustNote, NoteUnavailable,
                  NoteTimedOut, budgetVars, callVars
    <2>2. QED
      BY <1>4, <2>1, QuietStep DEF JustNote, budgetVars
  <1>5. CASE UNCHANGED disciplineVars
    BY <1>5 DEF disciplineVars, IInv, TypeOK, BudgetRespected, CallPhases,
                TableMatchesOwners, WaitersHaveRunner, SharersNotRefused, Owning
  <1>6. QED
    BY <1>1, <1>2, <1>3, <1>4, <1>5, ResolveStep, ReleaseStep, CollectStep,
       ResetStep
    DEF Next

LEMMA SpecInv == Spec => []IInv
  BY InitInv, NextInv, PTL DEF Spec

(* Every variable of the discipline keeps its type.                        *)
THEOREM TypeCorrect == Spec => []TypeOK
  BY SpecInv, PTL DEF IInv

(* However many threads race, no budgeted tool is charged for more         *)
(* launches than HIGH_COST_TOOL_BUDGET gives it.                           *)
THEOREM BudgetTheorem == Spec => []BudgetRespected
  BY SpecInv, PTL DEF IInv

(* Launches of one raw scope never overlap.                                *)
THEOREM SingleFlightTheorem == Spec => []SingleFlight
  <1>1. IInv => SingleFlight
    BY DEF IInv, CallPhases, TableMatchesOwners, SingleFlight, Owning
  <1>2. QED
    BY <1>1, SpecInv, PTL

(* A waiting thread always has a running owner of the scope it asked for.  *)
THEOREM NoOrphanedWaiter == Spec => []WaitersHaveRunner
  BY SpecInv, PTL DEF IInv

(* The in-flight table and the owning threads agree at every step.         *)
THEOREM TableTheorem == Spec => []TableMatchesOwners
  BY SpecInv, PTL DEF IInv

(* A thread that shared a launch never gets the budget refusal for it.     *)
THEOREM SharersServed == Spec => []SharersNotRefused
  BY SpecInv, PTL DEF IInv

-----------------------------------------------------------------------------
(* A step that moves a waiting thread is the end of the launch it shares.  *)
LEMMA WaiterStep ==
    ASSUME IInv, NEW f \in Threads, st[f] = "waiting", [Next]_disciplineVars
    PROVE  \/ st'[f] = "waiting" /\ on'[f] = on[f]
           \/ /\ st'[f] = "returned" /\ st'[on[f]] = "resolved"
              /\ res'[f] = res'[on[f]]
  <1> DEFINE Waits == st'[f] = "waiting" /\ on'[f] = on[f]
  <1>1. /\ st \in [Threads -> {"idle", "running", "resolved", "waiting", "returned"}]
        /\ on \in [Threads -> Threads \cup {NoThread}]
        /\ on[f] \in Threads
    BY DEF IInv, TypeOK, WaitersHaveRunner
  <1>2. ASSUME NEW g \in Threads, NEW t \in Tools, NEW p \in Pids,
               HighCostDispatch(g, t, p) \/ DedupeRun(g, t, p)
        PROVE  Waits
    BY <1>1, <1>2 DEF HighCostDispatch, DedupeRun, JoinInFlight, RefuseLaunch,
                      OwnLaunch, BecomeOwner
  <1>3. ASSUME NEW g \in Threads, NEW r \in Results, Resolve(g, r)
        PROVE  \/ Waits
               \/ /\ st'[f] = "returned" /\ st'[on[f]] = "resolved"
                  /\ res'[f] = res'[on[f]]
    BY <1>1, <1>3 DEF Resolve
  <1>4. ASSUME NEW g \in Threads, Release(g) PROVE Waits
    BY <1>1, <1>4 DEF Release
  <1>5. ASSUME NEW g \in Threads, NEW t \in Tools, CollectAndNote(g, t) PROVE Waits
    BY <1>1, <1>5 DEF CollectAndNote, Collect
  <1>6. ASSUME NEW t \in Tools, RegisterLaunch(t) \/ JustNote(t) PROVE Waits
    BY <1>6 DEF RegisterLaunch, JustNote, callVars
  <1>7. CASE ResetDiscipline \/ UNCHANGED disciplineVars
    BY <1>7 DEF ResetDiscipline, callVars, disciplineVars
  <1>8. QED
    BY <1>2, <1>3, <1>4, <1>5, <1>6, <1>7 DEF Next

(* Whoever shares a launch leaves its wait with that launch's outcome.     *)
THEOREM SharersOutcomeTheorem == Spec => SharersGetTheOutcome
  <1>1. IInv /\ [Next]_disciplineVars =>
           [\A f \in Threads : st[f] = "waiting" =>
               \/ st'[f] = "waiting" /\ on'[f] = on[f]
               \/ /\ st'[f] = "returned" /\ st'[on[f]] = "resolved"
                  /\ res'[f] = res'[on[f]]]_disciplineVars
    BY WaiterStep
  <1>2. QED
    BY <1>1, SpecInv, PTL DEF Spec, SharersGetTheOutcome

(* An owner keeps its launch until it ends it, and its key until it leaves.*)
LEMMA OwnerMoves ==
    ASSUME IInv, NEW f \in Threads, [Next]_disciplineVars
    PROVE  /\ st[f] = "running" => st'[f] \in {"running", "resolved"}
           /\ st[f] = "resolved" => st'[f] \in {"resolved", "returned"}
           /\ Owning(f) => key'[f] = key[f]
  <1> DEFINE Stays == Owning(f) => st'[f] = st[f] /\ key'[f] = key[f]
  <1>1. /\ st \in [Threads -> {"idle", "running", "resolved", "waiting", "returned"}]
        /\ key \in [Threads -> Keys \cup {NoResult}]
    BY DEF IInv, TypeOK
  <1>2. ASSUME NEW g \in Threads, NEW t \in Tools, NEW p \in Pids,
               HighCostDispatch(g, t, p) \/ DedupeRun(g, t, p)
        PROVE  Stays
    BY <1>1, <1>2 DEF HighCostDispatch, DedupeRun, JoinInFlight, RefuseLaunch,
                      OwnLaunch, BecomeOwner, Owning
  <1>3. ASSUME NEW g \in Threads, NEW r \in Results, Resolve(g, r)
        PROVE  /\ st[f] = "running" => st'[f] \in {"running", "resolved"}
               /\ st[f] = "resolved" => st'[f] = "resolved"
               /\ key'[f] = key[f]
    BY <1>1, <1>3 DEF Resolve
  <1>4. ASSUME NEW g \in Threads, Release(g)
        PROVE  /\ st[f] = "running" => st'[f] = "running"
               /\ st[f] = "resolved" => st'[f] \in {"resolved", "returned"}
               /\ key'[f] = key[f]
    BY <1>1, <1>4 DEF Release
  <1>5. ASSUME NEW g \in Threads, NEW t \in Tools, CollectAndNote(g, t) PROVE Stays
    BY <1>1, <1>5 DEF CollectAndNote, Collect, Owning
  <1>6. ASSUME NEW t \in Tools, RegisterLaunch(t) \/ JustNote(t) PROVE Stays
    BY <1>6 DEF RegisterLaunch, JustNote, callVars
  <1>7. CASE ResetDiscipline \/ UNCHANGED disciplineVars
    BY <1>7 DEF ResetDiscipline, callVars, disciplineVars
  <1>8. Stays => /\ st[f] = "running" => st'[f] \in {"running", "resolved"}
                 /\ st[f] = "resolved" => st'[f] \in {"resolved", "returned"}
                 /\ Owning(f) => key'[f] = key[f]
    BY DEF Owning
  <1> HIDE DEF Stays
  <1>9. QED
    BY <1>2, <1>3, <1>4, <1>5, <1>6, <1>7, <1>8 DEF Next

(* Fairness in terms of the guards, which GuardsEnabled says imply ENABLED.*)
RunnerGuardFair(f) ==
    []<>~(st[f] = "running") \/ []<><<\E r \in Results : Resolve(f, r)>>_disciplineVars

OwnerGuardFair(f) == []<>~(st[f] = "resolved") \/ []<><<Release(f)>>_disciplineVars

LEMMA OwnerIsFair ==
    ASSUME NEW f \in Threads
    PROVE  FairRunner(f) /\ FairOwner(f) /\ []GuardsEnabled
           => RunnerGuardFair(f) /\ OwnerGuardFair(f)
  <1>1. GuardsEnabled => /\ st[f] = "running" => RunnerEnabled(f)
                         /\ st[f] = "resolved" => OwnerEnabled(f)
    BY DEF GuardsEnabled
  <1>2. QED
    BY <1>1, PTL DEF FairRunner, FairOwner, RunnerEnabled, OwnerEnabled,
                     RunnerGuardFair, OwnerGuardFair

Runs == []IInv /\ [][Next]_disciplineVars /\ []GuardsEnabled

FairThread(f) == FairRunner(f) /\ FairOwner(f)

LEMMA FairSpecRuns == FairSpec /\ []GuardsEnabled => Runs /\ Fairness
  BY SpecInv, PTL DEF FairSpec, Spec, Runs

(* A thread waits for one owner, which runs until it ends the launch.      *)
LEMMA WaiterAnswered ==
    ASSUME NEW f \in Threads, NEW g \in Threads
    PROVE  Runs /\ FairThread(g) =>
              (st[f] = "waiting" /\ on[f] = g ~> st[f] = "returned")
  <1> DEFINE Waits == st[f] = "waiting" /\ on[f] = g
             Served == st[f] = "returned"
  <1>1. IInv => (Waits => st[g] = "running")
    BY DEF IInv, WaitersHaveRunner
  <1>2. IInv /\ Waits /\ [Next]_disciplineVars => Waits' \/ Served'
    BY WaiterStep
  <1>3. IInv /\ Waits /\ <<\E r \in Results : Resolve(g, r)>>_disciplineVars => Served'
    BY DEF Resolve, IInv, TypeOK, WaitersHaveRunner
  <1>4. FairThread(g) /\ []GuardsEnabled => RunnerGuardFair(g)
    BY OwnerIsFair DEF FairThread
  <1> HIDE DEF Waits, Served
  <1>5. Runs /\ FairThread(g) => (Waits ~> Served)
    BY <1>1, <1>2, <1>3, <1>4, PTL DEF Runs, RunnerGuardFair
  <1>6. QED
    BY <1>5 DEF Waits, Served

(* Nobody waits for ever, for any number of threads, tools and scopes.     *)
THEOREM WaitersTheorem == FairSpec /\ []GuardsEnabled => WaitersAnswered
  <1>1. ASSUME Runs, Fairness, NEW f \in Threads, NEW g \in Threads
        PROVE  st[f] = "waiting" /\ on[f] = g ~> st[f] = "returned"
    <2>1. FairThread(g)
      BY <1>1 DEF Fairness, FairThread
    <2>2. QED
      BY <1>1, <2>1, WaiterAnswered
  <1>2. QED
    BY <1>1, FairSpecRuns DEF WaitersAnswered

(* The owner of a key resolves, and then releases it.                      *)
LEMMA KeyReleased ==
    ASSUME NEW k \in Keys, NEW f \in Threads
    PROVE  Runs /\ FairThread(f) => (inflight[k] = f ~> ~(inflight[k] = f))
  <1> DEFINE Held == inflight[k] = f
             Launching == Held /\ st[f] = "running"
             Leaving == Held /\ st[f] = "resolved"
  <1>1. IInv => (Held <=> Launching \/ Leaving)
    BY DEF IInv, TableMatchesOwners, Owning
  <1>2. IInv /\ IInv' /\ [Next]_disciplineVars =>
           /\ Launching => Launching' \/ Leaving'
           /\ Leaving => Leaving' \/ ~Held'
    BY OwnerMoves DEF IInv, TableMatchesOwners, Owning
  <1>3. IInv /\ Launching /\ <<\E r \in Results : Resolve(f, r)>>_disciplineVars => Leaving'
    BY DEF Resolve, budgetVars, IInv, TypeOK
  <1>4. IInv /\ Leaving /\ <<Release(f)>>_disciplineVars => ~Held'
    BY NullAssumption DEF Release, IInv, TypeOK, TableMatchesOwners, Owning
  <1>5. FairThread(f) /\ []GuardsEnabled => RunnerGuardFair(f) /\ OwnerGuardFair(f)
    BY OwnerIsFair DEF FairThread
  <1>6. Launching => st[f] = "running"
    OBVIOUS
  <1>7. Leaving => st[f] = "resolved"
    OBVIOUS
  <1> HIDE DEF Held, Launching, Leaving
  <1>8. Runs /\ FairThread(f) => (Held ~> ~Held)
    BY <1>1, <1>2, <1>3, <1>4, <1>5, <1>6, <1>7, PTL
    DEF Runs, RunnerGuardFair, OwnerGuardFair
  <1>9. QED
    BY <1>8 DEF Held

(* No key leaks, for any number of threads, tools and scopes.              *)
THEOREM KeysTheorem == FairSpec /\ []GuardsEnabled => KeysReleased
  <1>1. ASSUME Runs, Fairness, NEW k \in Keys, NEW f \in Threads
        PROVE  inflight[k] = f ~> ~(inflight[k] = f)
    <2>1. FairThread(f)
      BY <1>1 DEF Fairness, FairThread
    <2>2. QED
      BY <1>1, <2>1, KeyReleased
  <1>2. QED
    BY <1>1, FairSpecRuns DEF KeysReleased
=============================================================================
