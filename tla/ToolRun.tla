------------------------------ MODULE ToolRun -------------------------------
(***************************************************************************)
(* Step 6: the selected tools run in a pool, over MCP (a server process per *)
(* call, one retry, a local parser behind some tools) or directly; main     *)
(* collects their answers in order, derives from them, and the tool-health  *)
(* line of the report counts what happened, Step 11's own calls included.   *)
(***************************************************************************)
EXTENDS Integers, Sequences, FiniteSets

CONSTANTS
  RawOrder,       \* raw tools, as submitted (heavy first)
  DerivedOrder,   \* derived-after-raw tools
  Resolved,       \* raw tools whose artifact is looked up before the call
  LocalFirst,     \* _SIFT_MCP_LOCAL_FIRST_TOOLS
  LocalFallback,  \* tools with a parser in this process
  Pstree, Psscan,
  Investigating,  \* tools Step 11 may call by run_tool, selected or not
  Workers         \* step6_max_workers()

Raw == {RawOrder[i] : i \in DOMAIN RawOrder}
Derived == {DerivedOrder[i] : i \in DOMAIN DerivedOrder}
Tools == Raw \cup Derived

\* What an envelope says: it has records, or none; the tool does not apply
\* (missing rules, images and body files included: the envelopes that say so
\* are all of kind not_applicable), without or with a reason in "error"; it
\* timed out; it failed; or the worker made it of an exception.
Answers == {"records", "empty", "na", "naError", "timeout", "error", "raised"}
None == "none"
Inapplicable == {"na", "naError"}
Broken == {"timeout", "error", "raised"}
Sent == Answers \ {"raised"}

ASSUME ToolRunAssumption ==
  /\ RawOrder \in Seq(Raw) /\ DerivedOrder \in Seq(Derived)
  /\ \A i, j \in DOMAIN RawOrder : RawOrder[i] = RawOrder[j] => i = j
  /\ \A i, j \in DOMAIN DerivedOrder : DerivedOrder[i] = DerivedOrder[j] => i = j
  /\ RawOrder # << >> /\ Raw \cap Derived = {}
  /\ LocalFirst \subseteq LocalFallback /\ LocalFallback \subseteq Raw
  /\ Resolved \subseteq Raw /\ {Pstree, Psscan} \subseteq Raw
  /\ IsFiniteSet(Investigating)
  /\ Workers \in Nat \ {0}

VARIABLES
  mode,     \* "mcp" or "direct" (--no-mcp, dry run)
  main,     \* what main is doing
  at,       \* position of main in the order it collects
  job,      \* where the call of each tool is
  answer,   \* what each call returned
  outputs,  \* additional: the answers main collected
  alias,    \* "yes" once vol_psscan stands in for vol_pstree in all_outputs
  health,   \* _ToolHealth of this process: marks per registered name
  told,     \* tool_failures
  line      \* the counts of the TOOL HEALTH line

vars == <<mode, main, at, job, answer, outputs, alias, health, told, line>>

NoLine == [selected |-> 0, inapplicable |-> 0, failed |-> 0, producing |-> 0]

Init ==
  /\ mode \in {"mcp", "direct"}
  /\ main = "collect" /\ at = 1
  /\ job = [t \in Tools |-> IF mode = "mcp" /\ t \in Derived THEN "later" ELSE "queued"]
  /\ answer = [t \in Tools |-> None] /\ outputs = [t \in Tools |-> None]
  /\ alias = "no"
  /\ health = [attempted |-> {}, succeeded |-> {}, failed |-> {}]
  /\ told = {} /\ line = NoLine

-----------------------------------------------------------------------------
(* _ToolHealth.  MCP calls are marked as "tool_<name>", direct ones by name. *)

Name(t) == <<mode, t>>

Attempt(n) == health' = [health EXCEPT !.attempted = @ \cup {n}]
Succeed(n) == health' = [health EXCEPT !.succeeded = @ \cup {n}]
Fail(n) == health' = [health EXCEPT !.failed = @ \cup {n}]

\* Mutant: a time limit is taken for a gap in the evidence.
MarkReplyForgiving(t, a) ==
  IF a \in Inapplicable \cup {"timeout"} THEN UNCHANGED health
  ELSE IF a \in Broken THEN Fail(Name(t)) ELSE Succeed(Name(t))

\* What call_mcp_tool makes of a reply: what does not apply is no failure.
MarkReply(t, a) ==
  CASE a \in Inapplicable -> UNCHANGED health
    [] a \in Broken -> Fail(Name(t))
    [] OTHER -> Succeed(Name(t))

\* ... and of the local parser, where no record is a failure, and neither is it
\* looked at whether the tool applies.
MarkLocal(t, a) == IF a = "records" THEN Succeed(Name(t)) ELSE Fail(Name(t))

-----------------------------------------------------------------------------
(* One call over MCP. *)

Settle(t, a) ==
  /\ job' = [job EXCEPT ![t] = "done"]
  /\ answer' = [answer EXCEPT ![t] = a]

GoTo(t, place) == job' = [job EXCEPT ![t] = place] /\ UNCHANGED answer

OfMain == <<mode, main, at, outputs, alias, told, line>>

\* call_mcp_tool.
StartCall(t) ==
  /\ GoTo(t, IF t \in LocalFirst THEN "local" ELSE "session")
  /\ Attempt(Name(t))

\* slot31c4_dispatch_one: the artifact of a resolved tool may be absent, or
\* looking for it raises; neither reaches call_mcp_tool.
Dispatch(t) ==
  \/ t \in Resolved /\ \E a \in {"na", "raised"} : Settle(t, a) /\ UNCHANGED health
  \/ StartCall(t)

Waiting == {t \in Tools : job[t] = "queued"}
Busy == {t \in Raw : job[t] \notin {"queued", "done"}}

\* The pool hands out the queue in order; with one worker main runs the queue.
MayStart(t) ==
  /\ t \in Waiting /\ Cardinality(Busy) < Workers
  /\ \A i, j \in DOMAIN RawOrder :
       RawOrder[i] = t /\ j < i => RawOrder[j] \notin Waiting

Work(t) == mode = "mcp" /\ MayStart(t) /\ Dispatch(t) /\ UNCHANGED OfMain

\* The heavy parser, in a process of its own; if it cannot even be started here,
\* MCP is tried.
ParseFirst(t) ==
  /\ job[t] = "local"
  /\ \/ \E a \in Sent : Settle(t, a) /\ MarkLocal(t, a)
     \/ GoTo(t, "session") /\ UNCHANGED health
  /\ UNCHANGED OfMain

\* The server answered with an envelope, said in words that the tool timed
\* out, or sent no content.
Reply(t) ==
  /\ job[t] \in {"session", "again"}
  /\ \E a \in Sent : Settle(t, a) /\ MarkReply(t, a)
  /\ UNCHANGED OfMain

\* Mutant: the fresh server may be replaced by another.
GarbageUnbounded(t) ==
  /\ \/ job[t] = "session" /\ GoTo(t, "again")
     \/ job[t] = "again" /\ GoTo(t, "session")
  /\ UNCHANGED health /\ UNCHANGED OfMain

\* JSON that is not an object: call_mcp_tool trips over it with no mark but that
\* of the attempt, and the worker answers for it.
NotObject(t) ==
  /\ t \in Raw /\ job[t] \in {"session", "again"}
  /\ Settle(t, "raised") /\ UNCHANGED health /\ UNCHANGED OfMain

\* A session has no time limit, and neither has the wait for it: a server that
\* never answers keeps the call, and a worker, for ever.
Hang(t) ==
  /\ job[t] \in {"session", "again"} /\ GoTo(t, "hung")
  /\ UNCHANGED health /\ UNCHANGED OfMain

\* Text that is no JSON: once more with a fresh server, then an error.
Garbage(t) ==
  /\ \/ job[t] = "session" /\ GoTo(t, "again") /\ UNCHANGED health
     \/ job[t] = "again" /\ Settle(t, "error") /\ MarkReply(t, "error")
  /\ UNCHANGED OfMain

\* Mutant: the exception counts before the local parser is tried.
CrashCounted(t) ==
  /\ job[t] \in {"session", "again"} /\ Fail(Name(t))
  /\ IF t \in LocalFallback THEN GoTo(t, "fallback") ELSE Settle(t, "error")
  /\ UNCHANGED OfMain

\* The transport raised: a tool with a local parser is parsed here.
Crash(t) ==
  /\ job[t] \in {"session", "again"}
  /\ \/ t \in LocalFallback /\ GoTo(t, "fallback") /\ UNCHANGED health
     \/ t \notin LocalFallback /\ Settle(t, "error") /\ Fail(Name(t))
  /\ UNCHANGED OfMain

\* A parser that raises as well leaves the error of the transport.
ParseInstead(t) ==
  /\ job[t] = "fallback"
  /\ \E a \in Sent : Settle(t, a) /\ MarkLocal(t, a)
  /\ UNCHANGED OfMain

-----------------------------------------------------------------------------
(* One call without MCP: run_tool in a worker.                               *)

\* run_tool goes by the presence of "error" alone.
MarkRun(n, a) ==
  health' = [health EXCEPT
    !.attempted = @ \cup {n},
    !.failed = IF a \in Broken \cup {"naError"} THEN @ \cup {n} ELSE @,
    !.succeeded = IF a \in Broken \cup {"naError"} THEN @ ELSE @ \cup {n}]

\* A derived tool is not handed the outputs it derives from.
MayReturn(t) == IF t \in Derived THEN {"naError"} ELSE Sent

RunDirect(t) ==
  /\ mode = "direct" /\ job[t] = "queued"
  /\ \E a \in MayReturn(t) : Settle(t, a) /\ MarkRun(Name(t), a)
  /\ UNCHANGED OfMain

-----------------------------------------------------------------------------
(* Main. *)

\* _psscan_fallback: pstree without a record, psscan with some.
StandsIn(out) == IF out[Pstree] # "records" /\ out[Psscan] = "records" THEN "yes" ELSE "no"

\* Mutant: answers are taken as they complete.
CollectAsCompleted ==
  /\ mode = "mcp" /\ main = "collect"
  /\ \E t \in Raw :
       /\ job[t] = "done" /\ outputs[t] = None
       /\ outputs' = [outputs EXCEPT ![t] = answer[t]]
  /\ IF at = Len(RawOrder)
     THEN main' = "derive" /\ at' = 1 /\ alias' = StandsIn(outputs')
     ELSE at' = at + 1 /\ UNCHANGED <<main, alias>>
  /\ UNCHANGED <<mode, job, answer, health, told, line>>

\* The replay phase: in submission order, blocking.
Collect ==
  /\ mode = "mcp" /\ main = "collect"
  /\ job[RawOrder[at]] = "done"
  /\ outputs' = [outputs EXCEPT ![RawOrder[at]] = answer[RawOrder[at]]]
  /\ IF at = Len(RawOrder)
     THEN main' = "derive" /\ at' = 1 /\ alias' = StandsIn(outputs')
     ELSE at' = at + 1 /\ UNCHANGED <<main, alias>>
  /\ UNCHANGED <<mode, job, answer, health, told, line>>

\* run_tools_parallel returns once every tool is done.
CollectDirect ==
  /\ mode = "direct" /\ main = "collect"
  /\ \A t \in Tools : job[t] = "done"
  /\ outputs' = answer /\ alias' = StandsIn(answer)
  /\ main' = "derive" /\ at' = Len(DerivedOrder) + 1
  /\ UNCHANGED <<mode, job, answer, health, told, line>>

Deriving(t) == main = "derive" /\ at \in DOMAIN DerivedOrder /\ t = DerivedOrder[at]

\* Step 6C: derive here, which no health mark records; if that fails, over MCP,
\* unless the resolver finds nothing to hand on.
Derive(t) ==
  /\ Deriving(t) /\ job[t] = "later"
  /\ \/ \E a \in {"records", "empty", "na"} : Settle(t, a) /\ UNCHANGED health
     \/ StartCall(t)
  /\ UNCHANGED OfMain

\* In the derived pass nothing catches a resolver that raises or a reply that is
\* not an object: the program ends there, without a report.
Die ==
  /\ main = "derive" /\ at \in DOMAIN DerivedOrder
  /\ job[DerivedOrder[at]] \in {"later", "session", "again"}
  /\ main' = "died"
  /\ UNCHANGED <<mode, at, job, answer, outputs, alias, health, told, line>>

CollectDerived ==
  /\ main = "derive" /\ at \in DOMAIN DerivedOrder
  /\ job[DerivedOrder[at]] = "done"
  /\ outputs' = [outputs EXCEPT ![DerivedOrder[at]] = answer[DerivedOrder[at]]]
  /\ at' = at + 1
  /\ UNCHANGED <<mode, main, job, answer, alias, health, told, line>>

\* all_outputs: what the next steps, the report and the failure list look at.
AllOutputs == [t \in Tools |-> IF t = Pstree /\ alias = "yes" THEN "records" ELSE outputs[t]]

\* collect_tool_failures: neither no records nor not applicable is a failure.
Failures == {t \in Tools : AllOutputs[t] \in Broken}

Close ==
  /\ main = "derive" /\ at > Len(DerivedOrder)
  /\ told' = Failures /\ main' = "investigate"
  /\ UNCHANGED <<mode, at, job, answer, outputs, alias, health, line>>

\* Step 11 calls run_tool in this process, whatever Step 6 used, for a tool of
\* which there are no records yet.
Investigate(t) ==
  /\ main = "investigate"
  /\ t \in Tools => AllOutputs[t] # "records"
  /\ \E a \in MayReturn(t) : MarkRun(<<"direct", t>>, a)
  /\ UNCHANGED <<mode, main, at, job, answer, outputs, alias, told, line>>

\* Mutant: the failures and what does not apply are just taken off.
CountsUnclamped ==
  LET inapplicable == Cardinality({t \in Tools : AllOutputs[t] \in Inapplicable})
      failed == Cardinality(health.failed)
  IN  [selected |-> Cardinality(Tools), inapplicable |-> inapplicable, failed |-> failed,
       producing |-> Cardinality(Tools) - inapplicable - failed]

\* The TOOL HEALTH line of the final report.
Counts ==
  LET selected == Cardinality(Tools)
      inapplicable == Cardinality({t \in Tools : AllOutputs[t] \in Inapplicable})
      failed == Cardinality(health.failed)
  IN  [selected |-> selected, inapplicable |-> inapplicable, failed |-> failed,
       producing |-> IF inapplicable + failed > selected THEN 0
                     ELSE selected - (inapplicable + failed)]

Report ==
  /\ main = "investigate" /\ main' = "reported" /\ line' = Counts
  /\ UNCHANGED <<mode, at, job, answer, outputs, alias, health, told>>

-----------------------------------------------------------------------------
CallStep(t) ==
  Work(t) \/ ParseFirst(t) \/ Reply(t) \/ NotObject(t) \/ Garbage(t) \/ Crash(t)
    \/ ParseInstead(t) \/ RunDirect(t) \/ Derive(t)

MainStep == Collect \/ CollectDirect \/ CollectDerived \/ Die \/ Close \/ Report

Next ==
  \/ MainStep
  \/ \E t \in Tools : CallStep(t) \/ Hang(t)
  \/ \E t \in Investigating : Investigate(t)

Spec == Init /\ [][Next]_vars

\* A call whose server does not hang gets somewhere: a reply, garbage, a broken
\* pipe, or the time limit of the parsers.  Nothing forces one out of Hang.
FairCall(t) == WF_vars(CallStep(t))

Fairness == WF_vars(MainStep) /\ \A t \in Tools : FairCall(t)

FairSpec == Spec /\ Fairness

-----------------------------------------------------------------------------
(* What must hold. *)

Places == {"later", "queued", "local", "session", "again", "fallback", "hung", "done"}
Names == {"mcp", "direct"} \X (Tools \cup Investigating)

\* The variables keep their types; no count of the line is negative.
TypeOK ==
  /\ mode \in {"mcp", "direct"}
  /\ main \in {"collect", "derive", "investigate", "reported", "died"} /\ at \in Nat
  /\ job \in [Tools -> Places]
  /\ answer \in [Tools -> Answers \cup {None}]
  /\ outputs \in [Tools -> Answers \cup {None}]
  /\ alias \in {"yes", "no"}
  /\ health \in [attempted : SUBSET Names, succeeded : SUBSET Names, failed : SUBSET Names]
  /\ told \in SUBSET Tools
  /\ line \in [selected : Nat, inapplicable : Nat, failed : Nat, producing : Nat]

MCPName(t) == <<"mcp", t>>

\* What the mark of a call over MCP says of the answer that goes on.  It is not
\* always what the docstring of call_mcp_tool says: a local parser that found
\* nothing leaves a failure; and what does not apply may leave no mark at all.
MarkFits(t) ==
  /\ ~(MCPName(t) \in health.failed /\ MCPName(t) \in health.succeeded)
  /\ MCPName(t) \in health.succeeded => answer[t] \in {"records", "empty"}
  /\ MCPName(t) \in health.failed =>
       answer[t] \in {"timeout", "error"}
         \/ (t \in LocalFallback /\ answer[t] \in {"empty", "na", "naError"})
  /\ answer[t] \in {"timeout", "error"} => Name(t) \in health.failed

\* However a call went (local parser first, retry, local parser after a crash),
\* at most one mark of it is left and the mark fits the answer that goes on; and
\* the two accounts of failures agree: what the later steps are told failed
\* (collect_tool_failures) is counted by the health line, unless the worker made
\* it of an exception; and what is counted over MCP is told, unless a local
\* parser found nothing or the answer of psscan stands in.
VerdictsMatch ==
  /\ \A t \in Tools : MarkFits(t)
  /\ \A t \in told : Name(t) \in health.failed \/ outputs[t] = "raised"
  /\ main \in {"investigate", "reported"} =>
       \A t \in Tools \ LocalFallback :
         MCPName(t) \in health.failed => t \in told \/ (t = Pstree /\ alias = "yes")

\* The report never claims more data-producing tools than there are answers in
\* all_outputs, the tools aside of which the worker made an error, which no mark
\* counts: whatever failed twice, stands in for another or was run again by Step 11
\* (run_pipeline.py, tool-health line).
NeverOverstated ==
  main = "reported" =>
    line.producing <= Cardinality({t \in Tools :
                        AllOutputs[t] \in {"records", "empty", "raised"}})

GoesAhead == {p \in Tools \X Tools :
  \/ \E i, j \in DOMAIN RawOrder : i < j /\ p = <<RawOrder[i], RawOrder[j]>>
  \/ \E i, j \in DOMAIN DerivedOrder : i < j /\ p = <<DerivedOrder[i], DerivedOrder[j]>>
  \/ p \in Raw \X Derived}

Promise == INSTANCE Collection WITH
  Ahead <- GoesAhead, added <- outputs,
  closed <- IF main \in {"investigate", "reported"} THEN "yes" ELSE "no"

\* Step 6 collects as Collection promises, in the order of the selection.
KeepsCollection == Promise!Spec

\* Where main or the call of a tool can move.
MainMovable ==
  \/ main = "collect" /\ IF mode = "mcp" THEN job[RawOrder[at]] = "done"
                         ELSE \A t \in Tools : job[t] = "done"
  \/ main = "derive" /\ (at \in DOMAIN DerivedOrder => job[DerivedOrder[at]] = "done")
  \/ main = "investigate"

InFlight == {"local", "session", "again", "fallback"}

CallMovable(t) ==
  \/ job[t] \in InFlight
  \/ job[t] = "queued" /\ (mode = "mcp" => MayStart(t))
  \/ job[t] = "later" /\ Deriving(t)

\* These guards imply what weak fairness asks about.
MainEnabled == ENABLED <<MainStep>>_vars
CallEnabled(t) == ENABLED <<CallStep(t)>>_vars

GuardsEnabled ==
  /\ MainMovable => MainEnabled
  /\ \A t \in Tools : CallMovable(t) => CallEnabled(t)

\* The report is written, or the program died, or a server hangs, for which main
\* waits without a limit.
Ended == main \in {"reported", "died"} \/ \E t \in Tools : job[t] = "hung"

\* Step 6 never waits for a call nobody will make: until it ended main can move
\* or a call can, although answers are replayed in the order of submission and
\* the pool may be smaller than the queue (the replay phase).
NoStall == Ended \/ MainMovable \/ \E t \in Tools : CallMovable(t)

\* What is left to do: the positions main has to collect, and for each call
\* the ways that are still open to it.
MainLeft ==
  IF main = "collect" THEN Len(RawOrder) - at + Len(DerivedOrder) + 4
  ELSE IF main = "derive" THEN Len(DerivedOrder) - at + 3
  ELSE IF main = "investigate" THEN 1 ELSE 0

CallLeft ==
  [later |-> 5, queued |-> 5, local |-> 4, session |-> 3, again |-> 2, fallback |-> 1,
   hung |-> 0, done |-> 0]

\* Every step of Step 6 collects an answer or takes a call one way further,
\* and no retry, crash or local parser leads back to a way already tried; what
\* Step 11 runs again itself sets nothing back.
StepsShrink ==
  [][\/ MainLeft' < MainLeft /\ UNCHANGED job
     \/ /\ MainLeft' = MainLeft
        /\ \E t \in Tools : /\ CallLeft[job[t]]' < CallLeft[job[t]]
                            /\ \A s \in Tools \ {t} : job'[s] = job[s]
     \/ main = "investigate" /\ UNCHANGED <<main, at, job>>]_vars

\* A call that was started ends unless its server hangs, whatever main and the
\* other calls do.
CallsEnd == \A t \in Tools : job[t] \in InFlight ~> job[t] \in {"done", "hung"}

\* Only a server that never answers, and an exception in the derived pass, keep
\* Step 6 from the report: no crash, no garbage, no retry, no local parser and no
\* smaller pool does (run_pipeline.py, step 6).
Step6Ends == <>Ended

=============================================================================
