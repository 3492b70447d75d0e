---------------------------- MODULE ToolRunProofs ----------------------------
(***************************************************************************)
(* Proofs about Step 6, for any tools, any workers and whatever the calls   *)
(* return: its inductive invariant, that it collects as Collection promises, *)
(* and that it reaches the report unless a server hangs or the program dies. *)
(***************************************************************************)
EXTENDS ToolRun, Descent

-----------------------------------------------------------------------------
(* The inductive invariant.  A call that is not over has left no mark, and   *)
(* what main collected is what the call returned.                           *)
Calls ==
  \A t \in Tools :
    /\ job[t] = "done" <=> answer[t] # None
    /\ job[t] # "done" => MCPName(t) \notin health.failed \cup health.succeeded
    /\ job[t] \in {"local", "fallback"} => t \in LocalFallback
    /\ outputs[t] # None => outputs[t] = answer[t]

(* How far main is.                                                         *)
InRaw ==
  /\ \A t \in Derived : outputs[t] = None
  /\ mode = "mcp" =>
       /\ at \in DOMAIN RawOrder
       /\ \A i \in DOMAIN RawOrder : outputs[RawOrder[i]] # None <=> i < at
  /\ mode = "direct" => \A t \in Tools : outputs[t] = None

InDerived ==
  /\ at \in 1..(Len(DerivedOrder) + 1)
  /\ \A t \in Raw : outputs[t] # None
  /\ \A i \in DOMAIN DerivedOrder : outputs[DerivedOrder[i]] # None <=> i < at

Progress ==
  /\ main = "collect" => InRaw
  /\ main = "derive" => InDerived
  /\ main \in {"investigate", "reported"} => \A t \in Tools : outputs[t] # None
  /\ told # {} => main \in {"investigate", "reported"}

IInv == TypeOK /\ Calls /\ Progress /\ VerdictsMatch /\ NeverOverstated

-----------------------------------------------------------------------------
(* Types and sizes. *)

LEMMA ToolsFinite == IsFiniteSet(Tools) /\ IsFiniteSet(Names)
<1>1. ASSUME NEW S, NEW seq \in Seq(S), S = {seq[i] : i \in DOMAIN seq}
      PROVE  IsFiniteSet(S)
  <2>1. DOMAIN seq = 1..Len(seq) /\ Len(seq) \in Nat
    OBVIOUS
  <2>2. IsFiniteSet(1..Len(seq))
    BY <2>1, FS_Interval
  <2>3. seq \in Surjection(1..Len(seq), S)
    BY <1>1, <2>1 DEF Surjection
  <2> QED BY <2>2, <2>3, FS_Surjection
<1>2. IsFiniteSet(Raw) /\ IsFiniteSet(Derived)
  BY <1>1, ToolRunAssumption DEF Raw, Derived
<1>3. IsFiniteSet(Tools) /\ IsFiniteSet(Tools \cup Investigating)
  BY <1>2, FS_Union, ToolRunAssumption DEF Tools
<1>4. IsFiniteSet({"mcp", "direct"})
  <2>1. IsFiniteSet({"mcp"}) /\ IsFiniteSet({"direct"})
    BY FS_Singleton
  <2>2. {"mcp", "direct"} = {"mcp"} \cup {"direct"}
    OBVIOUS
  <2> QED BY <2>1, <2>2, FS_Union
<1> QED BY <1>3, <1>4, FS_Product DEF Names

LEMMA CountsType ==
    ASSUME TypeOK
    PROVE  Counts \in [selected : Nat, inapplicable : Nat, failed : Nat, producing : Nat]
<1> DEFINE Gone == {t \in Tools : AllOutputs[t] \in Inapplicable}
<1>1. health.failed \in SUBSET Names
  BY DEF TypeOK
<1>2. Cardinality(health.failed) \in Nat
  BY <1>1, ToolsFinite, FS_Subset, FS_CardinalityType
<1>3. Gone \in SUBSET Tools
  OBVIOUS
<1>4. Cardinality(Gone) \in Nat /\ Cardinality(Tools) \in Nat
  BY <1>3, ToolsFinite, FS_Subset, FS_CardinalityType
<1> HIDE DEF Gone
<1>5. Counts = [selected |-> Cardinality(Tools), inapplicable |-> Cardinality(Gone),
                failed |-> Cardinality(health.failed),
                producing |-> IF Cardinality(Gone) + Cardinality(health.failed) > Cardinality(Tools)
                              THEN 0
                              ELSE Cardinality(Tools) - (Cardinality(Gone) + Cardinality(health.failed))]
  BY DEF Counts, Gone
<1> QED BY <1>2, <1>4, <1>5

(* What the actions that report for a tool have in common.                  *)
LEMMA NameType ==
    ASSUME TypeOK, NEW t \in Tools
    PROVE  /\ Name(t) \in Names /\ MCPName(t) \in Names
           /\ mode = "mcp" => Name(t) = MCPName(t)
           /\ \A s : Name(s) = MCPName(t) => s = t /\ mode = "mcp"
  BY DEF TypeOK, Names, Name, MCPName

LEMMA ToolsAre ==
    /\ Raw \subseteq Tools /\ Derived \subseteq Tools
    /\ \A i \in DOMAIN RawOrder : RawOrder[i] \in Raw
    /\ \A i \in DOMAIN DerivedOrder : DerivedOrder[i] \in Derived
    /\ DOMAIN RawOrder = 1..Len(RawOrder) /\ Len(RawOrder) \in Nat
    /\ DOMAIN DerivedOrder = 1..Len(DerivedOrder) /\ Len(DerivedOrder) \in Nat
    /\ Len(RawOrder) > 0
  BY ToolRunAssumption DEF Raw, Derived, Tools

-----------------------------------------------------------------------------
(* What a step of a call does: it goes on, or it ends with an answer and at  *)
(* most one mark that fits it.                                              *)
Blamed(t) ==
  {"timeout", "error"} \cup {a \in {"empty", "na", "naError"} : t \in LocalFallback}

Marked(t, a) ==
  \E A, S, F \in SUBSET {Name(t)} :
    /\ health' = [attempted |-> health.attempted \cup A,
                  succeeded |-> health.succeeded \cup S,
                  failed |-> health.failed \cup F]
    /\ S = {} \/ F = {}
    /\ F # {} /\ mode = "mcp" => a \in Blamed(t)
    /\ S # {} /\ mode = "mcp" => a \in {"records", "empty"}
    /\ a \in {"timeout", "error"} => F # {}

GoesOn(t) ==
  /\ \E p \in Places \ {"done"} :
       GoTo(t, p) /\ (p \in {"local", "fallback"} => t \in LocalFallback)
  /\ UNCHANGED health \/ Attempt(Name(t))

Ends(t) == \E a \in Answers : Settle(t, a) /\ Marked(t, a)

LEMMA MarksFit ==
    ASSUME TypeOK, NEW t \in Tools, NEW a \in Answers
    PROVE  /\ UNCHANGED health /\ a \notin {"timeout", "error"} => Marked(t, a)
           /\ Fail(Name(t)) /\ a \in Blamed(t) => Marked(t, a)
           /\ Succeed(Name(t)) /\ a \in {"records", "empty"} => Marked(t, a)
           /\ MarkRun(Name(t), a) /\ mode = "direct" /\ a \in Sent => Marked(t, a)
<1> DEFINE n == Name(t)
           H(A, S, F) == [attempted |-> health.attempted \cup A,
                          succeeded |-> health.succeeded \cup S,
                          failed |-> health.failed \cup F]
<1>1. health \in [attempted : SUBSET Names, succeeded : SUBSET Names, failed : SUBSET Names]
  BY DEF TypeOK
<1>2. /\ health = H({}, {}, {})
      /\ [health EXCEPT !.failed = @ \cup {n}] = H({}, {}, {n})
      /\ [health EXCEPT !.succeeded = @ \cup {n}] = H({}, {n}, {})
  BY <1>1
<1>3. ASSUME NEW A \in SUBSET {n}, NEW S \in SUBSET {n}, NEW F \in SUBSET {n},
             health' = H(A, S, F), S = {} \/ F = {},
             F # {} /\ mode = "mcp" => a \in Blamed(t),
             S # {} /\ mode = "mcp" => a \in {"records", "empty"},
             a \in {"timeout", "error"} => F # {}
      PROVE  Marked(t, a)
  BY <1>3 DEF Marked
<1>0. {} \in SUBSET {n} /\ {n} \in SUBSET {n} /\ {n} # {}
  OBVIOUS
<1>4. ASSUME UNCHANGED health, a \notin {"timeout", "error"} PROVE Marked(t, a)
  <2>1. health' = H({}, {}, {})
    BY <1>2, <1>4
  <2> QED BY <2>1, <1>0, <1>3, <1>4
<1>5. ASSUME Fail(Name(t)), a \in Blamed(t) PROVE Marked(t, a)
  <2>1. health' = H({}, {}, {n})
    BY <1>2, <1>5 DEF Fail
  <2> QED BY <2>1, <1>0, <1>3, <1>5
<1>6. ASSUME Succeed(Name(t)), a \in {"records", "empty"} PROVE Marked(t, a)
  <2>1. health' = H({}, {n}, {})
    BY <1>2, <1>6 DEF Succeed
  <2> QED BY <2>1, <1>0, <1>3, <1>6
<1>7. ASSUME MarkRun(Name(t), a), mode = "direct", a \in Sent PROVE Marked(t, a)
  <2>1. CASE a \in Broken \cup {"naError"}
    <3>1. health' = H({n}, {}, {n})
      BY <1>1, <1>7, <2>1 DEF MarkRun
    <3> QED BY <3>1, <1>0, <1>3, <1>7, <2>1 DEF Broken, Sent, Answers
  <2>2. CASE a \notin Broken \cup {"naError"}
    <3>1. health' = H({n}, {n}, {})
      BY <1>1, <1>7, <2>2 DEF MarkRun
    <3> QED BY <3>1, <1>0, <1>3, <1>7, <2>2 DEF Broken, Sent, Answers
  <2> QED BY <2>1, <2>2
<1> QED BY <1>4, <1>5, <1>6, <1>7

LEMMA StartGoesOn ==
    ASSUME NEW t \in Tools, StartCall(t)
    PROVE  GoesOn(t)
<1> DEFINE p == IF t \in LocalFirst THEN "local" ELSE "session"
<1>1. p \in Places \ {"done"} /\ (p \in {"local", "fallback"} => t \in LocalFallback)
  BY ToolRunAssumption DEF Places
<1>2. GoTo(t, p) /\ Attempt(Name(t))
  BY DEF StartCall
<1> QED BY <1>1, <1>2 DEF GoesOn

LEMMA CallStepForm ==
    ASSUME TypeOK, Calls, NEW t \in Tools, CallStep(t) \/ Hang(t)
    PROVE  UNCHANGED OfMain /\ job[t] # "done" /\ (GoesOn(t) \/ Ends(t))
<1>1. CASE Work(t)
  <2>1. job[t] = "queued" /\ UNCHANGED OfMain
    BY <1>1 DEF Work, MayStart, Waiting
  <2>2. CASE StartCall(t)
    BY <2>1, <2>2, StartGoesOn
  <2>3. CASE \E a \in {"na", "raised"} : Settle(t, a) /\ UNCHANGED health
    <3>1. PICK a \in {"na", "raised"} : Settle(t, a) /\ UNCHANGED health
      BY <2>3
    <3>2. a \in Answers /\ Marked(t, a)
      BY <3>1, MarksFit DEF Answers
    <3> QED BY <2>1, <3>1, <3>2 DEF Ends
  <2> QED BY <1>1, <2>2, <2>3 DEF Work, Dispatch
<1>2. CASE ParseFirst(t)
  <2>1. job[t] = "local" /\ UNCHANGED OfMain
    BY <1>2 DEF ParseFirst
  <2>2. CASE GoTo(t, "session") /\ UNCHANGED health
    BY <2>1, <2>2 DEF GoesOn, Places
  <2>3. ASSUME NEW a \in Sent, Settle(t, a), MarkLocal(t, a)
        PROVE  Ends(t)
    <3>1. t \in LocalFallback
      BY <2>1 DEF Calls
    <3> QED BY <2>3, <3>1, MarksFit DEF MarkLocal, Ends, Sent, Answers, Blamed
  <2> QED BY <1>2, <2>1, <2>2, <2>3 DEF ParseFirst
<1>3. CASE Reply(t)
  <2>1. job[t] # "done" /\ UNCHANGED OfMain
    BY <1>3 DEF Reply
  <2>2. PICK a \in Sent : Settle(t, a) /\ MarkReply(t, a)
    BY <1>3 DEF Reply
  <2>3. Marked(t, a)
    BY <2>2, MarksFit DEF MarkReply, Sent, Answers, Inapplicable, Broken, Blamed
  <2> QED BY <2>1, <2>2, <2>3 DEF Ends, Sent
<1>4. CASE Garbage(t)
  <2>1. job[t] # "done" /\ UNCHANGED OfMain
    BY <1>4 DEF Garbage
  <2>2. CASE GoTo(t, "again") /\ UNCHANGED health
    BY <2>1, <2>2 DEF GoesOn, Places
  <2>3. CASE Settle(t, "error") /\ MarkReply(t, "error")
    <3>1. "error" \in Answers /\ Marked(t, "error")
      BY <2>3, MarksFit DEF MarkReply, Sent, Answers, Inapplicable, Broken, Blamed
    <3> QED BY <2>1, <2>3, <3>1 DEF Ends
  <2> QED BY <1>4, <2>2, <2>3 DEF Garbage
<1>5. CASE Crash(t)
  <2>1. job[t] # "done" /\ UNCHANGED OfMain
    BY <1>5 DEF Crash
  <2>2. CASE t \in LocalFallback /\ GoTo(t, "fallback") /\ UNCHANGED health
    BY <2>1, <2>2 DEF GoesOn, Places
  <2>3. CASE Settle(t, "error") /\ Fail(Name(t))
    <3>1. "error" \in Answers /\ Marked(t, "error")
      BY <2>3, MarksFit DEF Blamed, Answers
    <3> QED BY <2>1, <2>3, <3>1 DEF Ends
  <2> QED BY <1>5, <2>2, <2>3 DEF Crash
<1>6. CASE ParseInstead(t)
  <2>1. job[t] = "fallback" /\ t \in LocalFallback /\ UNCHANGED OfMain
    BY <1>6 DEF ParseInstead, Calls
  <2>2. PICK a \in Sent : Settle(t, a) /\ MarkLocal(t, a)
    BY <1>6 DEF ParseInstead
  <2> QED BY <2>1, <2>2, MarksFit DEF MarkLocal, Ends, Sent, Answers, Blamed
<1>7. CASE RunDirect(t)
  <2>1. job[t] # "done" /\ mode = "direct" /\ UNCHANGED OfMain
    BY <1>7 DEF RunDirect
  <2>2. PICK a \in MayReturn(t) : Settle(t, a) /\ MarkRun(Name(t), a)
    BY <1>7 DEF RunDirect
  <2>3. a \in Sent /\ a \in Answers
    BY <2>2 DEF MayReturn, Sent, Answers
  <2> QED BY <2>1, <2>2, <2>3, MarksFit DEF Ends
<1>8. CASE Derive(t)
  <2>1. job[t] # "done" /\ UNCHANGED OfMain
    BY <1>8 DEF Derive
  <2>2. CASE StartCall(t)
    BY <2>1, <2>2, StartGoesOn
  <2>3. CASE \E a \in {"records", "empty", "na"} : Settle(t, a) /\ UNCHANGED health
    <3>1. PICK a \in {"records", "empty", "na"} : Settle(t, a) /\ UNCHANGED health
      BY <2>3
    <3>2. a \in Answers /\ Marked(t, a)
      BY <3>1, MarksFit DEF Answers
    <3> QED BY <2>1, <3>1, <3>2 DEF Ends
  <2> QED BY <1>8, <2>2, <2>3 DEF Derive
<1>9. CASE NotObject(t)
  <2>1. job[t] # "done" /\ Settle(t, "raised") /\ UNCHANGED health /\ UNCHANGED OfMain
    BY <1>9 DEF NotObject
  <2>2. "raised" \in Answers /\ Marked(t, "raised")
    BY <2>1, MarksFit DEF Answers
  <2> QED BY <2>1, <2>2 DEF Ends
<1>10. CASE Hang(t)
  BY <1>10 DEF Hang, GoesOn, Places
<1> QED BY <1>1, <1>2, <1>3, <1>4, <1>5, <1>6, <1>7, <1>8, <1>9, <1>10 DEF CallStep

-----------------------------------------------------------------------------
(* Preservation by the steps of calls.                                      *)
LEMMA OnlyName ==
    ASSUME TypeOK, NEW t \in Tools, NEW a, Marked(t, a)
    PROVE  /\ health' \in [attempted : SUBSET Names, succeeded : SUBSET Names, failed : SUBSET Names]
           /\ health.failed \subseteq health'.failed
           /\ \A s \in Tools : s # t =>
                /\ MCPName(s) \in health'.failed <=> MCPName(s) \in health.failed
                /\ MCPName(s) \in health'.succeeded <=> MCPName(s) \in health.succeeded
<1>1. PICK A, S, F \in SUBSET {Name(t)} :
        health' = [attempted |-> health.attempted \cup A,
                   succeeded |-> health.succeeded \cup S,
                   failed |-> health.failed \cup F]
  BY DEF Marked
<1>2. Name(t) \in Names /\ \A s : MCPName(s) = Name(t) => s = t
  BY NameType DEF Name, MCPName
<1>3. health'.attempted = health.attempted \cup A /\ health'.succeeded = health.succeeded \cup S
      /\ health'.failed = health.failed \cup F
  BY <1>1
<1>4. health' \in [attempted : SUBSET Names, succeeded : SUBSET Names, failed : SUBSET Names]
  BY <1>1, <1>2 DEF TypeOK
<1> QED BY <1>2, <1>3, <1>4

LEMMA CallTypes ==
    ASSUME TypeOK, NEW t \in Tools, UNCHANGED OfMain, GoesOn(t) \/ Ends(t)
    PROVE  TypeOK'
<1>1. CASE GoesOn(t)
  <2>1. PICK p \in Places : GoTo(t, p)
    BY <1>1 DEF GoesOn
  <2>2. job' \in [Tools -> Places] /\ answer' = answer
    BY <2>1 DEF GoTo, TypeOK
  <2>3. health' \in [attempted : SUBSET Names, succeeded : SUBSET Names, failed : SUBSET Names]
    BY <1>1, NameType DEF GoesOn, Attempt, TypeOK
  <2> QED BY <2>2, <2>3 DEF TypeOK, OfMain
<1>2. CASE Ends(t)
  <2>1. PICK a \in Answers : Settle(t, a) /\ Marked(t, a)
    BY <1>2 DEF Ends
  <2>2. job' \in [Tools -> Places] /\ answer' \in [Tools -> Answers \cup {None}]
    BY <2>1 DEF Settle, TypeOK, Places
  <2> QED BY <2>1, <2>2, OnlyName DEF TypeOK, OfMain
<1> QED BY <1>1, <1>2

LEMMA CallKeeps ==
    ASSUME IInv, NEW t \in Tools, CallStep(t) \/ Hang(t)
    PROVE  IInv'
<1> USE DEF IInv
<1>1. UNCHANGED OfMain /\ job[t] # "done" /\ (GoesOn(t) \/ Ends(t))
  BY CallStepForm
<1>2. TypeOK'
  BY <1>1, CallTypes
<1>3. Progress'
  BY <1>1 DEF OfMain, Progress, InRaw, InDerived
<1>4. NeverOverstated'
  BY <1>1 DEF OfMain, NeverOverstated, AllOutputs
<1>5. answer[t] = None /\ outputs[t] = None
      /\ MCPName(t) \notin health.failed \cup health.succeeded
      /\ main \notin {"investigate", "reported"}
  BY <1>1 DEF Calls, Progress
<1>6. CASE GoesOn(t)
  <2>1. PICK p \in Places \ {"done"} :
          GoTo(t, p) /\ (p \in {"local", "fallback"} => t \in LocalFallback)
    BY <1>6 DEF GoesOn
  <2>2. health'.failed = health.failed /\ health'.succeeded = health.succeeded
    BY <1>6 DEF GoesOn, Attempt, TypeOK
  <2>3. job'[t] = p /\ answer' = answer /\ \A s \in Tools : s # t => job'[s] = job[s]
    BY <2>1 DEF GoTo, TypeOK
  <2>4. Calls'
    BY <1>1, <1>5, <2>1, <2>2, <2>3 DEF Calls, OfMain, MCPName
  <2>5. VerdictsMatch'
    BY <1>1, <1>5, <2>2, <2>3 DEF VerdictsMatch, MarkFits, OfMain, MCPName, Name
  <2> QED BY <1>2, <1>3, <1>4, <2>4, <2>5
<1>7. CASE Ends(t)
  <2>1. PICK a \in Answers : Settle(t, a) /\ Marked(t, a)
    BY <1>7 DEF Ends
  <2>2. /\ job'[t] = "done" /\ answer'[t] = a /\ a # None
        /\ \A s \in Tools : s # t => job'[s] = job[s] /\ answer'[s] = answer[s]
    BY <2>1 DEF Settle, TypeOK, Answers, None
  <2>3. Calls'
    BY <1>1, <1>5, <2>1, <2>2, OnlyName DEF Calls, OfMain, MCPName
  <2>4. MarkFits(t)'
    <3>1. PICK A, S, F \in SUBSET {Name(t)} :
            /\ health' = [attempted |-> health.attempted \cup A,
                          succeeded |-> health.succeeded \cup S,
                          failed |-> health.failed \cup F]
            /\ S = {} \/ F = {}
            /\ F # {} /\ mode = "mcp" => a \in Blamed(t)
            /\ S # {} /\ mode = "mcp" => a \in {"records", "empty"}
            /\ a \in {"timeout", "error"} => F # {}
      BY <2>1 DEF Marked
    <3>2. health'.failed = health.failed \cup F /\ health'.succeeded = health.succeeded \cup S
      BY <3>1
    <3>3. MCPName(t) \in health'.failed => F # {} /\ mode = "mcp"
      BY <1>5, <3>2, NameType
    <3>4. MCPName(t) \in health'.succeeded => S # {} /\ mode = "mcp"
      BY <1>5, <3>2, NameType
    <3>5. F # {} => Name(t) \in health'.failed
      BY <3>2
    <3>6. Name(t)' = Name(t) /\ MCPName(t)' = MCPName(t)
      BY <1>1 DEF OfMain, Name, MCPName
    <3> QED BY <2>2, <3>1, <3>3, <3>4, <3>5, <3>6 DEF MarkFits, Blamed
  <2>5. ASSUME NEW s \in Tools, s # t
        PROVE  MarkFits(s)'
    BY <1>1, <2>1, <2>2, <2>5, OnlyName DEF VerdictsMatch, MarkFits, OfMain, MCPName, Name
  <2>6. \A s \in told : Name(s) \in health'.failed \/ outputs[s] = "raised"
    BY <2>1, OnlyName DEF VerdictsMatch
  <2>7. VerdictsMatch'
    BY <1>1, <1>5, <2>4, <2>5, <2>6 DEF VerdictsMatch, OfMain, Name
  <2> QED BY <1>2, <1>3, <1>4, <2>3, <2>7
<1> QED BY <1>1, <1>6, <1>7

-----------------------------------------------------------------------------
(* Preservation by the steps of main. *)

LEMMA CollectKeeps ==
    ASSUME IInv, Collect
    PROVE  IInv'
<1> USE DEF IInv
<1> DEFINE r == RawOrder[at]
<1>1. at \in DOMAIN RawOrder /\ r \in Raw /\ r \in Tools /\ r \notin Derived
  BY ToolsAre, ToolRunAssumption DEF Collect, Progress, InRaw
<1>2. answer[r] # None /\ job[r] = "done"
  BY <1>1 DEF Collect, Calls
<1>3. /\ outputs' \in [Tools -> Answers \cup {None}]
      /\ outputs'[r] = answer[r]
      /\ \A t \in Tools : t # r => outputs'[t] = outputs[t]
  BY <1>1 DEF Collect, TypeOK
<1>4. alias' \in {"yes", "no"} /\ at' \in Nat /\ main' \in {"collect", "derive"}
  BY DEF Collect, StandsIn, TypeOK
<1>5. UNCHANGED <<mode, job, answer, health, told, line>> /\ main = "collect" /\ mode = "mcp"
  BY DEF Collect
<1>6. TypeOK'
  BY <1>3, <1>4, <1>5 DEF TypeOK
<1>7. Calls'
  BY <1>3, <1>5 DEF Calls, MCPName
<1>8. told = {}
  BY <1>5 DEF Progress
<1>9. VerdictsMatch'
  BY <1>4, <1>5, <1>8 DEF VerdictsMatch, MarkFits, MCPName, Name
<1>10. NeverOverstated'
  BY <1>4 DEF NeverOverstated
<1>11. \A i \in DOMAIN RawOrder : outputs'[RawOrder[i]] # None <=> i < at + 1
  <2>1. TAKE i \in DOMAIN RawOrder
  <2>2. RawOrder[i] \in Tools /\ (RawOrder[i] = r <=> i = at)
    BY <1>1, ToolsAre, ToolRunAssumption
  <2>3. outputs[RawOrder[i]] # None <=> i < at
    BY <1>5 DEF Progress, InRaw
  <2>4. i \in Nat /\ at \in Nat
    BY <1>1, ToolsAre
  <2> QED BY <1>2, <1>3, <2>2, <2>3, <2>4
<1>12. \A t \in Derived : outputs'[t] = None
  BY <1>1, <1>3, <1>5, ToolsAre DEF Progress, InRaw
<1>13. CASE at = Len(RawOrder)
  <2>1. main' = "derive" /\ at' = 1
    BY <1>13 DEF Collect
  <2>2. \A t \in Raw : outputs'[t] # None
    BY <1>11, <1>13, ToolsAre DEF Raw
  <2>3. InDerived'
    BY <1>12, <2>1, <2>2, ToolsAre DEF InDerived
  <2> QED BY <1>5, <1>6, <1>7, <1>8, <1>9, <1>10, <2>1, <2>3 DEF Progress
<1>14. CASE at # Len(RawOrder)
  <2>1. main' = "collect" /\ at' = at + 1
    BY <1>5, <1>14 DEF Collect
  <2>2. at' \in DOMAIN RawOrder
    BY <1>1, <1>14, <2>1, ToolsAre
  <2>3. InRaw'
    BY <1>5, <1>11, <1>12, <2>1, <2>2 DEF InRaw
  <2> QED BY <1>5, <1>6, <1>7, <1>8, <1>9, <1>10, <2>1, <2>3 DEF Progress
<1> QED BY <1>13, <1>14

LEMMA CollectDirectKeeps ==
    ASSUME IInv, CollectDirect
    PROVE  IInv'
<1> USE DEF IInv
<1>1. UNCHANGED <<mode, job, answer, health, told, line>> /\ main = "collect" /\ main' = "derive"
      /\ outputs' = answer /\ at' = Len(DerivedOrder) + 1
  BY DEF CollectDirect
<1>2. \A t \in Tools : answer[t] # None
  BY DEF CollectDirect, Calls
<1>3. alias' \in {"yes", "no"} /\ at' \in Nat
  BY <1>1, ToolsAre DEF CollectDirect, StandsIn
<1>4. TypeOK' /\ Calls'
  BY <1>1, <1>3 DEF TypeOK, Calls, MCPName
<1>5. told = {}
  BY <1>1 DEF Progress
<1>6. VerdictsMatch' /\ NeverOverstated'
  BY <1>1, <1>5 DEF VerdictsMatch, MarkFits, MCPName, Name, NeverOverstated
<1>7. InDerived'
  BY <1>1, <1>2, ToolsAre DEF InDerived
<1> QED BY <1>1, <1>4, <1>5, <1>6, <1>7 DEF Progress

LEMMA CollectDerivedKeeps ==
    ASSUME IInv, CollectDerived
    PROVE  IInv'
<1> USE DEF IInv
<1> DEFINE d == DerivedOrder[at]
<1>1. at \in DOMAIN DerivedOrder /\ d \in Derived /\ d \in Tools /\ d \notin Raw
  BY ToolsAre, ToolRunAssumption DEF CollectDerived
<1>2. answer[d] # None
  BY <1>1 DEF CollectDerived, Calls
<1>3. /\ outputs' \in [Tools -> Answers \cup {None}]
      /\ outputs'[d] = answer[d]
      /\ \A t \in Tools : t # d => outputs'[t] = outputs[t]
  BY <1>1 DEF CollectDerived, TypeOK
<1>4. UNCHANGED <<mode, main, job, answer, alias, health, told, line>> /\ main = "derive"
      /\ at' = at + 1
  BY DEF CollectDerived
<1>5. TypeOK'
  BY <1>3, <1>4 DEF TypeOK
<1>6. Calls'
  BY <1>3, <1>4 DEF Calls, MCPName
<1>7. told = {}
  BY <1>4 DEF Progress
<1>8. VerdictsMatch' /\ NeverOverstated'
  BY <1>4, <1>7 DEF VerdictsMatch, MarkFits, MCPName, Name, NeverOverstated
<1>9. \A i \in DOMAIN DerivedOrder : outputs'[DerivedOrder[i]] # None <=> i < at + 1
  <2>1. TAKE i \in DOMAIN DerivedOrder
  <2>2. DerivedOrder[i] \in Tools /\ (DerivedOrder[i] = d <=> i = at)
    BY <1>1, ToolsAre, ToolRunAssumption
  <2>3. outputs[DerivedOrder[i]] # None <=> i < at
    BY <1>4 DEF Progress, InDerived
  <2>4. i \in Nat /\ at \in Nat
    BY <1>1, ToolsAre
  <2> QED BY <1>2, <1>3, <2>2, <2>3, <2>4
<1>10. \A t \in Raw : outputs'[t] # None
  BY <1>1, <1>3, <1>4, ToolsAre DEF Progress, InDerived
<1>11. InDerived'
  BY <1>1, <1>4, <1>9, <1>10, ToolsAre DEF InDerived
<1> QED BY <1>4, <1>5, <1>6, <1>7, <1>8, <1>11 DEF Progress

LEMMA DieKeeps ==
    ASSUME IInv, Die
    PROVE  IInv'
<1>1. UNCHANGED <<mode, at, job, answer, outputs, alias, health, told, line>>
      /\ main = "derive" /\ main' = "died"
  BY DEF Die
<1>2. TypeOK' /\ Calls' /\ Progress'
  BY <1>1 DEF IInv, TypeOK, Calls, Progress, MCPName
<1>3. VerdictsMatch' /\ NeverOverstated'
  BY <1>1 DEF IInv, Progress, VerdictsMatch, MarkFits, NeverOverstated, MCPName, Name
<1> QED BY <1>2, <1>3 DEF IInv

LEMMA AllCollected ==
    ASSUME IInv, main = "derive", at > Len(DerivedOrder)
    PROVE  \A t \in Tools : outputs[t] # None
<1>1. \A t \in Raw : outputs[t] # None
  BY DEF IInv, Progress, InDerived
<1>2. ASSUME NEW i \in DOMAIN DerivedOrder
      PROVE  outputs[DerivedOrder[i]] # None
  <2>1. i < at
    BY <1>2, ToolsAre DEF IInv, TypeOK
  <2> QED BY <2>1 DEF IInv, Progress, InDerived
<1> QED BY <1>1, <1>2 DEF Tools, Derived

LEMMA CloseKeeps ==
    ASSUME IInv, Close
    PROVE  IInv'
<1> USE DEF IInv
<1>1. UNCHANGED <<mode, at, job, answer, outputs, alias, health, line>>
      /\ told' = Failures /\ main' = "investigate"
  BY DEF Close
<1>2. TypeOK' /\ Calls' /\ NeverOverstated'
  BY <1>1 DEF TypeOK, Calls, NeverOverstated, Failures, MCPName
<1>3. \A t \in Tools : outputs[t] # None
  BY AllCollected DEF Close
<1>4. ASSUME NEW t \in Failures
      PROVE  Name(t) \in health.failed \/ outputs[t] = "raised"
  <2>1. t \in Tools /\ outputs[t] \in Broken /\ outputs[t] = answer[t]
    BY <1>3, <1>4 DEF Failures, AllOutputs, Calls, Broken
  <2> QED BY <2>1 DEF Broken, VerdictsMatch, MarkFits
<1>5. ASSUME NEW t \in Tools \ LocalFallback, MCPName(t) \in health.failed
      PROVE  t \in Failures \/ (t = Pstree /\ alias = "yes")
  <2>1. outputs[t] \in {"timeout", "error"}
    BY <1>3, <1>5 DEF VerdictsMatch, MarkFits, Calls
  <2> QED BY <2>1 DEF Failures, AllOutputs, Broken
<1>6. VerdictsMatch'
  <2>1. \A t \in Tools : MarkFits(t)'
    BY <1>1 DEF VerdictsMatch, MarkFits, Name, MCPName
  <2> QED BY <1>1, <1>4, <1>5, <2>1 DEF VerdictsMatch, Name, MCPName
<1> QED BY <1>1, <1>2, <1>3, <1>6 DEF Progress

LEMMA InvestigateKeeps ==
    ASSUME IInv, NEW t \in Investigating, Investigate(t)
    PROVE  IInv'
<1> USE DEF IInv
<1> DEFINE n == <<"direct", t>>
<1>1. UNCHANGED <<mode, main, at, job, answer, outputs, alias, told, line>>
  BY DEF Investigate
<1>2. PICK a \in MayReturn(t) : MarkRun(n, a)
  BY DEF Investigate
<1>3. n \in Names /\ \A s : MCPName(s) # n
  BY DEF Names, MCPName
<1>4. /\ health' \in [attempted : SUBSET Names, succeeded : SUBSET Names, failed : SUBSET Names]
      /\ health.failed \subseteq health'.failed
      /\ health'.failed \subseteq health.failed \cup {n}
      /\ health'.succeeded \subseteq health.succeeded \cup {n}
  <2>1. CASE a \in Broken \cup {"naError"}
    <3>1. health' = [health EXCEPT !.attempted = @ \cup {n}, !.failed = @ \cup {n}]
      BY <1>2, <2>1 DEF MarkRun, TypeOK
    <3> QED BY <1>3, <3>1 DEF TypeOK
  <2>2. CASE a \notin Broken \cup {"naError"}
    <3>1. health' = [health EXCEPT !.attempted = @ \cup {n}, !.succeeded = @ \cup {n}]
      BY <1>2, <2>2 DEF MarkRun, TypeOK
    <3> QED BY <1>3, <3>1 DEF TypeOK
  <2> QED BY <2>1, <2>2
<1>5. TypeOK'
  BY <1>1, <1>4 DEF TypeOK
<1>6. Calls' /\ Progress'
  BY <1>1, <1>3, <1>4 DEF Calls, Progress, InRaw, InDerived, MCPName
<1>7. VerdictsMatch'
  <2>1. ASSUME NEW s \in Tools
        PROVE  MarkFits(s)'
    <3>1. /\ MCPName(s) \in health'.failed => MCPName(s) \in health.failed
          /\ MCPName(s) \in health'.succeeded => MCPName(s) \in health.succeeded
          /\ Name(s) \in health.failed => Name(s) \in health'.failed
      BY <1>3, <1>4
    <3>2. MCPName(s)' = MCPName(s) /\ Name(s)' = Name(s) /\ answer'[s] = answer[s]
      BY <1>1 DEF MCPName, Name
    <3> QED BY <3>1, <3>2 DEF VerdictsMatch, MarkFits
  <2>2. \A s \in told : Name(s) \in health'.failed \/ outputs[s] = "raised"
    BY <1>4 DEF VerdictsMatch
  <2>3. \A s \in Tools : MCPName(s) \in health'.failed => MCPName(s) \in health.failed
    BY <1>3, <1>4
  <2> QED BY <1>1, <2>1, <2>2, <2>3 DEF VerdictsMatch, Name, MCPName
<1>8. NeverOverstated'
  BY <1>1 DEF NeverOverstated, AllOutputs
<1> QED BY <1>5, <1>6, <1>7, <1>8

(* Whoever timed out or failed is marked under a name of its own, so the     *)
(* failures counted are at least as many as the tools that failed.          *)
LEMMA FailuresCover ==
    ASSUME IInv, \A t \in Tools : outputs[t] # None
    PROVE  Cardinality({t \in Tools : AllOutputs[t] \in {"timeout", "error"}})
             <= Cardinality(health.failed)
<1> USE DEF IInv
<1> DEFINE B == {t \in Tools : AllOutputs[t] \in {"timeout", "error"}}
           f == [t \in B |-> Name(t)]
<1>1. IsFiniteSet(health.failed)
  BY ToolsFinite, FS_Subset DEF TypeOK
<1>2. ASSUME NEW t \in B
      PROVE  Name(t) \in health.failed
  <2>1. answer[t] \in {"timeout", "error"}
    BY <1>2 DEF AllOutputs, Calls
  <2> QED BY <2>1 DEF VerdictsMatch, MarkFits
<1>3. \A s, t \in B : Name(s) = Name(t) => s = t
  BY DEF Name
<1>4. f \in Injection(B, health.failed)
  <2>1. f \in [B -> health.failed] /\ \A t \in B : f[t] = Name(t)
    BY <1>2
  <2>2. \A s, t \in B : f[s] = f[t] => s = t
    BY <1>3, <2>1
  <2> HIDE DEF B, f
  <2> QED BY <2>1, <2>2 DEF Injection, IsInjective
<1> HIDE DEF B, f
<1> QED BY <1>1, <1>4, FS_Injection DEF B

LEMMA UnionBound ==
    ASSUME NEW S, NEW T, IsFiniteSet(S), IsFiniteSet(T)
    PROVE  /\ IsFiniteSet(S \cup T)
           /\ Cardinality(S) \in Nat /\ Cardinality(T) \in Nat /\ Cardinality(S \cup T) \in Nat
           /\ Cardinality(S \cup T) <= Cardinality(S) + Cardinality(T)
<1>1. IsFiniteSet(S \cap T)
  BY FS_Subset
<1>2. Cardinality(S \cap T) \in Nat /\ IsFiniteSet(S \cup T)
  BY <1>1, FS_CardinalityType, FS_Union
<1>3. Cardinality(S) \in Nat /\ Cardinality(T) \in Nat /\ Cardinality(S \cup T) \in Nat
  BY <1>2, FS_CardinalityType
<1>4. Cardinality(S \cup T) = Cardinality(S) + Cardinality(T) - Cardinality(S \cap T)
  BY FS_Union
<1> QED BY <1>2, <1>3, <1>4

LEMMA ReportKeeps ==
    ASSUME IInv, Report
    PROVE  IInv'
<1> USE DEF IInv
<1>1. UNCHANGED <<mode, at, job, answer, outputs, alias, health, told>>
      /\ main = "investigate" /\ main' = "reported" /\ line' = Counts
  BY DEF Report
<1>2. \A t \in Tools : outputs[t] # None
  BY <1>1 DEF Progress
<1>3. TypeOK' /\ Calls' /\ Progress' /\ VerdictsMatch'
  BY <1>1, <1>2, CountsType
     DEF TypeOK, Calls, Progress, VerdictsMatch, MarkFits, MCPName, Name
<1>4. NeverOverstated'
  <2> DEFINE G == {t \in Tools : AllOutputs[t] \in {"records", "empty", "raised"}}
             I == {t \in Tools : AllOutputs[t] \in Inapplicable}
             B == {t \in Tools : AllOutputs[t] \in {"timeout", "error"}}
             F == health.failed
  <2>1. Tools = (G \cup I) \cup B
    BY <1>2 DEF TypeOK, AllOutputs, Answers, Inapplicable, None
  <2>2. IsFiniteSet(G) /\ IsFiniteSet(I) /\ IsFiniteSet(B) /\ IsFiniteSet(F)
    <3>1. G \in SUBSET Tools /\ I \in SUBSET Tools /\ B \in SUBSET Tools /\ F \in SUBSET Names
      BY DEF TypeOK
    <3> QED BY <3>1, ToolsFinite, FS_Subset
  <2>3. Cardinality(B) <= Cardinality(F)
    BY <1>2, FailuresCover
  <2>4. line'.producing = IF Cardinality(I) + Cardinality(F) > Cardinality(Tools) THEN 0
                          ELSE Cardinality(Tools) - (Cardinality(I) + Cardinality(F))
    BY <1>1 DEF Counts
  <2>5. G' = G
    BY <1>1 DEF AllOutputs
  <2> HIDE DEF G, I, B, F
  <2>6. /\ Cardinality(Tools) <= Cardinality(G \cup I) + Cardinality(B)
        /\ Cardinality(G \cup I) <= Cardinality(G) + Cardinality(I)
        /\ Cardinality(G \cup I) \in Nat /\ Cardinality(G) \in Nat /\ Cardinality(I) \in Nat
        /\ Cardinality(B) \in Nat /\ Cardinality(Tools) \in Nat /\ Cardinality(F) \in Nat
    <3>1. IsFiniteSet(G \cup I)
      BY <2>2, UnionBound
    <3> QED BY <2>1, <2>2, <3>1, UnionBound, FS_CardinalityType
  <2>7. line'.producing <= Cardinality(G)
    BY <2>3, <2>4, <2>6
  <2> QED BY <2>5, <2>7 DEF NeverOverstated, G
<1> QED BY <1>3, <1>4

-----------------------------------------------------------------------------
(* The theorems. *)

LEMMA Invariant == Spec => []IInv
<1>1. Init => IInv
  <2> SUFFICES ASSUME Init PROVE IInv
    OBVIOUS
  <2>1. TypeOK
    BY DEF Init, TypeOK, NoLine, Places
  <2>2. Calls
    BY DEF Init, Calls, None, MCPName
  <2>3. Progress
    BY ToolsAre DEF Init, Progress, InRaw
  <2>4. VerdictsMatch /\ NeverOverstated
    BY DEF Init, VerdictsMatch, MarkFits, NeverOverstated, None, MCPName, Name
  <2> QED BY <2>1, <2>2, <2>3, <2>4 DEF IInv
<1>2. IInv /\ [Next]_vars => IInv'
  <2> SUFFICES ASSUME IInv, [Next]_vars PROVE IInv'
    OBVIOUS
  <2>1. CASE MainStep
    BY <2>1, CollectKeeps, CollectDirectKeeps, CollectDerivedKeeps, DieKeeps, CloseKeeps, ReportKeeps
       DEF MainStep
  <2>2. ASSUME NEW t \in Tools, CallStep(t) \/ Hang(t) PROVE IInv'
    BY <2>2, CallKeeps
  <2>3. ASSUME NEW t \in Investigating, Investigate(t) PROVE IInv'
    BY <2>3, InvestigateKeeps
  <2>4. CASE UNCHANGED vars
    BY <2>4 DEF vars, IInv, TypeOK, Calls, Progress, InRaw, InDerived, VerdictsMatch,
                MarkFits, NeverOverstated, AllOutputs, MCPName, Name
  <2> QED BY <2>1, <2>2, <2>3, <2>4 DEF Next
<1> QED BY <1>1, <1>2, PTL DEF Spec

(* Step 6 keeps its types, and the clamped counts are never negative.       *)
THEOREM TypeTheorem == Spec => []TypeOK
  BY Invariant, PTL DEF IInv

(* Whatever a call went through, it leaves at most one mark, which fits its  *)
(* answer, and the failures counted and told differ only as said there.     *)
THEOREM VerdictTheorem == Spec => []VerdictsMatch
  BY Invariant, PTL DEF IInv

(* The report never claims more data-producing tools than there are answers. *)
THEOREM OverstatedTheorem == Spec => []NeverOverstated
  BY Invariant, PTL DEF IInv

-----------------------------------------------------------------------------
(* Step 6 implements Collection. *)

Shut == IF main \in {"investigate", "reported"} THEN "yes" ELSE "no"

LEMMA CollectAdds ==
    ASSUME IInv, Collect
    PROVE  Promise!Next
<1> USE DEF IInv
<1> DEFINE r == RawOrder[at]
<1>1. at \in DOMAIN RawOrder /\ r \in Raw /\ r \in Tools /\ r \notin Derived
  BY ToolsAre, ToolRunAssumption DEF Collect, Progress, InRaw
<1>2. main = "collect" /\ main' \in {"collect", "derive"}
  BY DEF Collect
<1>3. outputs[r] = None
  <2>1. outputs[r] # None <=> at < at
    BY <1>1, <1>2 DEF Collect, Progress, InRaw
  <2>2. at \in Int
    BY <1>1, ToolsAre
  <2> QED BY <2>1, <2>2
<1>4. \A s \in Promise!Missing : <<s, r>> \in GoesAhead => s \in {r}
  <2> SUFFICES ASSUME NEW s \in Promise!Missing, <<s, r>> \in GoesAhead PROVE FALSE
    OBVIOUS
  <2>1. outputs[s] = None
    BY DEF Promise!Missing
  <2>2. CASE \E i, j \in DOMAIN RawOrder : i < j /\ <<s, r>> = <<RawOrder[i], RawOrder[j]>>
    <3>1. PICK i, j \in DOMAIN RawOrder : i < j /\ s = RawOrder[i] /\ r = RawOrder[j]
      BY <2>2
    <3>2. j = at
      BY <1>1, <3>1, ToolRunAssumption
    <3> QED BY <2>1, <3>1, <3>2 DEF Collect, Progress, InRaw
  <2>3. CASE \E i, j \in DOMAIN DerivedOrder : i < j /\ <<s, r>> = <<DerivedOrder[i], DerivedOrder[j]>>
    BY <1>1, <2>3, ToolsAre
  <2>4. CASE <<s, r>> \in Raw \X Derived
    BY <1>1, <2>4
  <2> QED BY <2>2, <2>3, <2>4 DEF GoesAhead
<1>5. /\ outputs' \in [Tools -> Answers \cup {None}]
      /\ outputs'[r] # None /\ \A t \in Tools : t # r => outputs'[t] = outputs[t]
  BY <1>1 DEF Collect, TypeOK, Calls
<1>6. Promise!Add({r})
  BY <1>2, <1>4, <1>5 DEF Promise!Add
<1>7. {r} \in SUBSET Promise!Missing /\ {r} # {}
  BY <1>1, <1>3 DEF Promise!Missing
<1> QED BY <1>6, <1>7 DEF Promise!Next

LEMMA CollectDirectAdds ==
    ASSUME IInv, CollectDirect
    PROVE  Promise!Next
<1> USE DEF IInv
<1>1. main = "collect" /\ main' = "derive" /\ outputs' = answer
  BY DEF CollectDirect
<1>2. Promise!Missing = Tools
  BY DEF Promise!Missing, CollectDirect, Progress, InRaw
<1>3. outputs' \in [Tools -> Answers \cup {None}] /\ \A t \in Tools : outputs'[t] # None
  BY <1>1 DEF CollectDirect, TypeOK, Calls
<1>4. Promise!Add(Tools)
  BY <1>1, <1>2, <1>3 DEF Promise!Add
<1>5. Tools # {}
  BY ToolsAre
<1> QED BY <1>2, <1>4, <1>5 DEF Promise!Next

LEMMA CollectDerivedAdds ==
    ASSUME IInv, CollectDerived
    PROVE  Promise!Next
<1> USE DEF IInv
<1> DEFINE d == DerivedOrder[at]
<1>1. at \in DOMAIN DerivedOrder /\ d \in Derived /\ d \in Tools /\ d \notin Raw
  BY ToolsAre, ToolRunAssumption DEF CollectDerived
<1>2. main = "derive" /\ main' = "derive"
  BY DEF CollectDerived
<1>3. outputs[d] = None
  BY <1>1, <1>2, ToolsAre DEF Progress, InDerived, TypeOK
<1>4. \A s \in Promise!Missing : <<s, d>> \in GoesAhead => s \in {d}
  <2> SUFFICES ASSUME NEW s \in Promise!Missing, <<s, d>> \in GoesAhead PROVE FALSE
    OBVIOUS
  <2>1. outputs[s] = None
    BY DEF Promise!Missing
  <2>2. CASE \E i, j \in DOMAIN DerivedOrder : i < j /\ <<s, d>> = <<DerivedOrder[i], DerivedOrder[j]>>
    <3>1. PICK i, j \in DOMAIN DerivedOrder : i < j /\ s = DerivedOrder[i] /\ d = DerivedOrder[j]
      BY <2>2
    <3>2. j = at
      BY <1>1, <3>1, ToolRunAssumption
    <3> QED BY <1>2, <2>1, <3>1, <3>2 DEF Progress, InDerived
  <2>3. CASE \E i, j \in DOMAIN RawOrder : i < j /\ <<s, d>> = <<RawOrder[i], RawOrder[j]>>
    BY <1>1, <2>3, ToolsAre
  <2>4. CASE <<s, d>> \in Raw \X Derived
    BY <1>2, <2>1, <2>4 DEF Progress, InDerived
  <2> QED BY <2>2, <2>3, <2>4 DEF GoesAhead
<1>5. /\ outputs' \in [Tools -> Answers \cup {None}]
      /\ outputs'[d] # None /\ \A t \in Tools : t # d => outputs'[t] = outputs[t]
  BY <1>1 DEF CollectDerived, TypeOK, Calls
<1>6. Promise!Add({d})
  BY <1>2, <1>4, <1>5 DEF Promise!Add
<1>7. {d} \in SUBSET Promise!Missing /\ {d} # {}
  BY <1>1, <1>3 DEF Promise!Missing
<1> QED BY <1>6, <1>7 DEF Promise!Next

LEMMA CloseCloses ==
    ASSUME IInv, Close
    PROVE  Promise!Next
<1>1. \A t \in Tools : outputs[t] # None
  BY AllCollected DEF Close
<1>2. Promise!Missing = {}
  BY <1>1 DEF Promise!Missing
<1>3. main = "derive" /\ main' = "investigate" /\ UNCHANGED outputs
  BY DEF Close
<1> QED BY <1>2, <1>3 DEF Promise!Next, Promise!Close

(* Answers are collected in the order of the selection and never change.     *)
THEOREM CollectionTheorem == Spec => KeepsCollection
<1>1. Init => Promise!Init
  BY DEF Init, Promise!Init
<1>2. IInv /\ [Next]_vars => [Promise!Next]_(Promise!vars)
  <2> SUFFICES ASSUME IInv, [Next]_vars PROVE [Promise!Next]_(Promise!vars)
    OBVIOUS
  <2>1. ASSUME UNCHANGED outputs, Shut' = Shut PROVE UNCHANGED Promise!vars
    BY <2>1 DEF Promise!vars, Shut
  <2>2. CASE MainStep
    <3>1. CASE Report
      BY <2>1, <3>1 DEF Report, Shut
    <3>2. CASE Die
      BY <2>1, <3>2 DEF Die, Shut
    <3> QED BY <2>2, <3>1, <3>2, CollectAdds, CollectDirectAdds, CollectDerivedAdds, CloseCloses
        DEF MainStep
  <2>3. ASSUME NEW t \in Tools, CallStep(t) \/ Hang(t) PROVE UNCHANGED Promise!vars
    BY <2>1, <2>3, CallStepForm DEF IInv, OfMain, Shut
  <2>4. ASSUME NEW t \in Investigating, Investigate(t) PROVE UNCHANGED Promise!vars
    BY <2>1, <2>4 DEF Investigate, Shut
  <2>5. CASE UNCHANGED vars
    BY <2>1, <2>5 DEF vars, Shut
  <2> QED BY <2>2, <2>3, <2>4, <2>5 DEF Next
<1> QED BY <1>1, <1>2, Invariant, PTL DEF Spec, KeepsCollection, Promise!Spec

-----------------------------------------------------------------------------
(* Step 6 gets nearer its end. *)

(* Only a derived tool waits for main, over MCP, and only there is it not in *)
(* the queue; without MCP main collects everything at once.                 *)
Kept ==
  /\ mode = "direct" /\ main = "collect" => at = 1
  /\ \A t \in Tools :
       /\ job[t] = "later" => t \in Derived /\ mode = "mcp"
       /\ t \in Derived /\ mode = "mcp" => job[t] # "queued"

LEMMA CallLeftValues ==
    /\ CallLeft["later"] = 5 /\ CallLeft["queued"] = 5 /\ CallLeft["local"] = 4
    /\ CallLeft["session"] = 3 /\ CallLeft["again"] = 2 /\ CallLeft["fallback"] = 1
    /\ CallLeft["hung"] = 0 /\ CallLeft["done"] = 0
  BY DEF CallLeft

(* The ways a call takes.                                                   *)
Onward ==
  {"later", "queued"} \X {"local", "session", "done"}
    \cup {"local"} \X {"session", "done"} \cup {"session"} \X {"again", "fallback", "hung", "done"}
    \cup {"again"} \X {"fallback", "hung", "done"} \cup {"fallback"} \X {"done"}

LEMMA OnwardIsLess ==
    ASSUME NEW p, NEW q, <<p, q>> \in Onward
    PROVE  CallLeft[p] \in Nat /\ CallLeft[q] \in Nat /\ CallLeft[q] < CallLeft[p]
  BY CallLeftValues DEF Onward

LEMMA CallMoves ==
    ASSUME TypeOK, Calls, NEW t \in Tools, CallStep(t) \/ Hang(t)
    PROVE  /\ UNCHANGED OfMain
           /\ \E p \in Places : job' = [job EXCEPT ![t] = p] /\ <<job[t], p>> \in Onward
<1> USE DEF Places
<1>1. UNCHANGED OfMain
  BY CallStepForm
<1>2. ASSUME StartCall(t), job[t] \in {"later", "queued"}
      PROVE  \E p \in Places : job' = [job EXCEPT ![t] = p] /\ <<job[t], p>> \in Onward
  BY <1>2 DEF StartCall, GoTo, Onward
<1>3. ASSUME NEW a, Settle(t, a), job[t] \in {"later", "queued"} \cup InFlight
      PROVE  \E p \in Places : job' = [job EXCEPT ![t] = p] /\ <<job[t], p>> \in Onward
  BY <1>3 DEF Settle, InFlight, Onward
<1>4. CASE Work(t)
  BY <1>2, <1>3, <1>4 DEF Work, MayStart, Waiting, Dispatch
<1>5. CASE ParseFirst(t)
  BY <1>3, <1>5 DEF ParseFirst, GoTo, InFlight, Onward
<1>6. CASE Reply(t)
  BY <1>3, <1>6 DEF Reply, InFlight
<1>7. CASE Garbage(t)
  BY <1>3, <1>7 DEF Garbage, GoTo, InFlight, Onward
<1>8. CASE Crash(t)
  BY <1>3, <1>8 DEF Crash, GoTo, InFlight, Onward
<1>9. CASE ParseInstead(t)
  BY <1>3, <1>9 DEF ParseInstead, InFlight
<1>10. CASE RunDirect(t)
  BY <1>3, <1>10 DEF RunDirect
<1>11. CASE Derive(t)
  BY <1>2, <1>3, <1>11 DEF Derive
<1>12. CASE NotObject(t)
  BY <1>3, <1>12 DEF NotObject, InFlight
<1>13. CASE Hang(t)
  BY <1>13 DEF Hang, GoTo, Onward
<1> QED BY <1>1, <1>4, <1>5, <1>6, <1>7, <1>8, <1>9, <1>10, <1>11, <1>12, <1>13 DEF CallStep

LEMMA KeptAlways == Spec => []Kept
<1>1. Init => Kept
  BY DEF Init, Kept
<1>2. IInv /\ Kept /\ [Next]_vars => Kept'
  <2> SUFFICES ASSUME IInv, Kept, [Next]_vars PROVE Kept'
    OBVIOUS
  <2>1. CASE MainStep \/ (\E t \in Investigating : Investigate(t)) \/ UNCHANGED vars
    <3>1. UNCHANGED <<mode, job>>
          /\ (mode = "direct" /\ main' = "collect" => main = "collect" /\ at' = at)
      BY <2>1 DEF MainStep, Collect, CollectDirect, CollectDerived, Die, Close, Report,
                  Investigate, vars
    <3> QED BY <3>1 DEF Kept
  <2>2. ASSUME NEW t \in Tools, CallStep(t) \/ Hang(t) PROVE Kept'
    <3>1. PICK p \in Places : job' = [job EXCEPT ![t] = p] /\ <<job[t], p>> \in Onward
      BY <2>2, CallMoves DEF IInv
    <3>2. UNCHANGED <<mode, main, at>>
      BY <2>2, CallMoves DEF IInv, OfMain
    <3>3. p \notin {"later", "queued"}
      BY <3>1 DEF Onward
    <3> QED BY <3>1, <3>2, <3>3 DEF Kept, IInv, TypeOK
  <2> QED BY <2>1, <2>2 DEF Next
<1> QED BY <1>1, <1>2, Invariant, PTL DEF Spec

(* The head of the queue can start when no call runs.                       *)
LEMMA HeadStarts ==
    ASSUME Busy = {}, Waiting \cap Raw # {}
    PROVE  \E t \in Raw : MayStart(t)
<1> DEFINE S == {i \in DOMAIN RawOrder : RawOrder[i] \in Waiting}
<1>1. S \in SUBSET Nat /\ S # {}
  BY ToolsAre DEF Raw
<1>2. PICK i \in S : \A j \in S : ~(j < i)
  BY <1>1, FirstOf
<1>3. Cardinality(Busy) < Workers
  BY FS_EmptySet, ToolRunAssumption
<1>4. \A k, j \in DOMAIN RawOrder :
         RawOrder[k] = RawOrder[i] /\ j < k => RawOrder[j] \notin Waiting
  BY <1>2, ToolRunAssumption
<1> QED BY <1>2, <1>3, <1>4, ToolsAre DEF MayStart

(* Until Step 6 ended main or a call can move, for any queue and any number *)
(* of workers.                                                              *)
THEOREM NoStallTheorem == Spec => []NoStall
<1>1. IInv /\ Kept => NoStall
  <2> SUFFICES ASSUME IInv, Kept, ~Ended, ~MainMovable
               PROVE  \E t \in Tools : CallMovable(t)
    BY DEF NoStall
  <2> USE DEF IInv
  <2>1. \A t \in Tools : job[t] \in {"later", "queued", "done"} \cup InFlight
    BY DEF TypeOK, Places, InFlight, Ended
  <2>2. CASE main = "derive"
    <3>1. at \in DOMAIN DerivedOrder /\ job[DerivedOrder[at]] # "done"
      BY <2>2 DEF MainMovable
    <3>2. DerivedOrder[at] \in Derived /\ DerivedOrder[at] \in Tools
      BY <3>1, ToolsAre
    <3> QED BY <2>1, <2>2, <3>1, <3>2 DEF CallMovable, Deriving, Kept, TypeOK
  <2>3. CASE main = "collect" /\ mode = "direct"
    <3>1. PICK t \in Tools : job[t] # "done"
      BY <2>3 DEF MainMovable
    <3> QED BY <2>1, <2>3, <3>1 DEF CallMovable, Kept
  <2>4. CASE main = "collect" /\ mode = "mcp"
    <3>1. at \in DOMAIN RawOrder /\ job[RawOrder[at]] # "done"
      BY <2>4 DEF MainMovable, Progress, InRaw
    <3>2. RawOrder[at] \in Raw /\ RawOrder[at] \in Tools
      BY <3>1, ToolsAre
    <3>3. \A t \in Raw : job[t] # "later"
      BY ToolRunAssumption, ToolsAre DEF Kept
    <3>4. ASSUME NEW t \in Busy PROVE CallMovable(t) /\ t \in Tools
      BY <2>1, <3>3, <3>4, ToolsAre DEF Busy, CallMovable
    <3>5. CASE Busy = {}
      <4>1. RawOrder[at] \in Waiting
        BY <2>1, <3>1, <3>2, <3>3, <3>5 DEF Busy, Waiting
      <4>2. PICK t \in Raw : MayStart(t)
        BY <3>2, <3>5, <4>1, HeadStarts
      <4> QED BY <4>2, ToolsAre DEF CallMovable, MayStart, Waiting
    <3> QED BY <3>4, <3>5
  <2> QED BY <2>2, <2>3, <2>4 DEF TypeOK, MainMovable, Ended
<1> QED BY <1>1, Invariant, KeptAlways, PTL

LEMMA MainShrinks ==
    ASSUME IInv, Kept, MainStep
    PROVE  MainLeft' < MainLeft /\ UNCHANGED job
<1> USE DEF IInv
<1>1. at \in Nat /\ Len(RawOrder) \in Nat /\ Len(DerivedOrder) \in Nat /\ Len(RawOrder) > 0
  BY ToolsAre DEF TypeOK
<1>2. CASE Collect
  <2>1. at \in 1..Len(RawOrder) /\ main = "collect" /\ UNCHANGED job
    BY <1>2, ToolsAre DEF Collect, Progress, InRaw
  <2>2. \/ main' = "derive" /\ at' = 1
        \/ main' = "collect" /\ at' = at + 1
    BY <1>2, <2>1 DEF Collect
  <2> QED BY <1>1, <2>1, <2>2 DEF MainLeft
<1>3. CASE CollectDirect
  <2>1. main = "collect" /\ main' = "derive" /\ at' = Len(DerivedOrder) + 1 /\ UNCHANGED job
    BY <1>3 DEF CollectDirect
  <2>2. at = 1
    BY <1>3 DEF CollectDirect, Kept
  <2> QED BY <1>1, <2>1, <2>2 DEF MainLeft
<1>4. CASE CollectDerived
  <2>1. main = "derive" /\ main' = "derive" /\ at' = at + 1 /\ UNCHANGED job
    BY <1>4 DEF CollectDerived
  <2> QED BY <1>1, <2>1 DEF MainLeft
<1>5. CASE Close
  <2>1. main = "derive" /\ main' = "investigate" /\ at <= Len(DerivedOrder) + 1 /\ UNCHANGED job
    BY <1>5, ToolsAre DEF Close, Progress, InDerived
  <2> QED BY <1>1, <2>1 DEF MainLeft
<1>6. CASE Report
  BY <1>6 DEF Report, MainLeft
<1>7. CASE Die
  <2>1. main = "derive" /\ main' = "died" /\ at <= Len(DerivedOrder) /\ UNCHANGED job
    BY <1>7, ToolsAre DEF Die
  <2> QED BY <1>1, <2>1 DEF MainLeft
<1> QED BY <1>2, <1>3, <1>4, <1>5, <1>6, <1>7 DEF MainStep

LEMMA CallShrinks ==
    ASSUME IInv, NEW t \in Tools, CallStep(t) \/ Hang(t)
    PROVE  /\ MainLeft' = MainLeft
           /\ CallLeft[job[t]]' < CallLeft[job[t]]
           /\ \A s \in Tools \ {t} : job'[s] = job[s]
<1>1. PICK p \in Places : job' = [job EXCEPT ![t] = p] /\ <<job[t], p>> \in Onward
  BY CallMoves DEF IInv
<1>2. CallLeft[p] < CallLeft[job[t]]
  BY <1>1, OnwardIsLess
<1>3. job'[t] = p /\ \A s \in Tools \ {t} : job'[s] = job[s]
  BY <1>1 DEF IInv, TypeOK
<1>4. CallLeft' = CallLeft
  BY DEF CallLeft
<1>5. MainLeft' = MainLeft
  BY CallMoves DEF IInv, OfMain, MainLeft
<1> QED BY <1>2, <1>3, <1>4, <1>5

(* Every step collects an answer or takes a call one way further.           *)
THEOREM ShrinkTheorem == Spec => StepsShrink
<1>1. IInv /\ Kept /\ [Next]_vars =>
        [\/ MainLeft' < MainLeft /\ UNCHANGED job
         \/ /\ MainLeft' = MainLeft
            /\ \E t \in Tools : /\ CallLeft[job[t]]' < CallLeft[job[t]]
                                /\ \A s \in Tools \ {t} : job'[s] = job[s]
         \/ main = "investigate" /\ UNCHANGED <<main, at, job>>]_vars
  BY CallShrinks, MainShrinks DEF Next, Investigate
<1> QED BY <1>1, Invariant, KeptAlways, PTL DEF Spec, StepsShrink

-----------------------------------------------------------------------------
(* Step 6 ends.  Fairness is that of FairSpec; that the guards imply ENABLED *)
(* is the hypothesis GuardsEnabled.                                        *)

GuardFair(t) == []<>~CallMovable(t) \/ []<><<CallStep(t)>>_vars
MainFair == []<>~MainMovable \/ []<><<MainStep>>_vars

LEMMA CallIsFair ==
    ASSUME NEW t \in Tools
    PROVE  FairCall(t) /\ []GuardsEnabled => GuardFair(t)
<1>1. GuardsEnabled => (CallMovable(t) => CallEnabled(t))
  BY DEF GuardsEnabled
<1> QED BY <1>1, PTL DEF FairCall, CallEnabled, GuardFair

LEMMA MainIsFair == WF_vars(MainStep) /\ []GuardsEnabled => MainFair
<1>1. GuardsEnabled => (MainMovable => MainEnabled)
  BY DEF GuardsEnabled
<1> QED BY <1>1, PTL DEF MainEnabled, MainFair

(* What is fair is fair from every later moment on, for one call more and so *)
(* for all of them.                                                        *)
EachFair(T) == \A t \in T : FairCall(t)
AllFair(T) == []EachFair(T)

LEMMA NoneToBeFair == AllFair({})
<1>1. EachFair({})
  BY DEF EachFair
<1> QED BY <1>1, PTL DEF AllFair

LEMMA OneMoreFair ==
    ASSUME NEW T, NEW t
    PROVE  AllFair(T) /\ FairCall(t) => AllFair(T \cup {t})
<1>1. EachFair(T) /\ FairCall(t) => EachFair(T \cup {t})
  BY DEF EachFair
<1>2. FairCall(t) => []FairCall(t)
  BY PTL DEF FairCall
<1> QED BY <1>1, <1>2, PTL DEF AllFair

LEMMA FairnessLasts == Fairness => []Fairness
<1> SUFFICES ASSUME EachFair(Tools) PROVE AllFair(Tools)
  BY PTL DEF Fairness, AllFair, EachFair
<1>0. IsFiniteSet(Tools)
  BY ToolsFinite
<1>1. PICK n \in Nat : \E f : f[0] = {} /\ f[n] = Tools
             /\ \A k \in Nat : f[k + 1] = f[k] \/ \E s \in Tools : f[k + 1] = f[k] \cup {s}
  BY <1>0, Enumeration
<1>2. PICK f : f[0] = {} /\ f[n] = Tools
             /\ \A k \in Nat : f[k + 1] = f[k] \/ \E s \in Tools : f[k + 1] = f[k] \cup {s}
  BY <1>1
<1>3. AllFair(f[0])
  BY <1>2, NoneToBeFair
<1>4. ASSUME NEW k \in Nat, AllFair(f[k]) PROVE AllFair(f[k + 1])
  <2>1. \A s \in Tools : FairCall(s)
    BY DEF EachFair
  <2>2. \A s \in Tools : AllFair(f[k] \cup {s})
    BY <1>4, <2>1, OneMoreFair
  <2> QED BY <1>2, <1>4, <2>2
<1>5. Table([k \in Nat |-> AllFair(f[k])])
  BY DEF Table
<1>6. \A k \in Nat : AllFair(f[k])
  BY <1>3, <1>4, <1>5, TableInduction
<1> QED BY <1>2, <1>6

(* From now on: the invariants, the steps, the fairness and the guards.     *)
Runs == []IInv /\ []Kept /\ []NoStall /\ [][Next]_vars /\ []Fairness /\ []GuardsEnabled

LEMMA FairSpecRuns == FairSpec /\ []GuardsEnabled => Runs
  BY Invariant, KeptAlways, NoStallTheorem, FairnessLasts, PTL DEF FairSpec, Spec, Runs

(* A started call ends or hangs, whatever main and the other calls do.      *)
LEMMA CallEnds ==
    ASSUME NEW t \in Tools
    PROVE  Runs /\ FairCall(t) => (job[t] \in InFlight ~> job[t] \in {"done", "hung"})
<1> DEFINE At(p) == job[t] = p
           Over == job[t] \in {"done", "hung"}
<1>2. /\ job[t] \in InFlight => At("local") \/ At("session") \/ At("again") \/ At("fallback")
      /\ At("local") \/ At("session") \/ At("again") \/ At("fallback") => CallMovable(t)
      /\ Over => job[t] \in {"done", "hung"}
  BY DEF InFlight, CallMovable
<1>3. IInv /\ <<CallStep(t)>>_vars =>
        /\ At("local") => At("session")' \/ Over'
        /\ At("session") => At("again")' \/ At("fallback")' \/ Over'
        /\ At("again") => At("fallback")' \/ Over'
        /\ At("fallback") => Over'
  <2> SUFFICES ASSUME IInv, CallStep(t)
               PROVE  /\ At("local") => At("session")' \/ Over'
                      /\ At("session") => At("again")' \/ At("fallback")' \/ Over'
                      /\ At("again") => At("fallback")' \/ Over'
                      /\ At("fallback") => Over'
    OBVIOUS
  <2>1. PICK p \in Places : job' = [job EXCEPT ![t] = p] /\ <<job[t], p>> \in Onward
    BY CallMoves DEF IInv
  <2>2. job'[t] = p
    BY <2>1 DEF IInv, TypeOK
  <2> QED BY <2>1, <2>2 DEF Onward
<1>4. IInv /\ Kept /\ [Next]_vars =>
        /\ At("local") => At("local")' \/ At("session")' \/ Over'
        /\ At("session") => At("session")' \/ At("again")' \/ At("fallback")' \/ Over'
        /\ At("again") => At("again")' \/ At("fallback")' \/ Over'
        /\ At("fallback") => At("fallback")' \/ Over'
  <2> SUFFICES ASSUME IInv, Kept, [Next]_vars
               PROVE  job'[t] = job[t] \/ <<job[t], job'[t]>> \in Onward
    BY DEF Onward
  <2>1. ASSUME NEW s \in Tools, CallStep(s) \/ Hang(s)
        PROVE  job'[t] = job[t] \/ <<job[t], job'[t]>> \in Onward
    <3>1. PICK p \in Places : job' = [job EXCEPT ![s] = p] /\ <<job[s], p>> \in Onward
      BY <2>1, CallMoves DEF IInv
    <3> QED BY <3>1 DEF IInv, TypeOK
  <2>2. CASE UNCHANGED vars \/ \E u \in Investigating : Investigate(u)
    BY <2>2 DEF vars, Investigate
  <2>3. CASE MainStep
    BY <2>3, MainShrinks
  <2> QED BY <2>1, <2>2, <2>3 DEF Next
<1> QED BY <1>2, <1>3, <1>4, CallIsFair, PTL DEF GuardFair, Runs

(* No call of a tool goes on for ever, but one whose server hangs.          *)
THEOREM CallsEndTheorem == FairSpec /\ []GuardsEnabled => CallsEnd
<1>1. FairSpec => Fairness
  BY PTL DEF FairSpec
<1>2. ASSUME Runs, Fairness PROVE CallsEnd
  <2>1. \A t \in Tools : FairCall(t)
    BY <1>2, PTL DEF Fairness
  <2> QED BY <1>2, <2>1, CallEnds, Zenon DEF CallsEnd
<1> QED BY <1>1, <1>2, FairSpecRuns

(* All the steps that are left, the calls' and main's.                     *)
WaysOf == [t \in Tools |-> CallLeft[job[t]]]
Total == Cardinality(Remaining(WaysOf, 5)) + MainLeft

LEMMA LeftType ==
  IInv /\ Kept => WaysOf \in [Tools -> 0 .. 5] /\ MainLeft \in Nat /\ Total \in Nat
<1> SUFFICES ASSUME IInv, Kept
             PROVE  WaysOf \in [Tools -> 0 .. 5] /\ MainLeft \in Nat /\ Total \in Nat
  OBVIOUS
<1>1. \A t \in Tools : CallLeft[job[t]] \in 0 .. 5
  BY CallLeftValues DEF IInv, TypeOK, Places
<1>2. WaysOf \in [Tools -> 0 .. 5]
  BY <1>1 DEF WaysOf
<1>3. MainLeft \in Nat
  <2>1. at \in Nat /\ Len(RawOrder) \in Nat /\ Len(DerivedOrder) \in Nat
    BY ToolsAre DEF IInv, TypeOK
  <2>2. /\ main = "collect" => at <= Len(RawOrder)
        /\ main = "derive" => at <= Len(DerivedOrder) + 1
    BY <2>1, ToolsAre DEF IInv, TypeOK, Kept, Progress, InRaw, InDerived
  <2> QED BY <2>1, <2>2 DEF MainLeft
<1>4. Cardinality(Remaining(WaysOf, 5)) \in Nat
  BY <1>2, RemainingFinite, ToolsFinite
<1> QED BY <1>2, <1>3, <1>4 DEF Total

LEMMA TotalFalls ==
    ASSUME IInv, Kept, IInv', Kept', [Next]_vars
    PROVE  Total' < Total \/ UNCHANGED <<mode, main, at, job, Total>>
<1>1. /\ WaysOf \in [Tools -> 0 .. 5] /\ MainLeft \in Nat /\ Total \in Nat
      /\ WaysOf' \in [Tools -> 0 .. 5] /\ MainLeft' \in Nat /\ Total' \in Nat
  <2>1. IInv' /\ Kept' => (WaysOf \in [Tools -> 0 .. 5] /\ MainLeft \in Nat /\ Total \in Nat)'
    BY LeftType, PTL
  <2> QED BY <2>1, LeftType
<1>2. /\ \A t \in Tools : WaysOf[t] = CallLeft[job[t]] /\ WaysOf'[t] = CallLeft[job'[t]]
      /\ Total = Cardinality(Remaining(WaysOf, 5)) + MainLeft
      /\ Total' = Cardinality(Remaining(WaysOf', 5)) + MainLeft'
  BY DEF WaysOf, Total, CallLeft
<1>3. /\ Cardinality(Remaining(WaysOf, 5)) \in Nat
      /\ Cardinality(Remaining(WaysOf', 5)) \in Nat
  BY <1>1, RemainingFinite, ToolsFinite
<1>4. CASE MainStep
  <2>1. MainLeft' < MainLeft /\ UNCHANGED job
    BY <1>4, MainShrinks
  <2>2. WaysOf' = WaysOf
    BY <2>1 DEF WaysOf, CallLeft
  <2> QED BY <1>1, <1>2, <1>3, <2>1, <2>2
<1>5. ASSUME NEW t \in Tools, CallStep(t) \/ Hang(t) PROVE Total' < Total
  <2>1. /\ MainLeft' = MainLeft
        /\ CallLeft[job'[t]] < CallLeft[job[t]]
        /\ \A s \in Tools \ {t} : job'[s] = job[s]
    BY <1>5, CallShrinks DEF CallLeft
  <2>2. WaysOf'[t] < WaysOf[t] /\ \A s \in Tools \ {t} : WaysOf'[s] <= WaysOf[s]
    BY <1>1, <1>2, <2>1
  <2>3. Cardinality(Remaining(WaysOf', 5)) < Cardinality(Remaining(WaysOf, 5))
    BY <1>1, <2>2, RemainingShrinks, ToolsFinite
  <2> QED BY <1>1, <1>2, <1>3, <2>1, <2>3
<1>6. CASE UNCHANGED vars \/ \E t \in Investigating : Investigate(t)
  <2>1. UNCHANGED <<mode, main, at, job>>
    BY <1>6 DEF Investigate, vars
  <2> QED BY <2>1 DEF Total, WaysOf, MainLeft, CallLeft
<1> QED BY <1>4, <1>5, <1>6 DEF Next

FallsBelow(n) == <>(Total < n)

(* A call that can move, or main, brings the total down: its own step does,  *)
(* and so does any step that takes the turn from it.                       *)
LEMMA CallAdvances ==
    ASSUME NEW n \in Nat, NEW t \in Tools
    PROVE  Runs /\ FairCall(t) => (Total = n /\ CallMovable(t) => FallsBelow(n))
<1> DEFINE Now == IInv /\ Kept
<1>1. Now /\ Now' /\ Total = n /\ CallMovable(t) /\ [Next]_vars
      => (Total = n /\ CallMovable(t))' \/ (Total < n)'
  <2>1. ASSUME UNCHANGED <<mode, main, at, job>>
        PROVE  (CallMovable(t))' = CallMovable(t)
    BY <2>1 DEF CallMovable, MayStart, Deriving, Busy, Waiting
  <2> QED BY <2>1, TotalFalls
<1>2. Now /\ Now' /\ Total = n /\ <<CallStep(t)>>_vars => (Total < n)'
  <2> SUFFICES ASSUME Now, Now', CallStep(t) PROVE Total' < Total
    OBVIOUS
  <2>1. ~UNCHANGED job
    <3>1. PICK p \in Places : job' = [job EXCEPT ![t] = p] /\ <<job[t], p>> \in Onward
      BY CallMoves DEF IInv
    <3> QED BY <3>1 DEF Onward, IInv, TypeOK
  <2> QED BY <2>1, TotalFalls DEF Next
<1> QED BY <1>1, <1>2, CallIsFair, PTL DEF GuardFair, Runs, FallsBelow

LEMMA MainAdvances ==
    ASSUME NEW n \in Nat
    PROVE  Runs => (Total = n /\ MainMovable => FallsBelow(n))
<1> DEFINE Now == IInv /\ Kept
<1>1. Now /\ Now' /\ Total = n /\ MainMovable /\ [Next]_vars
      => (Total = n /\ MainMovable)' \/ (Total < n)'
  <2>1. ASSUME UNCHANGED <<mode, main, at, job>>
        PROVE  MainMovable' = MainMovable
    BY <2>1 DEF MainMovable
  <2> QED BY <2>1, TotalFalls
<1>2. Now /\ Now' /\ Total = n /\ <<MainStep>>_vars => (Total < n)'
  <2> SUFFICES ASSUME Now, Now', MainStep PROVE Total' < Total
    OBVIOUS
  <2>1. ~UNCHANGED <<main, at>>
    <3>1. MainLeft' < MainLeft /\ MainLeft \in Nat
      BY MainShrinks, LeftType
    <3> QED BY <3>1 DEF MainLeft
  <2> QED BY <2>1, TotalFalls DEF Next
<1> QED BY <1>1, <1>2, MainIsFair, PTL DEF MainFair, Runs, Fairness, FallsBelow

(* With less than n steps left Step 6 ends.                                *)
EndsWithin(n) == [](Total < n => <>Ended)

LEMMA EndsWithNothing == Runs => EndsWithin(0)
<1>1. IInv /\ Kept => ~(Total < 0)
  BY LeftType
<1> QED BY <1>1, PTL DEF EndsWithin, Runs

LEMMA OneStepMore ==
    ASSUME NEW n \in Nat
    PROVE  Runs => (EndsWithin(n) => EndsWithin(n + 1))
<1> SUFFICES ASSUME []IInv, []Kept, []NoStall, [][Next]_vars, []Fairness, []GuardsEnabled
             PROVE  EndsWithin(n) => EndsWithin(n + 1)
  BY PTL DEF Runs
<1>1. Runs
  BY PTL DEF Runs
<1>2. \A t \in Tools : FairCall(t)
  BY PTL DEF Fairness
<1>3. \A t \in Tools : Total = n /\ CallMovable(t) => FallsBelow(n)
  BY <1>1, <1>2, CallAdvances
<1>4. Total = n /\ MainMovable => FallsBelow(n)
  BY <1>1, MainAdvances
<1>5. NoStall
  BY PTL
<1>6. Total = n /\ ~Ended => FallsBelow(n)
  BY <1>3, <1>4, <1>5 DEF NoStall
<1>7. IInv /\ Kept => (Total < n + 1 => Total < n \/ Total = n)
  BY LeftType
<1> QED BY <1>6, <1>7, PTL DEF EndsWithin, FallsBelow

(* Step 6 ends, by induction on the number of steps that are left: only a    *)
(* server that never answers or an exception in the derived pass keeps it   *)
(* from the report.                                                         *)
THEOREM Step6EndsTheorem == FairSpec /\ []GuardsEnabled => Step6Ends
<1>1. ASSUME Runs PROVE Step6Ends
  <2>1. IInv /\ Kept
    BY <1>1, PTL DEF Runs
  <2>2. EndsWithin(0)
    BY <1>1, EndsWithNothing
  <2>3. \A n \in Nat : EndsWithin(n) => EndsWithin(n + 1)
    BY <1>1, OneStepMore
  <2>4. Table([n \in Nat |-> EndsWithin(n)])
    BY DEF Table
  <2>5. \A n \in Nat : EndsWithin(n)
    BY <2>2, <2>3, <2>4, TableInduction
  <2>6. PICK n \in Nat : Total < n
    <3>1. Total + 1 \in Nat /\ Total < Total + 1
      BY <2>1, LeftType
    <3> QED BY <3>1
  <2>7. EndsWithin(n)
    BY <2>5
  <2> QED BY <2>6, <2>7, PTL DEF EndsWithin, Step6Ends
<1> QED BY <1>1, FairSpecRuns
=============================================================================
