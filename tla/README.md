# Sentinel Ensemble: verification project

Sentinel Ensemble is a forensic triage pipeline. A deterministic conductor
(`run_pipeline.py`, steps 1 to 18, and the step functions of
`src/sift_sentinel/coordinator.py`) runs forensic tools over a memory image and
a disk, asks language models for findings, validates each claim against the
tools' output, lets the models investigate and correct findings, sorts them
into disposition buckets and writes the report. The models are an unreliable
environment here: any reply of the shapes the code accepts may come at any time.

## 1. Inventory

| Component | State | Operations | Interacts with |
|---|---|---|---|
| Tool discipline, `react_discipline.py` | in-flight table, launch counters, tools noted unavailable or timed out, all process-wide under one lock | reset, precheck, register_launch, dedupe_run, high_cost_dispatch, note_* | called by every Step 11 thread |
| Step 11, ReAct investigation, `coordinator.step_11_investigate` | pool of threads, per finding a list of observations and a verdict, cross-finding cache of tool records | one turn: ask the AI, redirect, serve from mandatory results, precheck, cache, dispatch, run_tool, conclude, cap | discipline, tools, the AI; reads Step 6 output; writes `react_conclusion` onto findings that Step 10 validates at the same time |
| Step 10, typed validation | passed and blocked lists, one background future | validate each finding in a pool | evidence database; joined after Step 11 |
| Step 12, self-correction, `correction/self_correct.py`, `coordinator.step_12_self_correct` | attempts per finding, shared prompt counter, prompt files, passed and blocked lists | attempt loop with rate-limit retry, drop, subject check, terminal classification, bookkeeping | the AI, the validator |
| Inv2 ensemble, `ensemble.py` | results per member, models that need a thinking reserve (process-wide) | member call with retry, staggered dispatch, collection, splitting, merge by fingerprint | the AI; its merged list is what Step 10 validates |
| Disposition and Step 13 passes, `analysis/disposition.py` and its neighbours, `run_pipeline.py` 4404-5590 | `findings_final`, bucket lists, eligibility cache, printed counts | number, route, demote, reconcile, promote, send back, merge, count, override, gate | verdicts of Step 11, results of Steps 10 and 12, the AI, an analyst |
| Evidence integrity, Steps 2 and 15, `step0_onboard.py`, `onboard/sha_warmstart.py` | opening and closing digests, stat snapshot, warm digest file with its marker | warm hash, bounded wait, fingerprint, overlapped closing hash, verify with a stat fast path | evidence files, which others may write; Steps 6 and 11 read them |
| Step 6 tool execution, `run_pipeline.py` 2926-3453 and the tool-health line, `_ToolHealth` and `run_tool` in `coordinator.py` | queue of the pool, answer per tool, `all_outputs`, health marks of this process | start, collect in order, derive, substitute psscan, list failures, count | MCP client, tools; Step 11 reads its answers and adds marks |
| MCP client and server, `mcp_client.py`, `server.py` | none between calls: a server process per call | call, retry with a fresh server, parse here first or instead, mark | tools; called by every worker of Step 6 |
| Inv1 selection, LLM adapter | retry counters | retry then halt, fallback | the AI |
| Onboarding's menus, tool wrappers, reporting | little or none | I/O, parsing, layout | everything |

What makes them hard: Steps 6, 8, 10, 11 and 12 run in thread pools that share
dictionaries, files and the discipline; launches fail, time out and are shared;
findings move between lists in a dozen passes of which some use values computed
before earlier ones.

Correctness, per component:

* discipline: budgets hold under races, launches of one scope never overlap,
  nobody waits for a launch that nobody runs, no key is leaked;
* Step 11: every investigation ends with a verdict or for a reason that is
  harmless, evidence shown to the AI is that of the PID it asked for, expensive
  scans are not repeated;
* Step 12: the lists still partition the findings, the counters agree, a correction
  answers its own prompt, every correction ends;
* ensemble: no member's failure loses another's findings, every merged finding
  is accounted for;
* Step 6: every selected tool gets one answer, in the order of the selection and
  derived ones last; a call leaves at most one health mark, which fits its answer;
  the health line claims no more than there is; nothing but a server that never
  answers and an exception in the derived pass keeps it from the report;
* disposition: buckets partition the findings, no confirmation without
  eligibility, a demotion is final, printed counts and gates describe the final
  buckets;
* integrity: a verdict says something about what the tools read, whatever was
  hashed ahead of time or side by side; no false alarm; no endless wait.

## 2. Plan

1. `ReactDiscipline`, `Step11`, with their proofs. *Done.*
2. `SelfCorrection` and its abstract specification `FindingsLedger`, with
   their proofs. *Done.*
3. `Disposition` and its abstract specification `DispositionLadder`, with their
   proofs. *Done.*
4. `Ensemble` and its abstract specification `Survey`, with their proofs. *Done.*
5. `ValidateAndInvestigate`: Step 10 beside Step 11 on shared findings.
6. `Integrity`, with its proofs. *Done.*
7. `ToolRun` and its abstract specification `Collection`, with their proofs: Step 6,
   the MCP client and tool health. *Done.*
8. Inv1 retries.

## 3. Modules

**`ReactDiscipline`** models `react_discipline.py`. `inflight`, `counter`,
`timedOut` and `unavailable` are the module's dictionaries and sets (the counter
only for tools whose count is ever read). A thread's dispatch is `st`: idle,
running (owner, runner executing), resolved (Future set, key not popped),
waiting (on the owner's Future) or returned. A critical section is one action;
`set_result` and the pop of the `finally` clause are two, since callers may come
in between. The module is open: any thread may call any dispatcher with any
tool and PID, so its properties hold for every caller.

**`Step11`** models the loop and instantiates the discipline (`D`), one thread
per finding. `pc` follows a task through `_investigate_one_finding`; each step
that reads or writes shared state (start in the pool, precheck, cache lookup,
dispatch, second cache lookup, scan, publish, pop, answer) is an action of its
own. Tool records are abstracted to the PID they belong to, `AllPids` for
unfiltered output. Tools are assumed to have a PID column; of the others no
record belongs to a PID. `_TOOL_RESULT_CACHE` in `tools/common.py` only makes a
scan faster, and has no state of its own here. The AI may reply with anything
the code distinguishes.

**`SelfCorrection`** models Step 12 and what the conductor does around it.
`phase` follows the conductor through claim repair, selection, the pool and the
bookkeeping; `pc` follows the correction of each finding through `_correct_one`
and `self_correct`. The corrector closure is cut at the places where another
thread can come in between: the counter is increased, read again, the prompt
file is truncated, written, and read back by `_invoke`. An answer of the AI is
abstracted to the id it carries, which subject tokens its claims name, and what the
validator says of it; all combinations may come. `TextOf` are the tokens that occur
in a finding: the subject check is a substring test (`self_correct.py:243`), so an
answer about another finding passes it where a token occurs in both. Each of the timeouts is a choice at the
head of the loop. A finding on the passed list is an item that remembers which
finding of Step 9 it goes back to, so that a mix-up is visible.

**`FindingsLedger`** says what Steps 10 to 12 promise of the two lists: findings
are only ever promoted from blocked to passed. `SelfCorrection` implements it
with `passed` read as the set of findings its items go back to.

**`Ensemble`** models the dispatch of one prompt to the members, their threads
and the merge. A member is a slot of the roster, and several slots may run one
model. `call` follows the thread of a member through `_call_one_model`; `reserve`
is what it read of `_THINKING_RESERVE_MODELS` (`learned`) before its first call.
A finding is what splitting and fingerprinting look at: its claims, each with a
process id and another strong entity, whether they state a relationship, and
what identifies it when no claim has an entity. `perModel` is the dictionary
that is merged and `order` the order in which it was filled. The findings of a
member are a set, so that two indistinguishable ones are one. Of the stagger
modes only `full` waits for an answer; the head start is a pause and no guard.

**`Survey`** says what an ensemble promises: each member is heard once, and the
report names every subject with all the members that reported it. `Ensemble`
implements it with a fingerprint as the subject.

**`Disposition`** models Step 13 from the numbering of the synthesised findings
to the partition gate. The passes run one after the other in one thread; each is
an action, `pc` names the next one, and `Skip` stands for a pass that is
switched off or whose exception is caught. What the passes read off one finding
is its kind: its own ReAct verdict, the strength of its semantics, its severity,
whether it passes the gates on its evidence. Kinds are chosen freely for every
finding, so every combination the signal tables could produce is there. What
relates findings (processes, addresses, artefacts, citations, titles) is a constant;
`TitlesAlike` is the test of two words in common of `llm_dedup.py:115`. Weak
semantics are eligible when corroborated (`disposition.py:1232`). The code finds
rows by `finding_id`, and so do `Finalize`, `Absorb` and the return of blocked
findings. The reported ids are taken to be distinct, because the partition gate
aborts a run in which two rows have one id (`disposition.py:1878`); a synthesised
finding may still get the number of a blocked one. `DedupBroken` is Step 13AC when it
raises half way: the confirmed rows are merged and `findings_final` still has them
(`stranded`), which the gate then finds. The
answers of the AI in `Finalize` and in the merge of `LLMTables`, the analyst's
override, and the findings Step 10 blocked are arbitrary.

**`DispositionLadder`** says what Step 13 promises of a finding in whatever order
its passes come: it is confirmed only if its evidence is eligible, a confirmed
finding is never declared inconclusive, narratives are made at the routing only,
a row disappears only into another that stays. `Disposition` implements it with
the place of a finding read off the buckets and the merges.

**`Integrity`** models the chain of custody. The driver is `run_pipeline.py`,
which may take the opening digests from onboarding and overlaps the closing hash
with Steps 7 to 14, or `coordinator.run_pipeline`, which keeps a stat snapshot and
may skip the closing hash. `warm` are the threads of `warm_sha_async`: each choice
of a case starts one, all of them share the temporary file, the published file
and the marker; `disk` are the inodes behind the two names, so that a rename
leaves a writer on an open descriptor. Hashing is one action per chunk, the
comparison of all the stats is one step. The environment writes chunks and makes
paths disappear, the tools read chunks at Steps 6 and 11, and onboarding may be
killed with its threads. A chunk is the number of times it was written.

**`ToolRun`** models Step 6, the client it calls through, and the health marks until
the report. `job` follows the call of each tool: queued in the pool, parsed in a
process here, in its first or second MCP session, parsed here after a crash, done, or
hung in a session that never answers, where it keeps its worker (`Hang`).
`main` is what the conductor does, and `at` where it stands in the order in which it
collects. An answer is abstracted to what the code asks of an envelope: records or
none, not applicable (with or without a text in `error`), timed out, failed, or made
up by the worker of an exception: the lookup of the artifact raised, or the reply was
JSON but no object (`NotObject`). Missing rules, images and body files are "not
applicable" here: what `collect_tool_failures` lists of them by `failure_mode` comes in
envelopes of `kind` "not_applicable" only (`coordinator.py` 1781, 1881). In the derived
pass nothing catches either exception, and the program dies (`Die`). `health` has the marks
per registered name, which differs between MCP and direct calls. With `--no-mcp` all
tools go through `run_tool` instead, in one pool and with no order. `Investigate` is
Step 11's use of `run_tool`; that Step 11's discipline and caches allow it less often
only removes behaviours.

**`Collection`** says what Step 6 promises whatever finishes first: each answer is
added once and stays, the answers of tools that go ahead are there before, and the
next step starts when all are there. `ToolRun` implements it with the answers that
main has collected; in direct mode all are added at once.

**`ReactDisciplineProofs`**, **`Step11Proofs`**, **`SelfCorrectionProofs`**,
**`EnsembleProofs`**, **`DispositionProofs`**, **`IntegrityProofs`** and
**`ToolRunProofs`** hold the proofs, and **`Descent`** what those about termination
share; **`MCReactDiscipline`**, **`MCStep11`**,
**`MCSelfCorrection`**, **`MCEnsemble`**, **`MCDisposition`**, **`MCIntegrity`** and
**`MCToolRun`** the constants of the instances.

Definitions under a comment that begins with "Mutant" are not part of the model.
Each is a wrong version of the definition that follows it; checking with it in
place shows that a property is sensitive to the code.

## 4. Runs

| Run | Instance | Shows |
|---|---|---|
| `discipline` | 3 threads, one full-image tool with budget 2, one plain tool, 2 PIDs | the invariants of the discipline for any caller |
| `step11_live` | 3 findings, 2 workers, `vadinfo` (budget 1) | termination; timeouts settle every sharer |
| `step11_turns` | 3 findings (one without PID), 2 workers, 2 turns, a redirect onto a covered tool, a `run_tool` tool, `hollow` (budget 2) | no finished investigation is silently without verdict; full-image scans neither overlap nor repeat; Step 11 implements the discipline |
| `step11_shared` | violated | a sharer is shown the owner's PID's records |
| `selfcorr_lists` | 2 findings, 2 workers, 1 attempt, every answer | partition of the lists, agreement of the counters, honest exhaustion, the ledger, termination |
| `selfcorr_prompt` | violated | a correction accepted in answer to another finding's prompt |
| `ensemble` | 3 members, 2 of one model, 5 replies, both kinds of dispatch | no member or finder is lost, learning happens when and only when it should, the ensemble ends |
| `disposition` | 2 reported findings and a synthesised one, 8 kinds, 2 processes, 2 addresses, 2 artefacts | partition, eligibility, nothing dropped, the count, the ladder |
| `disposition_splits` | violated | entity consistency buries entities that nobody cleared |
| `disposition_ids` | violated | a blocked finding whose number was taken is not sent back |
| `integrity` | 2 files of a chunk each, one of them possibly a mount point, 2 warm hashes, 2 changes, both drivers | what MATCH and MISMATCH vouch for; no endless wait |
| `toolrun` | 4 raw tools, one of each kind of call, and a derived one, 2 workers, every answer, hang and crash, with and without MCP | answers are collected as promised, at most one mark per call that fits its answer, the failures counted and told agree but for what the property names, the health line does not overstate, only a hanging server or a death in the derived pass keeps it from the report |

Bounds. Step 11: three findings are needed for one owner, one sharer that waits
and one late caller; two PIDs for a foreign record; two turns for a second
request and a cap after an observation (the code has five turns, and no turn
depends on how many went before except the cap). Budgets 1 and 2 are those of
the code (`hollow` is given the 2 of `ldrmodules`, so that it can be launched again); budget 0 is the case "counter = budget" at the start. Two workers for
three findings make the pool queue. Step 12: two corrections suffice for every
conflict over the counter, a prompt file or an id; the one attempt of each has up
to two calls (the retry after a rate limit), so four prompts interleave. What
depends on the number of attempts concerns one finding alone, and is proved for
any number. All runs start from every verdict of Step 10 and every set of
findings that Step 11 settled. Ensemble: three members give one model twice and
another once, hence a duplicate of an earlier entry, of a later one, and of none;
the replies have a subject named alone and among others, a relationship, findings
with a title only, with nothing, and with claims that cannot be iterated.
Disposition: a merge needs two rows, a second merge into a dropped row a third;
the synthesised finding makes the numbering and the dependency pass matter; the
eight kinds pass or fail each gate that leads to a different bucket. A pass that
may be skipped is skipped in some behaviours; three of the twelve optional ones
are, which is one of each stage (before, with and after the AI), and the proof
covers any set. Integrity: two warm hashes for one temporary file, two files for
a change between two readings, two changes so that a file can be changed after
it was hashed and changed again, or unmounted. `MaxReads`, `MaxWait` and
`MaxWrites` bound the reads that are remembered, the polls of the wait, and the
environment. Except for the four violations, every property of a run is proved
for all values (section 5). Threads are interchangeable in
`discipline`; symmetry is used in this run only, which checks no liveness. Step 6: four raw
tools are one parsed here first, one that is looked up and parsed here after a crash,
and the two of the substitution; with two workers the others queue. One tool is run
again by Step 11, which is enough to count it under two names.

Fairness. `ReactDiscipline!Fairness` is weak fairness of each runner and of the
`finally` clause of each owner; calling is nobody's duty. `Step11!Fairness` is weak
fairness of each task: threads are scheduled
by the operating system and every AI call and tool carries a timeout, so a task
that can move does. A waiting thread cannot move until its owner publishes; that
it ends is what `step11_live` shows and `InvestigationsEndTheorem` proves.
`SelfCorrection!Fairness` is the same for
each correction, and for the conductor; `Ensemble!FairSpec` for the conductor and
for each member, whose calls end by the client's own timeout. `ToolRun!FairSpec` for main
and for each call that does not hang: tools, and the parser run here, carry time limits
of their own. The MCP session has none (`mcp_client.py:80`), and neither has the wait
for it (`run_pipeline.py:3312`); so `Hang` is a step of its own that may come in any
session, and `Step6Ends` names it. Nothing is assumed of Step 11's calls.
`Integrity!Fairness` is weak fairness of the run and of its hash thread only: onboarding may starve or
die, no tool has to read, nobody has to write. Nothing is assumed of which branch
is taken: the AI may refuse, fail or be rate limited as often as the code lets it.
`Disposition` is sequential and has no liveness property.

## 5. Proofs

`ReactDisciplineProofs` proves for any threads, tools, budgets and results that
`IInv` is inductive: the types, the budget, what a call knows in each phase, the
agreement of table and owners, waiters that have a runner, and sharers that are
not refused. `SingleFlight` alone is not inductive (two owners of one key are
only excluded because the table holds one thread per key); it follows from the
agreement. Assumptions: `ToolAssumption` (budgets are natural numbers) and
`NullAssumption` (the nulls are not values).

`Step11Proofs` proves `Spec => UsesDiscipline`: every step of a task is a step
of the open discipline or leaves it alone. `DisciplineInv` then gives Step 11
the discipline's invariant without a new induction. On top of it:

* `FullImageScannedOnce` needs two facts of Step 11: the phase of a task and the
  phase of its dispatch agree (`Linked`), and a scan begins only where nothing
  is cached (`CacheInv`). Two scans of one full-image plugin would own one scope
  key.
* `ForeignRecordsOnlyShared` needs `OwnResults`: outside the full-image list an
  outcome on its way to a finding is the one it asked for, because two calls of
  one scope key then made the same request (`SameScope`).
* `NoSilentGap` needs `Verdicted`: a conclusion without a verdict is a pause
  that is about to end the investigation.

`SelfCorrectionProofs` proves for any findings, ids, workers and attempts that
its `IInv` is inductive. Its parts tie the conductor's phases to those of the
corrections: a correction runs for a selected finding only, which stays blocked
until the bookkeeping (`Phases`, `Corrections`); a result is classified once its
thread has returned (`Terminals`); and `last_validation` remembers whether the
validator ever looked at an answer, which makes `HonestExhaustion` inductive.
`CountsAgree` holds for any ids. `ListsPartition` and the
implementation of the ledger are proved from `UniqueIds`: the merge of the
ensemble renumbers the findings (`ensemble.py` 755-757), while the ids of a
single model's findings are taken as it gives them. The bookkeeping removes by
`finding_id`, and with a repeated id it removes a finding it did not promote.

`EnsembleProofs` proves for any roster, findings and order of completion that
its `IInv` is inductive. `Learning` says that a thread runs only after it was
submitted, that under the full stagger nothing was submitted beside a running
first member, and that a model is learned from an answered retry; `LearnedOnce`
then needs that a later member of the model read the reserve (`Spared`).
`Merging` says that `order` lists `per_model` without repetition and that every
fingerprint collected so far has a first entry (`HasFirst`), so that the
merge never asks for an entry that is not there. For `KeepsSurvey`, a collection extends the
fingerprints of the members heard and changes none of the earlier ones
(`NamedGrows`).

`DispositionProofs` proves for any findings, kinds, processes, artefacts and
answers that its `IInv` is inductive. Every pass is shown to be one of three step
relations: it rehomes rows, it absorbs rows into others, or it leaves the buckets
alone; each relation preserves the partition and the eligibility once. As the code
drops merged rows from `findings_final` by id, the partition needs that no two rows of
it share one (`IdsKept`, from the distinct reported ids and the way synthesised ones are
numbered); and if 13AC breaks half way, what is left over are merged rows
(`StrandedMerged`), so that the gate can tell. The rest
of the invariant says where in the order of the passes something holds: only
blocked findings are outside `findings_final` until they are sent back, nothing
is merged before the first dedup pass, the count is right from the moment it is
taken. `DroppedTheorem` assumes that sending the blocked findings back is not
skipped: if its exception is caught, they do vanish from the report.

`IntegrityProofs` proves for any number of files, chunks, warm hashes, writes and
reads that its `IInv` is inductive. The argument is that a chunk only moves
forward: an opening digest is not ahead of what a tool reads later, nor that
reading of a closing digest (`DigestsOK`, `ReadsOK`, `LaterOK`), so that equal
digests leave nothing in between. For the fast path the same order is kept
between the snapshot, the mtime at a read, and the mtime at Step 15 (`SnapOK`).

`ToolRunProofs` proves for any selection, any sets of tools with a local parser, and
any number of workers that its `IInv` is inductive. `Calls` says what is known of a
call at each place: no answer and no mark but the attempt until it is done. Every
step of a call is shown once to go on to another place or to end with an answer and
the mark that fits it (`CallStepForm`), so that one case serves ten actions.
`Progress` says how far main has collected, whence the order that `KeepsCollection`
promises. `NeverOverstated` is a fact about sizes: a tool with an answer that is
neither data nor inapplicable has a name among the failed ones, and no two tools share
it (`FailuresCover`), so the failures taken off cover at least those tools, however
many are taken off twice. `ToolRunAssumption` is all that is assumed: no tool is
selected twice, pstree and psscan are raw tools, there is a worker.

### Waiting and termination

The remaining results say, for any number of actors, that nobody waits in vain and
that everything ends. They come in three layers.

1. *Nobody waits for nobody* (`NoStall`, an invariant of `Step11`, `SelfCorrection`,
   `Ensemble`, `ToolRun` and `Integrity`). Until the end is reached, some actor can
   move. What "can move" means is spelled out as a guard (`Movable`, `CallMovable`,
   `RunMovable`, ...). A queued task needs a free worker and a sharer its owner, so
   this is an argument about the pool: with no free worker somebody is busy
   (`Step11` assumes `IsFiniteSet(Findings)` for it), whoever is busy and waits has
   an owner (`WaitersHaveRunner`), and an owner never waits. In `ToolRun` main
   collects in the order of the selection while the pool may be shorter than the
   queue; a hung call may stop it, and is named as an end (`Ended`). In `Integrity` the waits of the run are the bounded one for the warm hash
   and the join of the closing hash, which never waits for anyone.
2. *Every step is progress* (`StepsShrink`, an action property of the same modules).
   Each actor has a number of steps left, the variant: no retry, rate limit,
   refusal, error or poll leads back. A task of `Step11` counts the turns it has
   left, which needs `TurnsBounded`: no investigation observes more than
   `max_turns` tools.
3. *Fair actors take those steps* (`InvestigationsEnd`, `CorrectionsEnd`,
   `EnsembleEnds`, `Step6Ends`, `RunEnds`). `Descent` has the argument they share.
   The steps left of all actors are a finite set of pairs (`Remaining`), which needs
   no sum; the statement of the induction is that a behaviour with `n` steps left
   ends; and as the induction theorems of the library take an operator, the
   statements for all `n` are put in one table, a function of `n`, to which
   `TableInduction` applies. `Enumeration` takes the actors of a finite set one by
   one, which turns "each of them is treated fairly" into one lasting fact.

`TimeoutSettlesSharers` goes by phases instead of a count: `TimeoutSticks` says that
nothing takes the timeout of a shared launch back before those who share it are
settled, and each phase is left by the one thread it depends on. Likewise
`WaitersAnswered` and `KeysReleased` for any callers of the discipline, from
`SharersGetTheOutcome`: whoever waits leaves in the very step in which its owner
publishes, and with that outcome.

What is assumed. These theorems read `FairSpec /\ []GuardsEnabled => ...`.
`FairSpec` is weak fairness, which speaks of `ENABLED`, and tlapm has no rules for
`ENABLED`. `GuardsEnabled` is the missing link and nothing more: where the guard of
an actor holds, its action is enabled. It is an invariant of the specification
(every guard was written as the union of the guards of the actor's actions), and
TLC finds it to hold on every instance of section 4 that has a liveness property, and
for two threads of the discipline: add `INVARIANT GuardsEnabled` to the cfg. It is
not part of the runs, since no plausible bug of the code breaks it alone.
The converse is not needed.

### Two facts about data

`SplitTheorem`: `_atomic_subject_split` loses no claim, and no part of an unrelated
finding is about two processes. `ReportTheorem`: the merged report is a function of
what the members answered; who finished first, who was retried and what was learned
meanwhile leave no trace but the wording.

`SoloWorkerTheorem` bounds finding 2: with one worker a correction is accepted only in
answer to its own prompt, for any number of findings, attempts and ids. The run
`selfcorr_prompt` shows that two workers are enough to break it.

### What the runs do not check, and what is not proved

Proved and in no run: `TableMatchesOwners`, `SharersGetTheOutcome`, `WaitersAnswered`
and `KeysReleased` of the discipline; `ForeignRecordsOnlyShared`, `TurnsBounded` and
`TimeoutSticks` of Step 11; `LearnedOnce` and `CallsEnd`; and all `NoStall` and `StepsShrink`. TLC finds all of them
to hold on the instances of section 4 (those of the discipline with two threads and
no symmetry).

Only model-checked: `GuardsEnabled`, and the four violations of section 6, which are
counterexamples. Every property of a passing run is the statement of a theorem. The
proofs are about the model; that it is faithful to the code, and the atomicity of
the actions it is cut into, is a matter of reading both.

## 6. Findings

1. A thread that shares a full-image launch gets the owner's PID-filtered list
   and records it under its own PID; the docstring of `high_cost_dispatch` says
   "filter afterward".
2. Two correctors may read back one value of `_sc_counter["n"]`, write one
   prompt file and answer each other's prompt; a comment says each correction is
   independent. The subject check refuses an answer about the other finding only if
   no token of its claims occurs in the finding it was asked for.
3. Entity consistency takes a prefix that every routed finding carries for the
   mark of an adjudicated benign, and moves entities nobody cleared out of the
   findings table.
4. A synthesised finding may take the number of a blocked one, which then is not
   sent back for review although the printed line promises it.

Seen while modelling, with no run of its own:

* the precheck is not repeated, so a tool noted unavailable meanwhile is scanned
  once more;
* tools outside `HIGH_COST_FULL_IMAGE_TOOLS` may be scanned side by side, although
  the docstring of `step_11_investigate` promises one scan;
* a verdict with an empty conclusion text is replaced by the turn-cap verdict;
* the prompt's "attempt n of 3" counts the calls of all findings together;
* a rejected correction whose reasoning has a phrase such as "cannot be
  verified" is counted by `step_12` as an honest drop;
* with a repeated id the bookkeeping removes findings from the blocked list that
  nobody corrected;
* claim repair, off by default, passes findings below the strict rule as well;
* a corrected finding does not carry `react_conclusion`;
* the cache is not looked at again between the in-flight test and the budget
  test (`coordinator.py:4088`), so a finding can be refused for budget while the
  records are cached;
* a corrector thread that raises is counted as contained and shown nowhere
  (`run_pipeline.py:4273`, 4297);
* a correction is validated without the strict flag (`self_correct.py:928`);
* a member finding whose `claims` is a number or `true` makes the splitting or
  the fingerprint raise outside any handler, and the findings of all members are
  lost, while `ensemble.py:16-18` says that the errors of a member are isolated
  (`MergeRaises`);
* the closing hash runs from Step 7 on and misses what is written during Step 11,
  although `coordinator.py:3529` says Step 15 hashes "post-run for spoliation
  detection" (this is why `MatchCoversCollection` speaks of Step 6);
* the stat snapshot is taken after hashing (`coordinator.py:3548`), so the fast
  path can carry a digest of older content (why `StatPathSound` speaks of the
  disk, not of the digest);
* a mount-point directory has a sentinel for a digest and is always reported as
  modified; a second warm thread loses its marker when the first one ends;
* Step 13: a finding demoted by 13A can be confirmed again by the AI pass;
  findings demoted to review can be turned benign by the entity routes; the late
  benign pass undoes a mixed-entity route; the refutation pass, documented as
  downgrade-only, moves benign rows up; the fidelity pass does not refresh the
  printed benign and review counts; "never demotes confirmed" in the entity pass
  is not so; a merge may drop a confirmed row into a review row; labels of the
  ledger are read from excerpt text; findings without an id always fail the
  partition gate; a set and a list are intersected at `run_pipeline.py:4882`, and
  the block ends after its moves are made; the printed bucket verdict
  (`run_pipeline.py:4714`) is computed before the later passes; the cause of
  finding 3 also switches off the escalation across buckets of 13Z.
* Step 6: a tool parsed here that finds nothing, or does not apply, is marked failed
  ("local_first_zero", `mcp_client.py:305`), although the docstring (283) calls the
  record count "informational, not a failure signal"; likewise `run_tool` marks an
  inapplicable answer that carries an `error`. Such a tool is taken off twice by the
  tool-health line, which says "must never read as a partial failure"
  (`run_pipeline.py:6558`). It only ever understates, see `NeverOverstated`;
* a lookup that raises, or a reply that is JSON but no object, becomes an error of the
  worker that no health mark records as failed, and is counted among the producing tools
  (the exception in `VerdictsMatch` and `NeverOverstated`); in the derived pass it is not
  caught at all and ends the run before the report (`Die`);
* a server that neither answers nor dies stops Step 6 for good (`Hang`);
* Step 13AC takes merged confirmed rows out of their bucket (`run_pipeline.py:5211`)
  before it merges the review rows; if that raises, `findings_final` keeps them and the
  partition gate aborts the run (`DedupBroken`);
* a failure is never taken back by a later success, Step 6 over MCP and Step 11 use
  different names for one tool, and what is derived here is not marked;
* a reply over MCP that does not apply is attempted and neither succeeded nor failed,
  although `test_commit32_real_mcp_tracking.py:59` expects the two to add up
  (`VerdictsMatch` therefore promises at most one mark, and no more);
* the branch for a reply that is no object in `run_pipeline.py:3162` is never reached,
  as `call_mcp_tool` has raised by then (all tools of the server return objects).

## 7. Not modelled

The content of prompts, replies and tool records; `LOW_YIELD_TOOLS`, which is
empty; the `force` flag of `precheck_tool`, which no caller sets; the matching of
claims by the validator; logging and statistics. The corrector's own
`attempt_timeout` is not enforced by the code, so it is no action.

Ensemble: the parsing of the roster, the numbering of the merged findings and the
merge statistics; `SIFT_TACTIC_DEDUP`, off by default. Disposition:
`react_entity_conflict`, which only the coordinator's own driver sets; the signal
tables behind eligibility and semantics; the cache of eligibility by finding id
(`disposition.py` 1041-1087), which would matter if a pass rewrote what it was computed
from; rows that share a reported id (the gate aborts such a run); what is off by default
(`SIFT_CONCLUSIVE_CONFIRM`, the promotion of JIT regions, `SIFT_DEDUP`, the
justification of splits) and the persistence branch of the benign verdict.
Integrity: dry runs, whose missing files are allowed; the invalidation of a state
directory, which is fresh for every run; what onboarding's threads do after the
run has looked at their file.

Step 6: the arguments and paths handed to a tool; a selection with repetitions, which the selection step removes, so that the reuse of a running
call is unreachable; the default of one worker run inline, which is a pool of one. The
client's `list_tools` and the server's wrappers have no state.

Step 10: the validator is a comparison of data without state of its own; its thread
beside Step 11 and its fail-open path (plan 5) change what later steps are given,
and `SelfCorrection` starts from every verdict they could give. Inv1 (plan 8) is a
loop around one call, whose result is a constant here.

Components of the plan not reached are listed in section 2; reporting,
onboarding's menus and the tool wrappers are I/O and parsing without a protocol of
their own.
