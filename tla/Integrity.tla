------------------------------ MODULE Integrity ------------------------------
(***************************************************************************)
(* The chain of custody of the evidence files: the digests a run starts    *)
(* from, the digests it closes with, and the verdict printed in the        *)
(* report.                                                                 *)
(*                                                                         *)
(* Two drivers exist.  run_pipeline.py ("main") may take the opening       *)
(* digests from a file published by the onboarding process, and computes   *)
(* the closing ones in a thread that starts at Step 7.                     *)
(* coordinator.run_pipeline ("coordinator") hashes at Step 2, keeps a stat *)
(* snapshot, and at Step 15 skips the closing hash when the stat is        *)
(* unchanged.                                                              *)
(*                                                                         *)
(* Abstractions.  A file is a row of chunks and a chunk is the number of   *)
(* times it was written, so a chunk never gets an old content back; a      *)
(* digest is the row of chunks it was computed from (SHA256 has no         *)
(* collision here).  Every write moves the mtime of its file.              *)
(***************************************************************************)
EXTENDS Integers, FiniteSets

CONSTANTS
  Files,        \* evidence paths: the memory image and the disk image
  NumChunks,    \* chunks of all the files, in the order they are hashed
  FileOf,       \* the file of each chunk
  Mounts,       \* the paths that may be a mount-point directory
  Workers,      \* warm hashes one onboarding session may start
  MaxWrites,    \* bound: changes made to the evidence by its environment
  MaxReads,     \* bound: reads by the forensic tools that are remembered
  MaxWait       \* bound of await_precomputed_file, in polls

Chunks == 1..NumChunks

ASSUME IntegrityAssumption ==
  /\ NumChunks \in Nat \ {0}
  /\ FileOf \in [Chunks -> Files]
  /\ {"none", "earlier"} \cap Workers = {}
  /\ MaxWrites \in Nat /\ MaxReads \in Nat /\ MaxWait \in Nat

VARIABLES
  driver,    \* "main" or "coordinator"
  kind,      \* what each path is: a regular file or a mount-point directory
  content, size, mtime, present, writes,     \* the evidence
  warm,      \* onboarding: its warm-hash threads
  alive,     \* onboarding: the process that owns them
  marker,    \* the <file>.inprogress marker
  disk,      \* contents of the inodes behind the two names below
  tmp, out,  \* the inode named <file>.tmp, and the one named <file>
  pc, waited, job, pre, snap, reads, verdict, fast,      \* the run
  hasher, closing    \* the post-hash thread and its digests

evidence == <<content, size, mtime, present, writes>>
warmVars == <<warm, alive, marker, disk, tmp, out>>
choice   == <<driver, kind>>
runVars  == <<pc, waited, job, pre, snap, reads, verdict, fast>>
threadVars == <<hasher, closing>>
vars == <<choice, evidence, warmVars, runVars, threadVars>>

Directory == -1      \* the DIRECTORY sentinel, chunk by chunk
Unread    == -2
NoStat    == -1
NoInode   == "none"
Earlier   == "earlier"    \* the file left by a previous onboarding session
Inodes    == Workers \cup {Earlier}

Readings == Nat \cup {Directory, Unread}
Sizes    == 0..1     \* two sizes are enough to differ and to return

NothingRead == [c \in Chunks |-> Unread]

\* Mutant of NewJob: the first chunk is numbered from zero.
NewJobFromZero == [at |-> 0, got |-> NothingRead]

NewJob      == [at |-> 1, got |-> NothingRead]
Complete(j) == j.at > NumChunks

FirstOfFile(c) == ~ \E b \in Chunks : b = c - 1 /\ FileOf[b] = FileOf[c]

\* What hashing chunk c feeds into the digest now.
Reading(c) == IF kind[FileOf[c]] = "directory" THEN Directory ELSE content[c]

\* fp.exists() is asked when a file is reached; after that it is open.
Reachable(c) == FirstOfFile(c) => present[FileOf[c]]

Hashed(j) == [at |-> j.at + 1, got |-> [j.got EXCEPT ![j.at] = Reading(j.at)]]

HasSentinel(d) == \E c \in Chunks : d[c] = Directory

-----------------------------------------------------------------------------
(* The evidence and whatever may change it while it is analysed.           *)

Running == pc \notin {"done", "aborted"}

\* A chunk is written; the file may get another size, and always a new mtime.
Write(c) ==
  /\ Running /\ writes < MaxWrites
  /\ kind[FileOf[c]] = "file" /\ present[FileOf[c]]
  /\ content' = [content EXCEPT ![c] = @ + 1]
  /\ \E s \in Sizes : size' = [size EXCEPT ![FileOf[c]] = s]
  /\ mtime' = [mtime EXCEPT ![FileOf[c]] = @ + 1]
  /\ writes' = writes + 1
  /\ UNCHANGED <<choice, present, warmVars, runVars, threadVars>>

\* A path disappears: a disk image is unmounted, a file removed.
Vanish(f) ==
  /\ Running /\ writes < MaxWrites
  /\ present[f]
  /\ present' = [present EXCEPT ![f] = FALSE]
  /\ writes' = writes + 1
  /\ UNCHANGED <<choice, content, size, mtime, warmVars, runVars, threadVars>>

-----------------------------------------------------------------------------
(* Onboarding: warm_sha_async and its threads.                             *)

NoSizes == [f \in Files |-> NoStat]
Idle == [pc |-> "idle", job |-> NewJob, sizes |-> NoSizes, fd |-> NoInode]

Empty == [digests |-> NothingRead, sizes |-> NoSizes, valid |-> FALSE]
Record(w) == [digests |-> warm[w].job.got, sizes |-> warm[w].sizes, valid |-> TRUE]

Warmed == \E w \in Workers : warm[w].pc # "idle"

\* The run looks at onboarding's work once: what the threads do after that is
\* left out, and LoadWarm forgets where they were.
Awaited == alive /\ pc \in {"menu", "await", "load"}

\* A case is chosen: the marker is written before the thread starts.
ChooseCase(w) ==
  /\ pc = "menu" /\ driver = "main" /\ alive
  /\ warm[w].pc = "idle"
  /\ marker' = TRUE
  /\ warm' = [warm EXCEPT ![w].pc = "hash"]
  /\ UNCHANGED <<choice, evidence, alive, disk, tmp, out, runVars, threadVars>>

\* os.stat of a file, before it is hashed.
WarmStat(w) ==
  LET c == warm[w].job.at
  IN /\ Awaited /\ warm[w].pc = "hash" /\ ~Complete(warm[w].job)
     /\ FirstOfFile(c) /\ warm[w].sizes[FileOf[c]] = NoStat
     /\ present[FileOf[c]]
     /\ warm' = [warm EXCEPT ![w].sizes[FileOf[c]] = size[FileOf[c]]]
     /\ UNCHANGED <<choice, evidence, alive, marker, disk, tmp, out, runVars, threadVars>>

WarmRead(w) ==
  LET c == warm[w].job.at
  IN /\ Awaited /\ warm[w].pc = "hash" /\ ~Complete(warm[w].job)
     /\ warm[w].sizes[FileOf[c]] # NoStat
     /\ Reachable(c) /\ kind[FileOf[c]] = "file"
     /\ warm' = [warm EXCEPT ![w].job = Hashed(@)]
     /\ UNCHANGED <<choice, evidence, alive, marker, disk, tmp, out, runVars, threadVars>>

\* Mutant of WarmFail: an early return without _rm_marker.
WarmFailKeepsMarker(w) ==
  LET c == warm[w].job.at
  IN /\ Awaited /\ warm[w].pc = "hash" /\ ~Complete(warm[w].job)
     /\ \/ ~Reachable(c)
        \/ /\ Reachable(c) /\ kind[FileOf[c]] = "directory"
           /\ warm[w].sizes[FileOf[c]] # NoStat
     /\ warm' = [warm EXCEPT ![w].pc = "ended"]
     /\ UNCHANGED <<choice, evidence, alive, marker, disk, tmp, out, runVars, threadVars>>

\* stat or open raises OSError: the marker goes, nothing is published.
WarmFail(w) ==
  LET c == warm[w].job.at
  IN /\ Awaited /\ warm[w].pc = "hash" /\ ~Complete(warm[w].job)
     /\ \/ ~Reachable(c)
        \/ /\ Reachable(c) /\ kind[FileOf[c]] = "directory"
           /\ warm[w].sizes[FileOf[c]] # NoStat
     /\ marker' = FALSE
     /\ warm' = [warm EXCEPT ![w].pc = "ended"]
     /\ UNCHANGED <<choice, evidence, alive, disk, tmp, out, runVars, threadVars>>

\* open(tmp, "w"): truncates the inode another thread may still be filling.
WarmOpen(w) ==
  LET node == IF tmp = NoInode THEN w ELSE tmp
  IN /\ Awaited /\ warm[w].pc = "hash" /\ Complete(warm[w].job)
     /\ disk' = [disk EXCEPT ![node] = Empty]
     /\ tmp' = node
     /\ warm' = [warm EXCEPT ![w].pc = "dump", ![w].fd = node]
     /\ UNCHANGED <<choice, evidence, alive, marker, out, runVars, threadVars>>

\* json.dump and close: the record reaches the inode of the open file.
WarmDump(w) ==
  /\ Awaited /\ warm[w].pc = "dump"
  /\ disk' = [disk EXCEPT ![warm[w].fd] = Record(w)]
  /\ warm' = [warm EXCEPT ![w].pc = "publish"]
  /\ UNCHANGED <<choice, evidence, alive, marker, tmp, out, runVars, threadVars>>

\* os.replace(tmp, out), whose failure is swallowed.
WarmPublish(w) ==
  /\ Awaited /\ warm[w].pc = "publish"
  /\ out' = IF tmp = NoInode THEN out ELSE tmp
  /\ tmp' = NoInode
  /\ warm' = [warm EXCEPT ![w].pc = "unmark"]
  /\ UNCHANGED <<choice, evidence, alive, marker, disk, runVars, threadVars>>

WarmUnmark(w) ==
  /\ Awaited /\ warm[w].pc = "unmark"
  /\ marker' = FALSE
  /\ warm' = [warm EXCEPT ![w].pc = "ended"]
  /\ UNCHANGED <<choice, evidence, alive, disk, tmp, out, runVars, threadVars>>

\* The onboarding process dies, and its daemon threads with it.
KillOnboarding ==
  /\ Awaited /\ Warmed /\ pc # "menu"
  /\ alive' = FALSE
  /\ UNCHANGED <<choice, evidence, warm, marker, disk, tmp, out, runVars, threadVars>>

-----------------------------------------------------------------------------
(* The run up to Step 2: the opening digests.                              *)

\* Only onboarding sets SIFT_PRECOMPUTED_SHA_FILE, and only run_pipeline.py
\* reads it; the coordinator driver hashes in Step 2 itself.
Launch ==
  /\ pc = "menu"
  /\ pc' = IF driver = "coordinator" THEN "rehash" ELSE IF Warmed THEN "await" ELSE "hash"
  /\ UNCHANGED <<choice, evidence, warmVars, waited, job, pre, snap, reads, verdict, fast,
                 threadVars>>

MayStopWaiting == out # NoInode \/ ~marker \/ waited >= MaxWait

\* Mutant of AwaitPoll: the deadline moves with every poll.
AwaitPollUncounted ==
  /\ pc = "await" /\ ~MayStopWaiting
  /\ UNCHANGED <<choice, evidence, warmVars, waited, pc, job, pre, snap, reads, verdict, fast,
                 threadVars>>

AwaitPoll ==
  /\ pc = "await" /\ ~MayStopWaiting
  /\ waited' = waited + 1
  /\ UNCHANGED <<choice, evidence, warmVars, pc, job, pre, snap, reads, verdict, fast, threadVars>>

AwaitEnd ==
  /\ pc = "await" /\ MayStopWaiting
  /\ pc' = "load"
  /\ UNCHANGED <<choice, evidence, warmVars, waited, job, pre, snap, reads, verdict, fast, threadVars>>

\* The published file parses, and every path has the size recorded in it.
Usable ==
  /\ out # NoInode
  /\ disk[out].valid
  /\ \A f \in Files : present[f] /\ size[f] = disk[out].sizes[f]

ForgetOnboarding ==
  /\ warm' = [w \in Workers |-> Idle] /\ alive' = FALSE /\ marker' = FALSE
  /\ disk' = [i \in Inodes |-> Empty] /\ tmp' = NoInode /\ out' = NoInode

LoadWarm ==
  /\ pc = "load"
  /\ IF Usable
       THEN /\ pre' = disk[out].digests
            /\ pc' = "step2"
       ELSE /\ pc' = "hash"
            /\ UNCHANGED pre
  /\ ForgetOnboarding
  /\ UNCHANGED <<choice, evidence, waited, job, snap, reads, verdict, fast, threadVars>>

\* sha256_fingerprint in the run's own thread: preflight, Step 2, Step 15.
HashRead ==
  /\ pc \in {"hash", "rehash", "posthash"}
  /\ ~Complete(job) /\ Reachable(job.at)
  /\ job' = Hashed(job)
  /\ UNCHANGED <<choice, evidence, warmVars, pc, waited, pre, snap, reads, verdict, fast, threadVars>>

\* FileNotFoundError: the run ends in a traceback, with no verdict.
HashRaise ==
  /\ pc \in {"hash", "rehash", "posthash"}
  /\ ~Complete(job) /\ ~Reachable(job.at)
  /\ pc' = "aborted"
  /\ UNCHANGED <<choice, evidence, warmVars, waited, job, pre, snap, reads, verdict, fast, threadVars>>

PreHashed ==
  /\ pc \in {"hash", "rehash"} /\ Complete(job)
  /\ pre' = job.got
  /\ job' = NewJob
  /\ pc' = IF pc = "hash" THEN "step2" ELSE "snapshot"
  /\ UNCHANGED <<choice, evidence, warmVars, waited, snap, reads, verdict, fast, threadVars>>

\* step_02_fingerprint: digests handed over are kept unless one is a sentinel.
HandOver ==
  /\ pc = "step2"
  /\ pc' = IF HasSentinel(pre) THEN "rehash" ELSE "snapshot"
  /\ UNCHANGED <<choice, evidence, warmVars, waited, job, pre, snap, reads, verdict, fast,
                 threadVars>>

StatOf(f) == IF present[f] THEN [size |-> size[f], mtime |-> mtime[f]]
             ELSE [size |-> NoStat, mtime |-> NoStat]

\* _write_evidence_stat_pre
Snapshot ==
  /\ pc = "snapshot"
  /\ snap' = [f \in Files |-> StatOf(f)]
  /\ pc' = "step6"
  /\ UNCHANGED <<choice, evidence, warmVars, waited, job, pre, reads, verdict, fast, threadVars>>

-----------------------------------------------------------------------------
(* Collection, analysis, and the verdict.                                  *)

\* A forensic tool of Step 6, or one called by the investigation of Step 11,
\* reads a chunk.  The mtime is kept for the properties only.
ToolRead(c) ==
  LET f == FileOf[c]
  IN /\ pc \in {"step6", "step11"}
     /\ kind[f] = "file" /\ present[f]
     /\ Cardinality(reads) < MaxReads
     /\ reads' = reads \cup
          {[step |-> pc, chunk |-> c, value |-> content[c], mtime |-> mtime[f]]}
     /\ UNCHANGED <<choice, evidence, warmVars, pc, waited, job, pre, snap, verdict, fast,
                    threadVars>>

CollectionDone ==
  /\ pc = "step6"
  /\ pc' = "step7"
  /\ UNCHANGED <<choice, evidence, warmVars, waited, job, pre, snap, reads, verdict, fast,
                 threadVars>>

\* Step 7: run_pipeline.py submits the closing hash to a thread and goes on.
StartPostHash ==
  /\ pc = "step7"
  /\ hasher' = IF driver = "main" THEN "running" ELSE hasher
  /\ closing' = IF driver = "main" THEN NewJob ELSE closing
  /\ pc' = "step11"
  /\ UNCHANGED <<choice, evidence, warmVars, waited, job, pre, snap, reads, verdict, fast>>

PostRead ==
  /\ hasher = "running" /\ ~Complete(closing) /\ Reachable(closing.at)
  /\ closing' = Hashed(closing)
  /\ UNCHANGED <<choice, evidence, warmVars, runVars, hasher>>

PostRaise ==
  /\ hasher = "running" /\ ~Complete(closing) /\ ~Reachable(closing.at)
  /\ hasher' = "raised"
  /\ UNCHANGED <<choice, evidence, warmVars, runVars, closing>>

PostReady ==
  /\ hasher = "running" /\ Complete(closing)
  /\ hasher' = "ready"
  /\ UNCHANGED <<choice, evidence, warmVars, runVars, closing>>

AnalysisDone ==
  /\ pc = "step11"
  /\ pc' = "step15"
  /\ UNCHANGED <<choice, evidence, warmVars, waited, job, pre, snap, reads, verdict, fast,
                 threadVars>>

\* Mutant of Verdict: all_match is overwritten, the last path decides.
VerdictOfLastPath(post) ==
  IF pre[NumChunks] # Directory /\ post[NumChunks] = pre[NumChunks] THEN "MATCH" ELSE "MISMATCH"

\* compare_fingerprints: a sentinel never matches.
Verdict(post) ==
  IF ~HasSentinel(pre) /\ ~HasSentinel(post) /\ post = pre THEN "MATCH" ELSE "MISMATCH"

\* Step 15 of run_pipeline.py: _post_hash_future.result(), which may raise.
JoinPostHash ==
  /\ pc = "step15" /\ driver = "main"
  /\ \/ /\ hasher = "ready"
        /\ verdict' = Verdict(closing.got)
        /\ pc' = "done"
     \/ /\ hasher = "raised"
        /\ pc' = "aborted"
        /\ UNCHANGED verdict
  /\ UNCHANGED <<choice, evidence, warmVars, waited, job, pre, snap, reads, fast, threadVars>>

\* Mutant of StatUnchanged: mtime_ns is not compared.
SizeUnchanged == \A f \in Files : snap[f].size # NoStat /\ StatOf(f).size = snap[f].size

\* _evidence_stat_unchanged: a path without a snapshot counts as changed.
StatUnchanged == \A f \in Files : snap[f].size # NoStat /\ StatOf(f) = snap[f]

\* Mutant of StatCheck: a changed stat is reported without hashing again.
StatCheckNoRehash ==
  /\ pc = "step15" /\ driver = "coordinator"
  /\ fast' = StatUnchanged
  /\ verdict' = IF StatUnchanged THEN Verdict(pre) ELSE "MISMATCH"
  /\ pc' = "done"
  /\ UNCHANGED <<choice, evidence, warmVars, waited, job, pre, snap, reads, threadVars>>

\* step_15_verify: the fast path compares the opening digests to themselves.
StatCheck ==
  /\ pc = "step15" /\ driver = "coordinator"
  /\ IF StatUnchanged
       THEN /\ fast' = TRUE
            /\ verdict' = Verdict(pre)
            /\ pc' = "done"
       ELSE /\ pc' = "posthash"
            /\ UNCHANGED <<fast, verdict>>
  /\ UNCHANGED <<choice, evidence, warmVars, waited, job, pre, snap, reads, threadVars>>

PostHashed ==
  /\ pc = "posthash" /\ Complete(job)
  /\ verdict' = Verdict(job.got)
  /\ pc' = "done"
  /\ UNCHANGED <<choice, evidence, warmVars, waited, job, pre, snap, reads, fast, threadVars>>

-----------------------------------------------------------------------------

Init ==
  /\ driver \in {"main", "coordinator"}
  /\ kind \in {k \in [Files -> {"file", "directory"}] : \A f \in Files \ Mounts : k[f] = "file"}
  /\ content = [c \in Chunks |-> 0]
  /\ size = [f \in Files |-> 0] /\ mtime = [f \in Files |-> 0]
  /\ present = [f \in Files |-> TRUE] /\ writes = 0
  /\ warm = [w \in Workers |-> Idle]
  /\ alive = TRUE
  /\ marker = FALSE
  /\ disk = [i \in Inodes |-> IF i = Earlier THEN [digests |-> content, sizes |-> size, valid |-> TRUE]
                               ELSE Empty]
  /\ tmp = NoInode
  \* a directory is never published, and no earlier file means no earlier session
  /\ out \in {NoInode} \cup {i \in {Earlier} : driver = "main" /\ \A f \in Files : kind[f] = "file"}
  /\ pc = "menu" /\ waited = 0 /\ job = NewJob /\ pre = NothingRead
  /\ snap = [f \in Files |-> [size |-> NoStat, mtime |-> NoStat]]
  /\ reads = {} /\ verdict = "none" /\ fast = FALSE
  /\ hasher = "off" /\ closing = NewJob

Environment ==
  \/ \E c \in Chunks : Write(c)
  \/ \E f \in Files : Vanish(f)

Onboarding ==
  \/ \E w \in Workers : \/ ChooseCase(w) \/ WarmStat(w) \/ WarmRead(w) \/ WarmFail(w)
                        \/ WarmOpen(w) \/ WarmDump(w) \/ WarmPublish(w) \/ WarmUnmark(w)
  \/ KillOnboarding

Pipeline ==
  \/ AwaitPoll \/ AwaitEnd \/ LoadWarm \/ HashRead \/ HashRaise \/ PreHashed \/ HandOver
  \/ Snapshot \/ CollectionDone \/ StartPostHash \/ AnalysisDone
  \/ JoinPostHash \/ StatCheck \/ PostHashed

Tools == \E c \in Chunks : ToolRead(c)

PostHash == PostRead \/ PostRaise \/ PostReady

Next == Environment \/ Onboarding \/ Launch \/ Tools \/ Pipeline \/ PostHash

Spec == Init /\ [][Next]_vars

\* The run's main thread and its hash thread are scheduled; onboarding may be
\* killed and its threads may starve, and nobody has to touch the evidence.
Fairness == WF_vars(Pipeline) /\ WF_vars(PostHash)

FairSpec == Spec /\ Fairness

-----------------------------------------------------------------------------
(* Properties.                                                             *)

Jobs  == [at : 1..NumChunks + 1, got : [Chunks -> Readings]]
Stats == [size : Sizes \cup {NoStat}, mtime : Nat \cup {NoStat}]
Reads == [step : {"step6", "step11"}, chunk : Chunks, value : Nat, mtime : Nat]
Records == [digests : [Chunks -> Readings], sizes : [Files -> Sizes \cup {NoStat}],
            valid : BOOLEAN]

Threads == [pc : {"idle", "hash", "dump", "publish", "unmark", "ended"}, job : Jobs,
            sizes : [Files -> Sizes \cup {NoStat}], fd : Inodes \cup {NoInode}]

\* Every variable of the run, of onboarding and of the evidence has its type.
TypeOK ==
  /\ driver \in {"main", "coordinator"} /\ kind \in [Files -> {"file", "directory"}]
  /\ content \in [Chunks -> Nat] /\ size \in [Files -> Sizes] /\ mtime \in [Files -> Nat]
  /\ present \in [Files -> BOOLEAN] /\ writes \in Nat
  /\ warm \in [Workers -> Threads]
  /\ alive \in BOOLEAN /\ marker \in BOOLEAN
  /\ disk \in [Inodes -> Records]
  /\ tmp \in Inodes \cup {NoInode} /\ out \in Inodes \cup {NoInode}
  /\ pc \in {"menu", "await", "load", "hash", "step2", "rehash", "snapshot", "step6", "step7",
             "step11", "step15", "posthash", "done", "aborted"}
  /\ waited \in Nat /\ job \in Jobs /\ pre \in [Chunks -> Readings]
  /\ snap \in [Files -> Stats] /\ reads \in SUBSET Reads
  /\ verdict \in {"none", "MATCH", "MISMATCH"} /\ fast \in BOOLEAN
  /\ hasher \in {"off", "running", "ready", "raised"} /\ closing \in Jobs

\* A verdict that rests on two hashes vouches for everything the collection
\* tools of Step 6 read: each chunk they saw is the chunk both digests cover,
\* whichever digest was warm, stale or torn, and whatever was written when.
MatchCoversCollection ==
  verdict = "MATCH" /\ ~fast =>
    \A r \in reads : r.step = "step6" => r.value = pre[r.chunk]

\* The stat fast path of step_15_verify: when it answers MATCH, every tool of
\* the run, at Step 6 or Step 11, read the chunk that is on disk at Step 15.
StatPathSound ==
  fast => \A r \in reads : r.value = content[r.chunk]

\* "EVIDENCE MODIFIED" is never printed over files nobody wrote since their
\* opening digest: not because the warm file was half written, replaced by a
\* second thread, or of an earlier session.
NoFalseAlarm ==
  verdict = "MISMATCH" /\ (\A f \in Files : kind[f] = "file") =>
    \E c \in Chunks : pre[c] # content[c]

\* The in-progress marker stands for a thread that will still remove it, as
\* long as onboarding lives: a failed warm hash never makes the run wait.
MarkerMeansInFlight ==
  alive /\ Warmed /\ marker =>
    \E w \in Workers : warm[w].pc \in {"hash", "dump", "publish", "unmark"}

\* Where the main thread and the hash thread can move.
RunMovable ==
  /\ Running /\ pc # "menu"
  /\ pc = "step15" /\ driver = "main" => hasher \in {"ready", "raised"}

HasherMovable == hasher = "running"

RunEnabled == ENABLED <<Pipeline>>_vars

HasherEnabled == ENABLED <<PostHash>>_vars

\* A thread that can move has a step to take.
GuardsEnabled == (RunMovable => RunEnabled) /\ (HasherMovable => HasherEnabled)

\* A launched run never waits for what cannot come: at Step 15 the hash thread
\* was started and is still at work or over, and a marker nobody will remove is
\* waited for no longer than the bound of await_precomputed_file.
NoStall == Running /\ pc # "menu" => RunMovable \/ HasherMovable

\* What is left to do: the stages, the polls and chunks of the main thread, and
\* the chunks of the hash thread.
StagesLeft ==
  [menu |-> 13, await |-> 12, load |-> 11, hash |-> 10, step2 |-> 9, rehash |-> 8,
   snapshot |-> 7, step6 |-> 6, step7 |-> 5, step11 |-> 4, step15 |-> 3, posthash |-> 2,
   done |-> 0, aborted |-> 0]

CursorLeft == (MaxWait - waited) + (NumChunks + 1 - job.at)

HasherLeft == IF hasher \in {"off", "running"} THEN NumChunks + 2 - closing.at ELSE 0

\* Every step of the run or of its hash thread is a stage, a poll or a chunk
\* fewer, and what is written, removed, warmed or read meanwhile sets neither
\* back: no file is hashed twice for one digest, no stage is entered again.
StepsShrink ==
  [][\/ StagesLeft[pc]' < StagesLeft[pc]
     \/ pc' = pc /\ CursorLeft' < CursorLeft /\ HasherLeft' = HasherLeft
     \/ UNCHANGED <<pc, CursorLeft>> /\ HasherLeft' < HasherLeft
     \/ UNCHANGED <<pc, waited, job, hasher, closing>>]_vars

\* A run that was launched ends, with a verdict or a traceback: neither a
\* marker left by a killed onboarding nor the hash thread can hold it.
RunEnds == pc # "menu" ~> ~Running

=============================================================================
