-------------------------- MODULE IntegrityProofs --------------------------
(* Proofs about Integrity, for any number of files, chunks, warm hashes,    *)
(* writes and reads.  The argument is that a chunk only moves forward: an   *)
(* opening digest is never ahead of a later reading, nor that reading of a  *)
(* later digest, so equal digests leave no room for anything between them.  *)
(* A run that was launched ends because its stages, polls and cursors run   *)
(* out, and the fair threads take them.                                     *)
EXTENDS Integrity, Descent

Opening == {"menu", "await", "load", "hash", "step2", "rehash", "snapshot"}
Collecting == {"step6", "step7"}

\* What a hash job has read is not ahead of the evidence, has no hole, and
\* holds the sentinel only for a directory.
JobOK(j) ==
  \A c \in Chunks :
    /\ j.got[c] <= content[c]
    /\ c < j.at => j.got[c] # Unread
    /\ kind[FileOf[c]] = "file" => j.got[c] # Directory

\* A closing digest is not behind the opening one, nor behind the collection.
Later(j) ==
  \A c \in Chunks :
    j.got[c] \in {Unread, Directory} \/
      /\ pre[c] <= j.got[c]
      /\ \A r \in reads : r.step = "step6" /\ r.chunk = c => r.value <= j.got[c]

DigestsOK ==
  /\ \A c \in Chunks : pre[c] <= content[c]
  /\ \A i \in Inodes : \A c \in Chunks : disk[i].digests[c] <= content[c]

JobsOK == JobOK(job) /\ JobOK(closing) /\ \A w \in Workers : JobOK(warm[w].job)

\* A read lies between the opening digest and the evidence, and between the
\* stat snapshot and the current mtime.
ReadOK(r) ==
  /\ pre[r.chunk] <= r.value /\ r.value <= content[r.chunk]
  /\ snap[FileOf[r.chunk]].mtime <= r.mtime /\ r.mtime <= mtime[FileOf[r.chunk]]
  /\ r.mtime = mtime[FileOf[r.chunk]] => r.value = content[r.chunk]

ReadsOK == \A r \in reads : ReadOK(r)

SnapOK == \A f \in Files : snap[f].mtime <= mtime[f]

PhasesOK ==
  /\ pc \in Opening => reads = {}
  /\ pc \notin {"hash", "rehash", "posthash", "done", "aborted"} => job = NewJob
  /\ pc \in Opening \cup Collecting => closing = NewJob /\ hasher = "off"
  /\ hasher = "ready" => Complete(closing)
  /\ verdict # "none" => pc = "done"
  /\ fast => verdict # "none"

LaterOK == Later(closing) /\ (pc = "posthash" => Later(job))

IInv ==
  /\ TypeOK /\ DigestsOK /\ JobsOK /\ ReadsOK /\ SnapOK /\ PhasesOK /\ LaterOK
  /\ MatchCoversCollection /\ StatPathSound /\ NoFalseAlarm /\ MarkerMeansInFlight

-----------------------------------------------------------------------------
(* Types.                                                                  *)

\* The constants as the proofs use them.
LEMMA ConstantFacts ==
  /\ NumChunks \in Nat \ {0} /\ FileOf \in [Chunks -> Files]
  /\ NoInode \notin Workers /\ Earlier \notin Workers
  BY IntegrityAssumption DEF Chunks, NoInode, Earlier

LEMMA HashedType ==
  ASSUME NEW j \in Jobs, ~Complete(j), TypeOK
  PROVE  /\ j.at \in Chunks /\ Hashed(j) \in Jobs
         /\ Hashed(j).at = j.at + 1
         /\ \A c \in Chunks : Hashed(j).got[c] = IF c = j.at THEN Reading(c) ELSE j.got[c]
  BY ConstantFacts DEF Jobs, Complete, Hashed, Reading, TypeOK, Chunks, Readings, Directory

LEMMA NewJobType == NewJob \in Jobs /\ NothingRead \in [Chunks -> Readings]
  BY ConstantFacts DEF NewJob, NothingRead, Jobs, Readings, Chunks

LEMMA IdleType == Idle \in Threads /\ Empty \in Records
  BY NewJobType DEF Idle, Empty, NoSizes, Threads, Records

LEMMA TypeInit == Init => TypeOK
  <1> SUFFICES ASSUME Init PROVE TypeOK
    OBVIOUS
  <1> USE ConstantFacts, NewJobType DEF Init
  <1>1. Idle \in Threads /\ Empty \in Records
    BY IdleType
  <1>2. disk \in [Inodes -> Records]
    <2>1. [digests |-> content, sizes |-> size, valid |-> TRUE] \in Records
      BY DEF Records, Readings, Sizes
    <2> QED BY <1>1, <2>1
  <1>3. warm \in [Workers -> Threads]
    BY <1>1
  <1>4. snap \in [Files -> Stats]
    BY DEF Stats
  <1>5. /\ alive \in BOOLEAN /\ marker \in BOOLEAN /\ fast \in BOOLEAN
        /\ present \in [Files -> BOOLEAN]
    BY Zenon
  <1>6. out \in Inodes \cup {NoInode} /\ tmp \in Inodes \cup {NoInode}
    BY DEF Inodes
  <1>7. /\ kind \in [Files -> {"file", "directory"}] /\ content \in [Chunks -> Nat]
        /\ size \in [Files -> Sizes] /\ mtime \in [Files -> Nat]
    BY DEF Sizes
  <1> QED BY <1>2, <1>3, <1>4, <1>5, <1>6, <1>7 DEF TypeOK

LEMMA TypeStep == ASSUME TypeOK, [Next]_vars PROVE TypeOK'
  <1> USE ConstantFacts DEF TypeOK
  <1>1. CASE Environment
    <2>1. ASSUME NEW c \in Chunks, Write(c) PROVE TypeOK'
      <3>1. FileOf[c] \in Files
        OBVIOUS
      <3> QED BY <2>1, <3>1 DEF Write, choice, warmVars, runVars, threadVars
    <2>2. ASSUME NEW f \in Files, Vanish(f) PROVE TypeOK'
      BY <2>2 DEF Vanish, choice, warmVars, runVars, threadVars
    <2> QED BY <1>1, <2>1, <2>2 DEF Environment
  <1>2. CASE Onboarding
    <2>1. ASSUME NEW w \in Workers, ChooseCase(w) PROVE TypeOK'
      <3>1. warm' = [warm EXCEPT ![w] = [@ EXCEPT !.pc = "hash"]]
        BY <2>1 DEF ChooseCase
      <3>2. [warm[w] EXCEPT !.pc = "hash"] \in Threads
        BY DEF Threads
      <3> QED BY <2>1, <3>1, <3>2 DEF ChooseCase, choice, evidence, runVars, threadVars
    <2>2. ASSUME NEW w \in Workers, WarmStat(w) PROVE TypeOK'
      <3> DEFINE f == FileOf[warm[w].job.at]
      <3>1. f \in Files
        BY <2>2 DEF WarmStat, Complete, Jobs, Chunks, Threads
      <3>2. [warm[w] EXCEPT !.sizes[f] = size[f]] \in Threads
        BY <3>1 DEF Threads
      <3>3. warm' = [warm EXCEPT ![w] = [@ EXCEPT !.sizes[f] = size[f]]]
        BY <2>2 DEF WarmStat
      <3> QED BY <2>2, <3>2, <3>3 DEF WarmStat, choice, evidence, runVars, threadVars
    <2>3. ASSUME NEW w \in Workers, WarmRead(w) PROVE TypeOK'
      <3>1. Hashed(warm[w].job) \in Jobs
        BY <2>3, HashedType DEF WarmRead, Threads
      <3> DEFINE h == Hashed(warm[w].job)
      <3>2. warm' = [warm EXCEPT ![w].job = h]
        BY <2>3, Zenon DEF WarmRead
      <3> HIDE DEF h
      <3>3. warm' \in [Workers -> Threads]
        BY <3>1, <3>2 DEF Threads, h
      <3> QED BY <2>3, <3>3 DEF WarmRead, choice, evidence, runVars, threadVars
    <2>4. ASSUME NEW w \in Workers, WarmFail(w) PROVE TypeOK'
      <3>1. warm' = [warm EXCEPT ![w] = [@ EXCEPT !.pc = "ended"]]
        BY <2>4 DEF WarmFail
      <3>2. [warm[w] EXCEPT !.pc = "ended"] \in Threads
        BY DEF Threads
      <3>3. marker' \in BOOLEAN
        BY <2>4, Zenon DEF WarmFail
      <3> QED BY <2>4, <3>1, <3>2, <3>3 DEF WarmFail, choice, evidence, runVars, threadVars
    <2>5. ASSUME NEW w \in Workers, WarmOpen(w) PROVE TypeOK'
      <3> DEFINE node == IF tmp = NoInode THEN w ELSE tmp
      <3>1. node \in Inodes
        BY DEF Inodes
      <3>2. warm' = [warm EXCEPT ![w] = [@ EXCEPT !.pc = "dump", !.fd = node]]
        BY <2>5 DEF WarmOpen
      <3>3. [warm[w] EXCEPT !.pc = "dump", !.fd = node] \in Threads
        BY <3>1 DEF Threads
      <3>4. tmp' = node /\ disk' = [disk EXCEPT ![node] = Empty]
        BY <2>5 DEF WarmOpen
      <3> HIDE DEF node
      <3>5. warm' \in [Workers -> Threads] /\ disk' \in [Inodes -> Records]
        BY <3>1, <3>2, <3>3, <3>4, IdleType
      <3> QED BY <2>5, <3>1, <3>4, <3>5 DEF WarmOpen, choice, evidence, runVars, threadVars
    <2>6. ASSUME NEW w \in Workers, WarmDump(w) PROVE TypeOK'
      <3> [warm[w] EXCEPT !.pc = "publish"] \in Threads
        BY DEF Threads
      <3>1. Record(w) \in Records
        <4>1. warm[w].job.got \in [Chunks -> Readings]
          BY DEF Threads, Jobs
        <4>2. warm[w].sizes \in [Files -> Sizes \cup {NoStat}]
          BY DEF Threads
        <4> QED BY <4>1, <4>2 DEF Record, Records
      <3>2. warm' = [warm EXCEPT ![w] = [@ EXCEPT !.pc = "publish"]]
        BY <2>6 DEF WarmDump
      <3>3. warm' \in [Workers -> Threads] /\ disk' \in [Inodes -> Records]
        BY <2>6, <3>1, <3>2 DEF WarmDump
      <3> QED BY <2>6, <3>3 DEF WarmDump, choice, evidence, runVars, threadVars
    <2>7. ASSUME NEW w \in Workers, WarmPublish(w) PROVE TypeOK'
      <3>1. warm' = [warm EXCEPT ![w] = [@ EXCEPT !.pc = "unmark"]]
        BY <2>7 DEF WarmPublish
      <3>2. [warm[w] EXCEPT !.pc = "unmark"] \in Threads
        BY DEF Threads
      <3> QED BY <2>7, <3>1, <3>2 DEF WarmPublish, choice, evidence, runVars, threadVars
    <2>8. ASSUME NEW w \in Workers, WarmUnmark(w) PROVE TypeOK'
      <3>1. warm' = [warm EXCEPT ![w] = [@ EXCEPT !.pc = "ended"]]
        BY <2>8 DEF WarmUnmark
      <3>2. [warm[w] EXCEPT !.pc = "ended"] \in Threads
        BY DEF Threads
      <3>3. marker' \in BOOLEAN
        BY <2>8, Zenon DEF WarmUnmark
      <3> QED BY <2>8, <3>1, <3>2, <3>3 DEF WarmUnmark, choice, evidence, runVars, threadVars
    <2>9. CASE KillOnboarding
      <3>1. alive' \in BOOLEAN
        BY <2>9, Zenon DEF KillOnboarding
      <3> QED BY <2>9, <3>1 DEF KillOnboarding, choice, evidence, runVars, threadVars
    <2> QED BY <1>2, <2>1, <2>2, <2>3, <2>4, <2>5, <2>6, <2>7, <2>8, <2>9 DEF Onboarding
  <1>3. CASE Launch
    BY <1>3 DEF Launch, choice, evidence, warmVars, threadVars
  <1>4. CASE Tools
    BY <1>4 DEF Tools, ToolRead, choice, evidence, warmVars, threadVars, Reads
  <1>5. CASE PostHash
    BY <1>5, HashedType
    DEF PostHash, PostRead, PostRaise, PostReady, choice, evidence, warmVars, runVars
  <1>6. CASE Pipeline
    <2>1. CASE AwaitPoll \/ AwaitEnd \/ HandOver \/ CollectionDone \/ AnalysisDone \/ HashRaise
      BY <2>1 DEF AwaitPoll, AwaitEnd, HandOver, CollectionDone, AnalysisDone, HashRaise,
                  choice, evidence, warmVars, threadVars
    <2>2. CASE LoadWarm
      <3>1. warm' \in [Workers -> Threads] /\ disk' \in [Inodes -> Records]
        BY <2>2, IdleType DEF LoadWarm, ForgetOnboarding
      <3>2. pre' \in [Chunks -> Readings]
        BY <2>2 DEF LoadWarm, Usable, Records
      <3> QED BY <2>2, <3>1, <3>2 DEF LoadWarm, ForgetOnboarding, choice, evidence, threadVars
    <2>3. CASE HashRead
      BY <2>3, HashedType DEF HashRead, choice, evidence, warmVars, threadVars
    <2>4. CASE PreHashed
      BY <2>4, NewJobType DEF PreHashed, choice, evidence, warmVars, threadVars, Jobs
    <2>5. CASE Snapshot
      BY <2>5 DEF Snapshot, StatOf, Stats, choice, evidence, warmVars, threadVars
    <2>6. CASE StartPostHash
      BY <2>6, NewJobType DEF StartPostHash, choice, evidence, warmVars
    <2>7. CASE JoinPostHash \/ StatCheck \/ PostHashed
      BY <2>7 DEF JoinPostHash, StatCheck, PostHashed, Verdict, choice, evidence, warmVars,
                  threadVars
    <2> QED BY <1>6, <2>1, <2>2, <2>3, <2>4, <2>5, <2>6, <2>7 DEF Pipeline
  <1>7. CASE UNCHANGED vars
    BY <1>7 DEF vars, choice, evidence, warmVars, runVars, threadVars
  <1> QED BY <1>1, <1>2, <1>3, <1>4, <1>5, <1>6, <1>7 DEF Next

\* Every variable keeps its type, whatever the sizes of the instance.
THEOREM TypeTheorem == Spec => []TypeOK
  BY TypeInit, TypeStep, PTL DEF Spec

-----------------------------------------------------------------------------
(* Lemmas about reading a chunk into a digest.                             *)

LEMMA ReadingFacts ==
  ASSUME TypeOK, NEW c \in Chunks
  PROVE  /\ Reading(c) \in Readings \ {Unread} /\ Reading(c) <= content[c]
         /\ Reading(c) # Directory => Reading(c) = content[c]
         /\ kind[FileOf[c]] = "file" => Reading(c) = content[c] /\ Reading(c) # Directory
  BY ConstantFacts DEF TypeOK, Reading, Readings, Directory, Unread

LEMMA HashedOK ==
  ASSUME TypeOK, NEW j \in Jobs, ~Complete(j), JobOK(j)
  PROVE  JobOK(Hashed(j))
  <1>1. j.at \in Int
    BY ConstantFacts DEF Jobs
  <1> QED BY <1>1, HashedType, ReadingFacts DEF JobOK, Chunks

\* What is read now is not behind any digest or any read made before.
LEMMA HashedLater ==
  ASSUME TypeOK, DigestsOK, ReadsOK, NEW j \in Jobs, ~Complete(j), Later(j)
  PROVE  Later(Hashed(j))
  BY HashedType, ReadingFacts DEF Later, DigestsOK, ReadsOK, ReadOK, TypeOK, Reads

LEMMA NewJobOK == ASSUME TypeOK PROVE JobOK(NewJob) /\ Later(NewJob)
  BY ConstantFacts DEF JobOK, Later, NewJob, NothingRead, TypeOK, Unread, Directory, Chunks

-----------------------------------------------------------------------------
(* The steps.                                                              *)

\* A step that leaves the evidence, the digests and the reads alone has only
\* to respect the phases.
LEMMA QuietStep ==
  ASSUME IInv, TypeOK', PhasesOK', pc' = "posthash" => pc = "posthash",
         UNCHANGED <<kind, content, mtime, warm, alive, marker, disk, job, pre, snap, reads,
                     verdict, fast, closing>>
  PROVE  IInv'
  <1>1. DigestsOK' /\ JobsOK'
    BY DEF IInv, DigestsOK, JobsOK, JobOK
  <1>2. ReadsOK' /\ SnapOK' /\ LaterOK'
    BY DEF IInv, ReadsOK, ReadOK, SnapOK, LaterOK, Later
  <1>3. MatchCoversCollection' /\ StatPathSound' /\ NoFalseAlarm'
    BY DEF IInv, MatchCoversCollection, StatPathSound, NoFalseAlarm
  <1>4. MarkerMeansInFlight'
    BY DEF IInv, MarkerMeansInFlight, Warmed
  <1> QED BY <1>1, <1>2, <1>3, <1>4 DEF IInv

LEMMA QuietSteps ==
  ASSUME IInv, TypeOK',
         \/ Launch \/ AwaitPoll \/ AwaitEnd \/ HashRaise \/ HandOver \/ CollectionDone
         \/ AnalysisDone \/ PostRaise \/ PostReady \/ \E f \in Files : Vanish(f)
         \/ UNCHANGED vars
  PROVE  IInv'
  <1> USE DEF IInv, choice, evidence, warmVars, runVars, threadVars, PhasesOK, Opening, Collecting
  <1>1. CASE Launch
    BY <1>1, QuietStep DEF Launch
  <1>2. CASE AwaitPoll \/ AwaitEnd
    BY <1>2, QuietStep DEF AwaitPoll, AwaitEnd
  <1>3. CASE HashRaise
    BY <1>3, QuietStep DEF HashRaise
  <1>4. CASE HandOver
    BY <1>4, QuietStep DEF HandOver
  <1>5. CASE CollectionDone \/ AnalysisDone
    BY <1>5, QuietStep DEF CollectionDone, AnalysisDone
  <1>6. CASE PostRaise \/ PostReady
    BY <1>6, QuietStep DEF PostRaise, PostReady
  <1>7. CASE \E f \in Files : Vanish(f)
    BY <1>7, QuietStep DEF Vanish
  <1>8. CASE UNCHANGED vars
    BY <1>8, QuietStep DEF vars
  <1> QED BY <1>1, <1>2, <1>3, <1>4, <1>5, <1>6, <1>7, <1>8

\* A write moves a chunk and the mtime of its file forward.
LEMMA WriteInv ==
  ASSUME IInv, TypeOK', NEW c \in Chunks, Write(c)
  PROVE  IInv'
  <1> USE ConstantFacts DEF IInv
  <1>0. /\ UNCHANGED <<driver, kind, warm, alive, marker, disk, pc, job, pre, snap, reads, verdict,
                      fast, hasher, closing>>
        /\ content' = [content EXCEPT ![c] = @ + 1]
        /\ mtime' = [mtime EXCEPT ![FileOf[c]] = @ + 1]
        /\ pc \notin {"done", "aborted"}
    BY DEF Write, Running, choice, warmVars, runVars, threadVars
  <1>1. \A d \in Chunks : content[d] <= content'[d] /\ content[d] \in Nat /\ content'[d] \in Nat
    BY <1>0 DEF TypeOK
  <1>2. DigestsOK'
    <2>1. \A i \in Inodes : \A d \in Chunks : disk[i].digests[d] \in Readings
      BY DEF TypeOK, Records
    <2>2. \A d \in Chunks : pre[d] \in Readings
      BY DEF TypeOK
    <2> QED BY <1>0, <1>1, <2>1, <2>2 DEF DigestsOK, Readings, Directory, Unread
  <1>3. ASSUME NEW j \in Jobs, JobOK(j)
        PROVE  \A d \in Chunks : /\ j.got[d] <= content'[d]
                                 /\ d < j.at => j.got[d] # Unread
                                 /\ kind'[FileOf[d]] = "file" => j.got[d] # Directory
    <2>1. \A d \in Chunks : j.got[d] \in Readings
      BY DEF Jobs
    <2> QED BY <1>0, <1>1, <1>3, <2>1 DEF JobOK, Readings, Directory, Unread
  <1>4. JobsOK'
    <2>1. \A w \in Workers : warm[w].job \in Jobs
      BY DEF TypeOK, Threads
    <2> QED BY <1>0, <1>3, <2>1 DEF JobsOK, JobOK, TypeOK
  <1>5. ReadsOK'
    <2> SUFFICES ASSUME NEW r \in reads PROVE ReadOK(r)'
      BY <1>0 DEF ReadsOK
    <2>1. ReadOK(r) /\ r.chunk \in Chunks /\ r.value \in Nat /\ r.mtime \in Nat
      BY DEF ReadsOK, TypeOK, Reads
    <2>2. FileOf[r.chunk] \in Files /\ mtime[FileOf[r.chunk]] \in Nat
      BY <2>1 DEF TypeOK
    <2>3. CASE FileOf[r.chunk] = FileOf[c]
      BY <1>0, <1>1, <2>1, <2>2, <2>3 DEF ReadOK, TypeOK
    <2>4. CASE FileOf[r.chunk] # FileOf[c]
      BY <1>0, <1>1, <2>1, <2>2, <2>4 DEF ReadOK, TypeOK
    <2> QED BY <2>3, <2>4
  <1>6. PhasesOK' /\ LaterOK' /\ SnapOK'
    <2>1. \A f \in Files : snap[f].mtime \in Nat \cup {NoStat} /\ mtime[f] \in Nat
      BY DEF TypeOK, Stats
    <2>2. SnapOK'
      BY <1>0, <2>1 DEF SnapOK, NoStat, TypeOK
    <2> QED BY <1>0, <2>2 DEF PhasesOK, LaterOK, Later
  <1>7. verdict' = "none" /\ fast' = FALSE
    BY <1>0 DEF PhasesOK, TypeOK
  <1>8. MatchCoversCollection' /\ StatPathSound' /\ NoFalseAlarm' /\ MarkerMeansInFlight'
    BY <1>0, <1>7 DEF MatchCoversCollection, StatPathSound, NoFalseAlarm, MarkerMeansInFlight,
                      Warmed
  <1> QED BY <1>2, <1>4, <1>5, <1>6, <1>8

\* Onboarding touches the marker, the published record and its own jobs.
LEMMA OnboardingInv ==
  ASSUME IInv, TypeOK', Onboarding
  PROVE  IInv'
  <1> USE DEF IInv
  <1>0. /\ UNCHANGED <<driver, kind, content, mtime, pc, job, pre, snap, reads, verdict, fast,
                      hasher, closing>>
    BY DEF Onboarding, ChooseCase, WarmStat, WarmRead, WarmFail, WarmOpen, WarmDump, WarmPublish,
           WarmUnmark, KillOnboarding, choice, evidence, runVars, threadVars
  <1>1. ReadsOK' /\ PhasesOK' /\ LaterOK' /\ SnapOK'
    BY <1>0 DEF ReadsOK, ReadOK, SnapOK, PhasesOK, LaterOK, Later
  <1>2. MatchCoversCollection' /\ StatPathSound' /\ NoFalseAlarm'
    BY <1>0 DEF MatchCoversCollection, StatPathSound, NoFalseAlarm
  <1>3. ASSUME NEW w \in Workers
        PROVE  warm[w].job \in Jobs /\ JobOK(warm[w].job) /\ warm[w].job.got \in [Chunks -> Readings]
    BY DEF JobsOK, TypeOK, Threads, Jobs
  <1>4. ASSUME \A w \in Workers : JobOK(warm'[w].job)
        PROVE  JobsOK'
    BY <1>0, <1>4 DEF JobsOK, JobOK
  <1>5. ASSUME disk' = disk
        PROVE  DigestsOK'
    BY <1>0, <1>5 DEF DigestsOK
  <1>6. ASSUME NEW w \in Workers,
               ChooseCase(w) \/ WarmStat(w) \/ WarmRead(w) \/ WarmFail(w) \/ WarmOpen(w)
                 \/ WarmDump(w) \/ WarmPublish(w) \/ WarmUnmark(w)
        PROVE  DigestsOK' /\ JobsOK' /\ MarkerMeansInFlight'
    <2> USE DEF TypeOK
    <2>1. CASE ChooseCase(w)
      <3>1. disk' = disk /\ \A v \in Workers : warm'[v].job = warm[v].job
        BY <2>1 DEF ChooseCase, Threads
      <3>2. warm'[w].pc = "hash"
        BY <2>1 DEF ChooseCase, Threads
      <3> QED BY <3>1, <3>2, <1>3, <1>4, <1>5 DEF MarkerMeansInFlight
    <2>2. CASE WarmStat(w)
      <3>1. disk' = disk /\ \A v \in Workers : warm'[v].job = warm[v].job
        BY <2>2 DEF WarmStat, Threads
      <3>2. warm'[w].pc = "hash"
        BY <2>2 DEF WarmStat, Threads
      <3> QED BY <3>1, <3>2, <1>3, <1>4, <1>5 DEF MarkerMeansInFlight
    <2>3. CASE WarmRead(w)
      <3>1. JobOK(Hashed(warm[w].job))
        BY <2>3, <1>3, HashedOK DEF WarmRead
      <3> DEFINE h == Hashed(warm[w].job)
      <3>2. warm' = [warm EXCEPT ![w].job = h] /\ disk' = disk
        BY <2>3, Zenon DEF WarmRead
      <3>3. warm[w].pc = "hash"
        BY <2>3 DEF WarmRead
      <3> HIDE DEF h
      <3>4. warm'[w].pc = "hash" /\ \A v \in Workers : warm'[v].job = IF v = w THEN h ELSE warm[v].job
        BY <3>2, <3>3 DEF Threads
      <3>5. \A v \in Workers : JobOK(warm'[v].job)
        BY <3>1, <3>4, <1>3 DEF h
      <3> QED BY <3>2, <3>4, <3>5, <1>4, <1>5 DEF MarkerMeansInFlight
    <2>4. CASE WarmFail(w)
      <3>1. /\ disk' = disk /\ marker' = FALSE
            /\ \A v \in Workers : warm'[v].job = warm[v].job
        BY <2>4 DEF WarmFail, Threads
      <3> QED BY <3>1, <1>3, <1>4, <1>5 DEF MarkerMeansInFlight
    <2>5. CASE WarmOpen(w)
      <3> DEFINE node == IF tmp = NoInode THEN w ELSE tmp
      <3>1. /\ warm' = [warm EXCEPT ![w] = [@ EXCEPT !.pc = "dump", !.fd = node]]
            /\ disk' = [disk EXCEPT ![node] = Empty]
        BY <2>5 DEF WarmOpen
      <3> HIDE DEF node
      <3>2. warm'[w].pc = "dump" /\ \A v \in Workers : warm'[v].job = warm[v].job
        BY <3>1 DEF Threads
      <3>3. \A i \in Inodes : disk'[i] = disk[i] \/ disk'[i] = Empty
        BY <3>1
      <3>4. \A c \in Chunks : Empty.digests[c] <= content[c]
        BY DEF Empty, NothingRead, Unread
      <3>5. DigestsOK'
        BY <1>0, <3>3, <3>4 DEF DigestsOK
      <3> QED BY <3>2, <3>5, <1>3, <1>4 DEF MarkerMeansInFlight
    <2>6. CASE WarmDump(w)
      <3>1. /\ warm' = [warm EXCEPT ![w] = [@ EXCEPT !.pc = "publish"]]
            /\ disk' = [disk EXCEPT ![warm[w].fd] = Record(w)]
        BY <2>6 DEF WarmDump
      <3>2. warm'[w].pc = "publish" /\ \A v \in Workers : warm'[v].job = warm[v].job
        BY <3>1 DEF Threads
      <3>3. \A i \in Inodes : disk'[i] = disk[i] \/ disk'[i].digests = warm[w].job.got
        BY <3>1 DEF Record
      <3>4. \A c \in Chunks : warm[w].job.got[c] <= content[c]
        BY <1>3 DEF JobOK
      <3>5. DigestsOK'
        BY <1>0, <3>3, <3>4 DEF DigestsOK
      <3> QED BY <3>2, <3>5, <1>3, <1>4 DEF MarkerMeansInFlight
    <2>7. CASE WarmPublish(w)
      <3>1. disk' = disk /\ \A v \in Workers : warm'[v].job = warm[v].job
        BY <2>7 DEF WarmPublish, Threads
      <3>2. warm'[w].pc = "unmark"
        BY <2>7 DEF WarmPublish, Threads
      <3> QED BY <3>1, <3>2, <1>3, <1>4, <1>5 DEF MarkerMeansInFlight
    <2>8. CASE WarmUnmark(w)
      <3>1. /\ disk' = disk /\ marker' = FALSE
            /\ \A v \in Workers : warm'[v].job = warm[v].job
        BY <2>8 DEF WarmUnmark, Threads
      <3> QED BY <3>1, <1>3, <1>4, <1>5 DEF MarkerMeansInFlight
    <2> QED BY <1>6, <2>1, <2>2, <2>3, <2>4, <2>5, <2>6, <2>7, <2>8
  <1>7. CASE KillOnboarding
    <2>1. warm' = warm /\ disk' = disk /\ alive' = FALSE
      BY <1>7 DEF KillOnboarding
    <2> QED BY <2>1, <1>0, <1>1, <1>2, <1>3, <1>4, <1>5 DEF MarkerMeansInFlight
  <1> QED BY <1>1, <1>2, <1>6, <1>7 DEF Onboarding

\* The opening digests: nothing was collected yet, so they only have to be
\* behind the evidence.
LEMMA OpeningInv ==
  ASSUME IInv, TypeOK', LoadWarm \/ PreHashed
  PROVE  IInv'
  <1> USE DEF IInv
  <1>1. /\ UNCHANGED <<kind, content, mtime, snap, reads, verdict, fast, hasher, closing>>
        /\ pc \in Opening /\ pc' \in Opening
        /\ job' \in {job, NewJob} /\ (pc' \notin {"hash", "rehash"} => job' = NewJob)
    BY DEF LoadWarm, PreHashed, choice, evidence, threadVars, Opening, PhasesOK
  <1>2. reads = {} /\ closing = NewJob /\ verdict = "none" /\ fast = FALSE /\ hasher = "off"
    BY <1>1 DEF PhasesOK, Opening, Collecting, TypeOK
  <1>3. \A c \in Chunks : pre'[c] <= content'[c]
    BY <1>1 DEF LoadWarm, PreHashed, Usable, DigestsOK, JobsOK, JobOK, TypeOK
  <1>4. ASSUME NEW i \in Inodes, NEW c \in Chunks
        PROVE  disk'[i].digests[c] <= content'[c]
    <2>1. disk'[i] \in {disk[i], Empty}
      BY DEF LoadWarm, PreHashed, ForgetOnboarding, warmVars
    <2> QED BY <1>1, <2>1 DEF DigestsOK, Empty, NothingRead, Unread, TypeOK
  <1>5. JobOK(NewJob)
    BY NewJobOK
  <1>6. ASSUME NEW w \in Workers
        PROVE  JobOK(warm'[w].job)
    <2>1. warm'[w] \in {warm[w], Idle}
      BY DEF LoadWarm, PreHashed, ForgetOnboarding, warmVars
    <2> QED BY <1>5, <2>1 DEF JobsOK, Idle
  <1>7. JobsOK'
    BY <1>1, <1>5, <1>6 DEF JobsOK, JobOK
  <1>8. Later(closing)'
    BY <1>1, <1>2, NewJobOK DEF Later, NewJob, NothingRead
  <1>9. PhasesOK' /\ LaterOK'
    BY <1>1, <1>2, <1>8 DEF PhasesOK, LaterOK, Opening, Collecting
  <1>10. MatchCoversCollection' /\ StatPathSound' /\ NoFalseAlarm'
    BY <1>1, <1>2 DEF MatchCoversCollection, StatPathSound, NoFalseAlarm
  <1>11. MarkerMeansInFlight'
    BY DEF LoadWarm, PreHashed, ForgetOnboarding, warmVars, MarkerMeansInFlight, Warmed
  <1> QED BY <1>1, <1>2, <1>3, <1>4, <1>7, <1>9, <1>10, <1>11 DEF DigestsOK, ReadsOK, SnapOK

\* Reading one more chunk, by the run or by its hash thread.
LEMMA ReadInv ==
  ASSUME IInv, TypeOK', HashRead \/ PostRead
  PROVE  IInv'
  <1> USE DEF IInv
  <1>0. UNCHANGED <<kind, content, mtime, warm, alive, marker, disk, pc, pre, snap, reads, verdict,
                    fast, hasher>>
    BY DEF HashRead, PostRead, choice, evidence, warmVars, runVars, threadVars
  <1>1. job \in Jobs /\ closing \in Jobs
    BY DEF TypeOK
  <1>2. /\ HashRead => ~Complete(job) /\ job' = Hashed(job) /\ closing' = closing
                      /\ pc \in {"hash", "rehash", "posthash"}
        /\ PostRead => ~Complete(closing) /\ closing' = Hashed(closing) /\ job' = job
                      /\ hasher = "running"
    BY DEF HashRead, PostRead, runVars, threadVars
  <1>3. JobOK(job') /\ JobOK(closing')
    BY <1>1, <1>2, HashedOK DEF JobsOK
  <1>4. Later(closing') /\ (pc = "posthash" => Later(job'))
    BY <1>1, <1>2, HashedLater DEF LaterOK
  <1>5. DigestsOK' /\ JobsOK' /\ ReadsOK' /\ LaterOK'
    BY <1>0, <1>3, <1>4 DEF DigestsOK, JobsOK, JobOK, ReadsOK, ReadOK, LaterOK, Later
  <1>6. PhasesOK' /\ SnapOK'
    BY <1>0, <1>2 DEF PhasesOK, SnapOK, Opening, Collecting
  <1>7. MatchCoversCollection' /\ StatPathSound' /\ NoFalseAlarm' /\ MarkerMeansInFlight'
    BY <1>0 DEF MatchCoversCollection, StatPathSound, NoFalseAlarm, MarkerMeansInFlight, Warmed
  <1> QED BY <1>5, <1>6, <1>7

\* The snapshot is taken before the first read, and the closing thread starts
\* after the last read of the collection.
LEMMA SnapshotInv ==
  ASSUME IInv, TypeOK', Snapshot \/ StartPostHash
  PROVE  IInv'
  <1> USE DEF IInv
  <1>0. /\ UNCHANGED <<kind, content, mtime, warm, alive, marker, disk, job, pre, reads, verdict,
                      fast>>
        /\ Snapshot => reads = {} /\ pc' = "step6" /\ closing' = closing /\ hasher' = hasher
        /\ StartPostHash => snap' = snap /\ closing' = NewJob /\ pc' = "step11"
                           /\ hasher' \in {"off", "running"}
    BY DEF Snapshot, StartPostHash, choice, evidence, warmVars, threadVars, PhasesOK, Opening,
           Collecting
  <1>1. pc = "snapshot" \/ pc = "step7"
    BY DEF Snapshot, StartPostHash
  <1>2. closing' = NewJob /\ job' = NewJob /\ verdict = "none" /\ fast = FALSE
    BY <1>0, <1>1 DEF PhasesOK, Opening, Collecting, TypeOK
  <1>3. JobOK(NewJob) /\ Later(NewJob)
    BY NewJobOK
  <1>4. DigestsOK' /\ JobsOK' /\ LaterOK'
    BY <1>0, <1>2, <1>3 DEF DigestsOK, JobsOK, JobOK, LaterOK, Later
  <1>5. ReadsOK' /\ SnapOK'
    <2>1. \A f \in Files : mtime[f] \in Nat
      BY DEF TypeOK
    <2>2. SnapOK'
      BY <1>0, <2>1 DEF SnapOK, Snapshot, StatOf, NoStat
    <2> QED BY <1>0, <2>2 DEF ReadsOK, ReadOK
  <1>6. PhasesOK'
    <2>1. CASE Snapshot
      BY <1>0, <1>1, <1>2, <2>1 DEF Snapshot, PhasesOK, Opening, Collecting
    <2>2. CASE StartPostHash
      BY <1>0, <1>1, <1>2, <2>2 DEF PhasesOK, Opening, Collecting
    <2> QED BY <2>1, <2>2
  <1>7. MatchCoversCollection' /\ StatPathSound' /\ NoFalseAlarm' /\ MarkerMeansInFlight'
    BY <1>0, <1>2 DEF MatchCoversCollection, StatPathSound, NoFalseAlarm, MarkerMeansInFlight,
                      Warmed
  <1> QED BY <1>4, <1>5, <1>6, <1>7

\* A read of the collection finds no closing digest yet.
LEMMA ToolReadInv ==
  ASSUME IInv, TypeOK', NEW c \in Chunks, ToolRead(c)
  PROVE  IInv'
  <1> USE DEF IInv
  <1> DEFINE new == [step |-> pc, chunk |-> c, value |-> content[c], mtime |-> mtime[FileOf[c]]]
  <1>0. /\ UNCHANGED <<kind, content, mtime, warm, alive, marker, disk, pc, job, pre, snap, verdict,
                      fast, hasher, closing>>
        /\ pc \in {"step6", "step11"}
        /\ reads' = reads \cup {new}
        /\ kind[FileOf[c]] = "file"
    BY DEF ToolRead, choice, evidence, warmVars, threadVars
  <1>1. verdict = "none" /\ fast = FALSE /\ job = NewJob
    BY <1>0 DEF PhasesOK, TypeOK
  <1>2. ReadOK(new)
    <2>1. FileOf[c] \in Files
      BY ConstantFacts
    <2>2. snap[FileOf[c]].mtime <= mtime[FileOf[c]]
      BY <2>1, <1>0 DEF SnapOK
    <2> QED BY <2>1, <2>2 DEF ReadOK, DigestsOK, TypeOK
  <1>3. ReadsOK'
    BY <1>0, <1>2 DEF ReadsOK, ReadOK
  <1>4. Later(closing)'
    <2>1. CASE pc = "step6"
      <3>1. closing' = NewJob
        BY <1>0, <2>1 DEF PhasesOK, Collecting
      <3> QED BY <3>1 DEF Later, NewJob, NothingRead
    <2>2. CASE pc = "step11"
      BY <1>0, <2>2 DEF Later, LaterOK
    <2> QED BY <1>0, <2>1, <2>2
  <1>5. DigestsOK' /\ JobsOK' /\ LaterOK'
    BY <1>0, <1>4 DEF DigestsOK, JobsOK, JobOK, LaterOK
  <1>6. PhasesOK' /\ SnapOK'
    BY <1>0 DEF PhasesOK, Opening, Collecting, SnapOK
  <1>7. MatchCoversCollection' /\ StatPathSound' /\ NoFalseAlarm' /\ MarkerMeansInFlight'
    BY <1>0, <1>1 DEF MatchCoversCollection, StatPathSound, NoFalseAlarm, MarkerMeansInFlight,
                      Warmed
  <1> QED BY <1>3, <1>5, <1>6, <1>7

-----------------------------------------------------------------------------
(* The verdict.                                                            *)

\* What a complete closing digest that is not behind the opening one can say.
LEMMA VerdictSound ==
  ASSUME IInv, NEW j \in Jobs, Complete(j), JobOK(j), Later(j)
  PROVE  /\ Verdict(j.got) = "MATCH" =>
              \A r \in reads : r.step = "step6" => r.value = pre[r.chunk]
         /\ Verdict(j.got) = "MISMATCH" /\ (\A f \in Files : kind[f] = "file") =>
              \E c \in Chunks : pre[c] # content[c]
  <1> USE DEF IInv
  <1>1. \A c \in Chunks : /\ j.got[c] # Unread /\ j.got[c] <= content[c]
                          /\ j.got[c] \in Readings /\ pre[c] \in Readings /\ content[c] \in Nat
                          /\ FileOf[c] \in Files
    BY ConstantFacts DEF JobOK, Complete, Jobs, TypeOK, Chunks
  <1>2. ASSUME Verdict(j.got) = "MATCH", NEW r \in reads, r.step = "step6"
        PROVE  r.value = pre[r.chunk]
    <2>1. r.chunk \in Chunks /\ r.value \in Nat /\ pre[r.chunk] <= r.value
      BY DEF TypeOK, Reads, ReadsOK, ReadOK
    <2>2. j.got[r.chunk] = pre[r.chunk] /\ j.got[r.chunk] # Directory
      BY <1>2, <2>1 DEF Verdict, HasSentinel
    <2>3. r.value <= j.got[r.chunk]
      BY <1>1, <1>2, <2>1, <2>2 DEF Later
    <2> QED BY <1>1, <2>1, <2>2, <2>3 DEF Readings, Directory, Unread
  <1>3. ASSUME Verdict(j.got) = "MISMATCH", \A f \in Files : kind[f] = "file",
               \A c \in Chunks : pre[c] = content[c]
        PROVE  FALSE
    <2>1. \A c \in Chunks : j.got[c] # Directory /\ pre[c] # Directory
      BY <1>1, <1>3 DEF JobOK, Directory
    <2>2. \A c \in Chunks : j.got[c] = pre[c]
      BY <1>1, <1>3, <2>1 DEF Later, Readings, Directory, Unread
    <2>3. j.got = pre
      BY <2>2 DEF Jobs, TypeOK
    <2> QED BY <1>3, <2>1, <2>3 DEF Verdict, HasSentinel
  <1> QED BY <1>2, <1>3

\* The fast path answers MATCH only when no mtime moved since the snapshot,
\* and every read was made after the snapshot.
LEMMA FastSound ==
  ASSUME IInv, StatUnchanged
  PROVE  \A r \in reads : r.value = content[r.chunk]
  <1> SUFFICES ASSUME NEW r \in reads PROVE r.value = content[r.chunk]
    OBVIOUS
  <1>1. ReadOK(r) /\ r.chunk \in Chunks /\ r.mtime \in Nat
    BY DEF IInv, ReadsOK, TypeOK, Reads
  <1>2. FileOf[r.chunk] \in Files /\ mtime[FileOf[r.chunk]] \in Nat
    BY <1>1, ConstantFacts DEF IInv, TypeOK
  <1>3. snap[FileOf[r.chunk]].mtime = mtime[FileOf[r.chunk]]
    <2> DEFINE f == FileOf[r.chunk]
    <2>1. snap[f].size # NoStat /\ StatOf(f) = snap[f]
      BY <1>2 DEF StatUnchanged
    <2>2. present[f]
      BY <2>1 DEF StatOf
    <2>3. StatOf(f).mtime = mtime[f]
      BY <2>2 DEF StatOf
    <2> QED BY <2>1, <2>3
  <1> QED BY <1>1, <1>2, <1>3 DEF ReadOK

\* With nothing written since the opening digest, its comparison to itself
\* cannot be a mismatch.
LEMMA FastNoAlarm ==
  ASSUME IInv, \A c \in Chunks : pre[c] = content[c]
  PROVE  Verdict(pre) = "MATCH"
  <1>1. \A c \in Chunks : pre[c] # Directory
    BY DEF IInv, TypeOK, Directory
  <1> QED BY <1>1 DEF Verdict, HasSentinel

LEMMA VerdictInv ==
  ASSUME IInv, TypeOK', JoinPostHash \/ StatCheck \/ PostHashed
  PROVE  IInv'
  <1> USE DEF IInv
  <1>0. UNCHANGED <<kind, content, mtime, warm, alive, marker, disk, job, pre, snap, reads, hasher,
                    closing>>
    BY DEF JoinPostHash, StatCheck, PostHashed, choice, evidence, warmVars, threadVars
  <1>1. verdict = "none" /\ fast = FALSE /\ pc \in {"step15", "posthash"}
    BY DEF JoinPostHash, StatCheck, PostHashed, PhasesOK, TypeOK
  <1>2. job \in Jobs /\ closing \in Jobs /\ Later(NewJob)
    BY NewJobOK DEF TypeOK
  <1>3. DigestsOK' /\ JobsOK' /\ ReadsOK' /\ SnapOK'
    BY <1>0 DEF DigestsOK, JobsOK, JobOK, ReadsOK, ReadOK, SnapOK
  <1>4. LaterOK'
    <2>1. pc' = "posthash" => job = NewJob
      BY <1>1 DEF JoinPostHash, StatCheck, PostHashed, PhasesOK
    <2> QED BY <1>0, <1>2, <2>1 DEF LaterOK, Later
  <1>5. PhasesOK'
    <2>1. CASE JoinPostHash
      BY <1>0, <1>1, <2>1 DEF JoinPostHash, PhasesOK, Opening, Collecting, Complete
    <2>2. CASE StatCheck
      <3>1. Verdict(pre) # "none"
        BY DEF Verdict
      <3>2. pc = "step15"
        BY <2>2 DEF StatCheck
      <3>3. CASE StatUnchanged
        <4>1. fast' = TRUE /\ verdict' = Verdict(pre) /\ pc' = "done"
          BY <2>2, <3>3 DEF StatCheck
        <4> QED BY <1>0, <1>1, <3>1, <3>2, <4>1 DEF PhasesOK, Opening, Collecting, Complete
      <3>4. CASE ~StatUnchanged
        <4>1. fast' = FALSE /\ verdict' = "none" /\ pc' = "posthash"
          BY <1>1, <2>2, <3>4 DEF StatCheck
        <4> QED BY <1>0, <1>1, <3>2, <4>1 DEF PhasesOK, Opening, Collecting, Complete
      <3> QED BY <3>3, <3>4
    <2>3. CASE PostHashed
      BY <1>0, <1>1, <2>3 DEF PostHashed, PhasesOK, Opening, Collecting, Complete
    <2> QED BY <2>1, <2>2, <2>3
  <1>6. MatchCoversCollection' /\ StatPathSound' /\ NoFalseAlarm'
    <2>1. CASE JoinPostHash
      <3>1. fast' = FALSE /\ (verdict' = "none" \/ (Complete(closing) /\ verdict' = Verdict(closing.got)))
        BY <1>1, <2>1 DEF JoinPostHash, PhasesOK
      <3>2. Complete(closing) => 
              /\ Verdict(closing.got) = "MATCH" =>
                   \A r \in reads : r.step = "step6" => r.value = pre[r.chunk]
              /\ Verdict(closing.got) = "MISMATCH" /\ (\A f \in Files : kind[f] = "file") =>
                   \E c \in Chunks : pre[c] # content[c]
        BY <1>2, VerdictSound DEF JobsOK, LaterOK
      <3> QED BY <1>0, <3>1, <3>2 DEF MatchCoversCollection, StatPathSound, NoFalseAlarm
    <2>2. CASE PostHashed
      <3>1. fast' = FALSE /\ Complete(job) /\ verdict' = Verdict(job.got) /\ pc = "posthash"
        BY <1>1, <2>2 DEF PostHashed
      <3>2. /\ Verdict(job.got) = "MATCH" =>
                 \A r \in reads : r.step = "step6" => r.value = pre[r.chunk]
            /\ Verdict(job.got) = "MISMATCH" /\ (\A f \in Files : kind[f] = "file") =>
                 \E c \in Chunks : pre[c] # content[c]
        BY <1>2, <3>1, VerdictSound DEF JobsOK, LaterOK
      <3> QED BY <1>0, <3>1, <3>2 DEF MatchCoversCollection, StatPathSound, NoFalseAlarm
    <2>3. CASE StatCheck /\ StatUnchanged
      <3>1. fast' = TRUE /\ verdict' = Verdict(pre)
        BY <2>3 DEF StatCheck
      <3> QED BY <1>0, <3>1, <2>3, FastSound, FastNoAlarm
              DEF MatchCoversCollection, StatPathSound, NoFalseAlarm
    <2>4. CASE StatCheck /\ ~StatUnchanged
      <3>1. fast' = FALSE /\ verdict' = "none"
        BY <1>1, <2>4 DEF StatCheck
      <3> QED BY <3>1 DEF MatchCoversCollection, StatPathSound, NoFalseAlarm
    <2> QED BY <2>1, <2>2, <2>3, <2>4
  <1>7. MarkerMeansInFlight'
    BY <1>0 DEF MarkerMeansInFlight, Warmed
  <1> QED BY <1>3, <1>4, <1>5, <1>6, <1>7

-----------------------------------------------------------------------------
(* The invariant and what it gives.                                        *)

LEMMA IInvInit == Init => IInv
  <1> SUFFICES ASSUME Init PROVE IInv
    OBVIOUS
  <1>1. TypeOK /\ JobOK(NewJob) /\ Later(NewJob)
    BY TypeInit, NewJobOK
  <1>2. DigestsOK
    <2>1. \A c \in Chunks : NothingRead[c] <= content[c] /\ content[c] <= content[c]
      BY DEF Init, NothingRead, Unread
    <2>2. \A i \in Inodes : disk[i].digests = content \/ disk[i].digests = NothingRead
      BY DEF Init, Empty
    <2> QED BY <2>1, <2>2 DEF Init, DigestsOK
  <1>3. JobsOK /\ ReadsOK /\ SnapOK /\ LaterOK
    BY <1>1 DEF Init, JobsOK, ReadsOK, SnapOK, LaterOK, Idle, NoStat
  <1>4. PhasesOK
    BY DEF Init, PhasesOK
  <1>5. MatchCoversCollection /\ StatPathSound /\ NoFalseAlarm /\ MarkerMeansInFlight
    BY DEF Init, MatchCoversCollection, StatPathSound, NoFalseAlarm, MarkerMeansInFlight
  <1> QED BY <1>1, <1>2, <1>3, <1>4, <1>5 DEF IInv

LEMMA IInvStep == ASSUME IInv, [Next]_vars PROVE IInv'
  <1>1. TypeOK'
    BY TypeStep DEF IInv
  <1>2. CASE Environment
    BY <1>1, <1>2, WriteInv, QuietSteps DEF Environment
  <1>3. CASE Onboarding
    BY <1>1, <1>3, OnboardingInv
  <1>4. CASE Launch
    BY <1>1, <1>4, QuietSteps
  <1>5. CASE Tools
    BY <1>1, <1>5, ToolReadInv DEF Tools
  <1>6. CASE Pipeline
    BY <1>1, <1>6, QuietSteps, OpeningInv, ReadInv, SnapshotInv, VerdictInv DEF Pipeline
  <1>7. CASE PostHash
    BY <1>1, <1>7, QuietSteps, ReadInv DEF PostHash
  <1>8. CASE UNCHANGED vars
    BY <1>1, <1>8, QuietSteps
  <1> QED BY <1>2, <1>3, <1>4, <1>5, <1>6, <1>7, <1>8 DEF Next

LEMMA IInvAlways == Spec => []IInv
  BY IInvInit, IInvStep, PTL DEF Spec

\* A MATCH of two hashes covers what the collection read: the opening digest
\* is not ahead of it, the closing one not behind it, and they are equal.
THEOREM CollectionTheorem == Spec => []MatchCoversCollection
  <1>1. IInv => MatchCoversCollection
    BY DEF IInv
  <1> QED BY <1>1, IInvAlways, PTL

\* A MATCH of the stat fast path covers every read since the snapshot.
THEOREM StatPathTheorem == Spec => []StatPathSound
  <1>1. IInv => StatPathSound
    BY DEF IInv
  <1> QED BY <1>1, IInvAlways, PTL

\* A MISMATCH of regular files means that a chunk was written since the
\* opening digest read it, even when that digest came from onboarding.
THEOREM AlarmTheorem == Spec => []NoFalseAlarm
  <1>1. IInv => NoFalseAlarm
    BY DEF IInv
  <1> QED BY <1>1, IInvAlways, PTL

\* While onboarding lives, its marker stands for a thread that will remove it.
THEOREM MarkerTheorem == Spec => []MarkerMeansInFlight
  <1>1. IInv => MarkerMeansInFlight
    BY DEF IInv
  <1> QED BY <1>1, IInvAlways, PTL

-----------------------------------------------------------------------------
(* The run gets nearer its end.                                            *)

\* What main waits for was started, and it polls no longer than allowed.
Launched ==
  /\ pc \in {"step11", "step15"} /\ driver = "main" => hasher # "off"
  /\ waited <= MaxWait

LEMMA LaunchedStep == ASSUME TypeOK, Launched, [Next]_vars PROVE Launched'
  <1> USE IntegrityAssumption DEF TypeOK
  <1>1. CASE Environment \/ Onboarding \/ Tools \/ UNCHANGED vars
    <2>1. UNCHANGED <<pc, driver, hasher, waited>>
      BY <1>1 DEF Environment, Onboarding, Tools, vars, choice, runVars, threadVars, Write,
         Vanish, ChooseCase, WarmStat, WarmRead, WarmFail, WarmOpen, WarmDump, WarmPublish,
         WarmUnmark, KillOnboarding, ToolRead
    <2> QED BY <2>1 DEF Launched
  <1>2. CASE Launch
    BY <1>2 DEF Launch, choice, threadVars, Launched
  <1>3. CASE AwaitPoll
    BY <1>3 DEF AwaitPoll, MayStopWaiting, choice, threadVars, Launched
  <1>4. CASE StartPostHash
    BY <1>4 DEF StartPostHash, choice, Launched
  <1>5. CASE AnalysisDone
    BY <1>5 DEF AnalysisDone, choice, threadVars, Launched
  <1>6. CASE Pipeline /\ ~AwaitPoll /\ ~StartPostHash /\ ~AnalysisDone
    <2>1. UNCHANGED <<driver, hasher, waited>> /\ (pc' = pc \/ pc' \notin {"step11", "step15"})
      BY <1>6 DEF Pipeline, choice, threadVars, AwaitEnd, LoadWarm, HashRead, HashRaise,
         PreHashed, HandOver, Snapshot, CollectionDone, JoinPostHash, StatCheck, PostHashed
    <2> QED BY <2>1 DEF Launched
  <1>7. CASE PostHash
    BY <1>7 DEF PostHash, PostRead, PostRaise, PostReady, choice, runVars, Launched
  <1> QED BY <1>1, <1>2, <1>3, <1>4, <1>5, <1>6, <1>7 DEF Next

LEMMA LaunchedAlways == Spec => [](TypeOK /\ Launched)
  <1>1. Init => Launched
    BY IntegrityAssumption DEF Init, Launched
  <1> QED BY <1>1, LaunchedStep, TypeTheorem, PTL DEF Spec

\* A launched run can always move, or its hash thread can.
THEOREM NoStallTheorem == Spec => []NoStall
  <1>1. TypeOK /\ Launched => NoStall
    BY DEF TypeOK, Launched, NoStall, RunMovable, HasherMovable, Running
  <1> QED BY <1>1, LaunchedAlways, PTL

LEMMA StagesLeftValues ==
  /\ StagesLeft["menu"] = 13 /\ StagesLeft["await"] = 12 /\ StagesLeft["load"] = 11
  /\ StagesLeft["hash"] = 10 /\ StagesLeft["step2"] = 9 /\ StagesLeft["rehash"] = 8
  /\ StagesLeft["snapshot"] = 7 /\ StagesLeft["step6"] = 6 /\ StagesLeft["step7"] = 5
  /\ StagesLeft["step11"] = 4 /\ StagesLeft["step15"] = 3 /\ StagesLeft["posthash"] = 2
  /\ StagesLeft["done"] = 0 /\ StagesLeft["aborted"] = 0
  BY DEF StagesLeft

\* What is left is a natural number, so it cannot shrink for ever.
LEMMA LeftIsNat ==
  ASSUME TypeOK, Launched
  PROVE  StagesLeft[pc] \in Nat /\ CursorLeft \in Nat /\ HasherLeft \in Nat
  <1>1. StagesLeft[pc] \in Nat
    BY StagesLeftValues DEF TypeOK
  <1>2. job.at \in 1..NumChunks + 1 /\ closing.at \in 1..NumChunks + 1
    BY DEF TypeOK, Jobs
  <1> QED BY <1>1, <1>2, IntegrityAssumption DEF TypeOK, Launched, CursorLeft, HasherLeft

LEMMA RunShrinks ==
  ASSUME TypeOK, Launch \/ Pipeline
  PROVE  \/ StagesLeft[pc'] < StagesLeft[pc]
         \/ pc' = pc /\ CursorLeft' < CursorLeft /\ HasherLeft' = HasherLeft
  <1>1. CASE AwaitPoll
    <2>1. pc' = pc /\ waited' = waited + 1 /\ job' = job /\ UNCHANGED threadVars
      BY <1>1 DEF AwaitPoll
    <2>2. job.at \in Nat
      BY DEF TypeOK, Jobs
    <2> QED BY <2>1, <2>2, IntegrityAssumption DEF TypeOK, threadVars, CursorLeft, HasherLeft
  <1>2. CASE HashRead
    <2>1. pc' = pc /\ waited' = waited /\ job' = Hashed(job) /\ UNCHANGED threadVars
      BY <1>2 DEF HashRead
    <2>2. job'.at = job.at + 1 /\ job.at \in Nat
      BY <1>2, <2>1, HashedType DEF HashRead, TypeOK, Jobs
    <2> QED BY <2>1, <2>2, IntegrityAssumption DEF TypeOK, threadVars, CursorLeft, HasherLeft
  <1>3. CASE Launch
    BY <1>3, StagesLeftValues DEF Launch
  <1>4. CASE AwaitEnd \/ LoadWarm
    BY <1>4, StagesLeftValues DEF AwaitEnd, LoadWarm
  <1>5. CASE HashRaise \/ PreHashed
    BY <1>5, StagesLeftValues DEF HashRaise, PreHashed
  <1>6. CASE HandOver \/ Snapshot \/ CollectionDone \/ StartPostHash \/ AnalysisDone
    BY <1>6, StagesLeftValues DEF HandOver, Snapshot, CollectionDone, StartPostHash, AnalysisDone
  <1>7. CASE JoinPostHash \/ StatCheck \/ PostHashed
    BY <1>7, StagesLeftValues DEF JoinPostHash, StatCheck, PostHashed
  <1> QED BY <1>1, <1>2, <1>3, <1>4, <1>5, <1>6, <1>7 DEF Pipeline

LEMMA HasherShrinks ==
  ASSUME TypeOK, PostHash
  PROVE  UNCHANGED <<pc, CursorLeft>> /\ HasherLeft' < HasherLeft
  <1>1. UNCHANGED <<pc, CursorLeft>>
    BY DEF PostHash, PostRead, PostRaise, PostReady, runVars, CursorLeft
  <1>2. closing.at \in 1..NumChunks + 1 /\ hasher = "running"
    BY DEF TypeOK, Jobs, PostHash, PostRead, PostRaise, PostReady
  <1>3. CASE PostRead
    <2>1. closing'.at = closing.at + 1 /\ hasher' = hasher
      BY <1>3, HashedType DEF PostRead, TypeOK
    <2> QED BY <1>1, <1>2, <2>1, IntegrityAssumption DEF HasherLeft
  <1>4. CASE PostRaise \/ PostReady
    <2>1. hasher' \in {"raised", "ready"}
      BY <1>4 DEF PostRaise, PostReady
    <2> QED BY <1>1, <1>2, <2>1, IntegrityAssumption DEF HasherLeft
  <1> QED BY <1>3, <1>4 DEF PostHash

\* Every step of the run or of its hash thread leaves less to do, and no other
\* step leaves more.
THEOREM ShrinkTheorem == Spec => StepsShrink
  <1>1. StagesLeft' = StagesLeft
    BY DEF StagesLeft
  <1>2. ASSUME Environment \/ Onboarding \/ Tools
        PROVE  UNCHANGED <<pc, waited, job, hasher, closing>>
    BY <1>2 DEF Environment, Onboarding, Tools, runVars, threadVars, Write,
       Vanish, ChooseCase, WarmStat, WarmRead, WarmFail, WarmOpen, WarmDump, WarmPublish,
       WarmUnmark, KillOnboarding, ToolRead
  <1>3. TypeOK /\ [Next]_vars =>
          [\/ StagesLeft[pc]' < StagesLeft[pc]
           \/ pc' = pc /\ CursorLeft' < CursorLeft /\ HasherLeft' = HasherLeft
           \/ UNCHANGED <<pc, CursorLeft>> /\ HasherLeft' < HasherLeft
           \/ UNCHANGED <<pc, waited, job, hasher, closing>>]_vars
    BY <1>1, <1>2, RunShrinks, HasherShrinks DEF Next
  <1> QED BY <1>3, TypeTheorem, PTL DEF Spec, StepsShrink

-----------------------------------------------------------------------------
(* The run ends.  Fairness is that of FairSpec; that the guards imply       *)
(* ENABLED is the hypothesis GuardsEnabled.                                *)

RunGuardFair == []<>~RunMovable \/ []<><<Pipeline>>_vars

HasherGuardFair == []<>~HasherMovable \/ []<><<PostHash>>_vars

LEMMA ThreadsAreFair == Fairness /\ []GuardsEnabled => RunGuardFair /\ HasherGuardFair
  <1>1. GuardsEnabled => (RunMovable => RunEnabled) /\ (HasherMovable => HasherEnabled)
    BY DEF GuardsEnabled
  <1> QED BY <1>1, PTL DEF Fairness, RunEnabled, HasherEnabled, RunGuardFair, HasherGuardFair

\* From now on: the invariants, the steps, the fairness and the guards.
Invs == TypeOK /\ Launched /\ NoStall

Runs == []Invs /\ [][Next]_vars /\ []Fairness /\ []GuardsEnabled

LEMMA FairSpecRuns == FairSpec /\ []GuardsEnabled => Runs
  <1>1. Fairness => []Fairness
    BY PTL DEF Fairness
  <1> QED BY <1>1, LaunchedAlways, NoStallTheorem, PTL DEF FairSpec, Spec, Runs, Invs

\* All that is left: a stage outweighs the polls and chunks of both threads.
StageWeight == MaxWait + 2 * NumChunks + 2
Total == StageWeight * StagesLeft[pc] + CursorLeft + HasherLeft

Begun == pc # "menu"

LEMMA LeftBounds ==
  ASSUME TypeOK, Launched
  PROVE  /\ StagesLeft[pc] \in 0..13 /\ CursorLeft \in 0..MaxWait + NumChunks
         /\ HasherLeft \in 0..NumChunks + 1
  <1>1. StagesLeft[pc] \in 0..13
    BY StagesLeftValues DEF TypeOK
  <1>2. job.at \in 1..NumChunks + 1 /\ closing.at \in 1..NumChunks + 1
    BY DEF TypeOK, Jobs
  <1> QED BY <1>1, <1>2, IntegrityAssumption DEF TypeOK, Launched, CursorLeft, HasherLeft

LEMMA Weighing ==
  ASSUME NEW k \in Nat, NEW a \in 0..13, NEW b \in 0..13, b < a
  PROVE  k * b + k <= k * a
  <1>1. PICK d \in Nat : a = b + 1 + d
    <2>1. a - b - 1 \in Nat /\ a = b + 1 + (a - b - 1)
      OBVIOUS
    <2> QED BY <2>1
  <1>2. k * a = k * b + k + k * d
    BY <1>1
  <1>3. k * d >= 0 /\ k * d \in Int /\ k * b \in Int
    OBVIOUS
  <1> QED BY <1>2, <1>3

LEMMA WeighedSum ==
  ASSUME NEW m \in Nat, NEW n \in Nat, NEW a \in 0..13, NEW b \in 0..13,
         NEW c \in 0..m + n, NEW d \in 0..m + n, NEW h \in 0..n + 1, NEW g \in 0..n + 1,
         b < a \/ (b = a /\ d < c /\ g = h) \/ (b = a /\ d = c /\ g < h)
  PROVE  (m + 2 * n + 2) * b + d + g < (m + 2 * n + 2) * a + c + h
  <1> DEFINE k == m + 2 * n + 2
  <1>1. k \in Nat /\ d + g < k /\ d + g \in Nat /\ c + h \in Nat
    OBVIOUS
  <1>2. k * a \in Nat /\ k * b \in Nat
    BY <1>1
  <1>3. b < a => k * b + k <= k * a
    BY <1>1, Weighing
  <1> HIDE DEF k
  <1>4. k * b + (d + g) < k * a + (c + h)
    BY <1>1, <1>2, <1>3
  <1>5. k * b + d + g < k * a + c + h
    BY <1>1, <1>2, <1>4
  <1> QED BY <1>5 DEF k

LEMMA TotalIsNat == Invs => Total \in Nat
  <1> SUFFICES ASSUME Invs PROVE Total \in Nat
    OBVIOUS
  <1>1. StageWeight \in Nat
    BY IntegrityAssumption DEF StageWeight
  <1>2. StagesLeft[pc] \in Nat /\ CursorLeft \in Nat /\ HasherLeft \in Nat
    BY LeftIsNat DEF Invs
  <1>3. StageWeight * StagesLeft[pc] \in Nat
    BY <1>1, <1>2
  <1> QED BY <1>2, <1>3 DEF Total

LEMMA TotalFalls ==
  ASSUME Invs, Invs', Launch \/ Pipeline \/ PostHash
  PROVE  Total' < Total
  <1>1. StageWeight \in Nat /\ MaxWait \in Nat /\ NumChunks \in Nat
    BY IntegrityAssumption DEF StageWeight
  <1>2. /\ StagesLeft[pc] \in 0..13 /\ CursorLeft \in 0..MaxWait + NumChunks
        /\ HasherLeft \in 0..NumChunks + 1
    BY LeftBounds DEF Invs
  <1>3. /\ StagesLeft[pc'] \in 0..13 /\ CursorLeft' \in 0..MaxWait + NumChunks
        /\ HasherLeft' \in 0..NumChunks + 1
    <2>1. (TypeOK /\ Launched =>
             /\ StagesLeft[pc] \in 0..13 /\ CursorLeft \in 0..MaxWait + NumChunks
             /\ HasherLeft \in 0..NumChunks + 1)'
      BY LeftBounds, PTL
    <2> QED BY <2>1 DEF Invs, StagesLeft
  <1>4. /\ Total = StageWeight * StagesLeft[pc] + CursorLeft + HasherLeft
        /\ Total' = StageWeight * StagesLeft[pc'] + CursorLeft' + HasherLeft'
    BY DEF Total, StageWeight, StagesLeft
  <1>5. \/ StagesLeft[pc'] < StagesLeft[pc]
        \/ pc' = pc /\ CursorLeft' < CursorLeft /\ HasherLeft' = HasherLeft
        \/ pc' = pc /\ CursorLeft' = CursorLeft /\ HasherLeft' < HasherLeft
    BY RunShrinks, HasherShrinks DEF Invs
  <1> QED BY <1>1, <1>2, <1>3, <1>4, <1>5, WeighedSum DEF StageWeight

\* What the environment, onboarding and the tools do leaves it all alone.
LEMMA OthersLeaveIt ==
  ASSUME Environment \/ Onboarding \/ Tools \/ UNCHANGED vars
  PROVE  /\ Total' = Total /\ Begun' = Begun
         /\ RunMovable' = RunMovable /\ HasherMovable' = HasherMovable
  <1>1. UNCHANGED <<pc, driver, waited, job, hasher, closing>>
    BY DEF Environment, Onboarding, Tools, vars, choice, runVars, threadVars, Write,
       Vanish, ChooseCase, WarmStat, WarmRead, WarmFail, WarmOpen, WarmDump, WarmPublish,
       WarmUnmark, KillOnboarding, ToolRead
  <1> QED BY <1>1 DEF Total, StageWeight, CursorLeft, HasherLeft, StagesLeft, Begun,
                      RunMovable, HasherMovable, Running

\* No step goes back to the menu.
LEMMA StaysBegun == ASSUME Begun, [Next]_vars PROVE Begun'
  <1>1. CASE Environment \/ Onboarding \/ Tools \/ UNCHANGED vars
    BY <1>1, OthersLeaveIt
  <1>2. CASE Launch
    BY <1>2 DEF Launch, Begun
  <1>3. CASE Pipeline
    BY <1>3 DEF Pipeline, AwaitPoll, AwaitEnd, LoadWarm, HashRead, HashRaise, PreHashed,
       HandOver, Snapshot, CollectionDone, StartPostHash, AnalysisDone, JoinPostHash,
       StatCheck, PostHashed, Begun
  <1>4. CASE PostHash
    BY <1>4 DEF PostHash, PostRead, PostRaise, PostReady, runVars, Begun
  <1> QED BY <1>1, <1>2, <1>3, <1>4 DEF Next

FallsBelow(n) == <>(Begun /\ Total < n)

\* The thread that can move brings what is left down, and so does any step of
\* the other one.
LEMMA Advances ==
  ASSUME NEW n \in Nat
  PROVE  Runs => (Begun /\ Total = n => FallsBelow(n) \/ <>~Running)
  <1> DEFINE RunCan == Begun /\ Total = n /\ RunMovable
             HasherCan == Begun /\ Total = n /\ HasherMovable
             Lower == Begun /\ Total < n
  <1>1. ASSUME Invs, Invs', Begun, Total = n, [Next]_vars
        PROVE  \/ Lower'
               \/ /\ (Begun /\ Total = n)'
                  /\ RunMovable' = RunMovable /\ HasherMovable' = HasherMovable
    BY <1>1, TotalFalls, OthersLeaveIt, StaysBegun DEF Next
  <1>2. /\ Invs /\ Invs' /\ RunCan /\ [Next]_vars => RunCan' \/ Lower'
        /\ Invs /\ Invs' /\ HasherCan /\ [Next]_vars => HasherCan' \/ Lower'
    BY <1>1
  <1>3. /\ Invs /\ Invs' /\ RunCan /\ [Next]_vars /\ <<Pipeline>>_vars => Lower'
        /\ Invs /\ Invs' /\ HasherCan /\ [Next]_vars /\ <<PostHash>>_vars => Lower'
    BY TotalFalls, StaysBegun
  <1>4. Invs => (Begun /\ Total = n => RunCan \/ HasherCan \/ ~Running)
    BY DEF Invs, NoStall, Begun
  <1>5. RunCan => RunMovable
    OBVIOUS
  <1>6. HasherCan => HasherMovable
    OBVIOUS
  <1> HIDE DEF RunCan, HasherCan
  <1> QED BY <1>2, <1>3, <1>4, <1>5, <1>6, ThreadsAreFair, PTL
          DEF Runs, RunGuardFair, HasherGuardFair, FallsBelow

\* With less than n left, a run that was launched ends.
EndsWithin(n) == [](Begun /\ Total < n => <>~Running)

LEMMA EndsWithNothing == Runs => EndsWithin(0)
  <1>1. Invs => ~(Total < 0)
    BY TotalIsNat
  <1> QED BY <1>1, PTL DEF EndsWithin, Runs

LEMMA OneStepMore ==
  ASSUME NEW n \in Nat
  PROVE  Runs => (EndsWithin(n) => EndsWithin(n + 1))
  <1>1. Invs => (Total < n + 1 => Total < n \/ Total = n)
    BY TotalIsNat
  <1>2. Runs => []Runs
    BY PTL DEF Runs
  <1> QED BY <1>1, <1>2, Advances, PTL DEF EndsWithin, FallsBelow, Runs

\* A run that was launched ends, whatever onboarding, the hash thread and the
\* environment do, for any number of files and chunks: by induction on what is
\* left.
THEOREM RunEndsTheorem == FairSpec /\ []GuardsEnabled => RunEnds
  <1>1. ASSUME Runs PROVE Begun => <>~Running
    <2>1. Invs
      BY <1>1, PTL DEF Runs
    <2>2. EndsWithin(0)
      BY <1>1, EndsWithNothing
    <2>3. \A n \in Nat : EndsWithin(n) => EndsWithin(n + 1)
      BY <1>1, OneStepMore
    <2>4. Table([n \in Nat |-> EndsWithin(n)])
      BY DEF Table
    <2>5. \A n \in Nat : EndsWithin(n)
      BY <2>2, <2>3, <2>4, TableInduction
    <2>6. PICK n \in Nat : Total < n
      <3>1. Total + 1 \in Nat /\ Total < Total + 1
        BY <2>1, TotalIsNat
      <3> QED BY <3>1
    <2>7. EndsWithin(n)
      BY <2>5
    <2> QED BY <2>6, <2>7, PTL DEF EndsWithin
  <1>2. Runs => []Runs
    BY PTL DEF Runs
  <1>3. Begun <=> pc # "menu"
    BY DEF Begun
  <1> QED BY <1>1, <1>2, <1>3, FairSpecRuns, PTL DEF RunEnds
=============================================================================
