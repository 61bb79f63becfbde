-------------------------- MODULE SourcePreparation --------------------------
(***************************************************************************)
(* The hosted preparation of Minecraft sources: the pool that decompiles    *)
(* single classes (src/src/tools/vanilla.ts), the queue that builds whole   *)
(* versions (src/src/tools/hosted-mc-index.ts), the detached Vineflower and *)
(* its sentinel files (src/src/java-tools.ts) and the search index          *)
(* (src/src/tools/mc-fts.ts).  The server may stop at any time: Vineflower, *)
(* the files and the index stay.                                            *)
(*                                                                          *)
(* A source text is "torn" while it is written, "raw" with the names of the *)
(* jar, and "whole" when it has the names a reader expects.                 *)
(***************************************************************************)
EXTENDS Naturals, FiniteSets, Sequences, SequencesExt

CONSTANTS
  Version, Class,
  VersionOf,    \* the version a class belongs to
  Srg,          \* the versions whose names are replaced after decompilation
  Slots,        \* classes prepared at the same time: 2
  MaxQueue,     \* 16
  MaxRuns,      \* bound on the runs of Vineflower for a version
  MaxFaults     \* bound on restarts, failures and timeouts

ASSUME PreparationAssumption ==
  /\ Version # {} /\ VersionOf \in [Class -> Version] /\ Srg \subseteq Version
  /\ {Slots, MaxQueue, MaxRuns, MaxFaults} \subseteq Nat \ {0}

VARIABLES
  prep,         \* classPreparations
  prepQueue,    \* classPreparationQueue
  active,       \* activeClassPreparations
  busy,         \* activeClassPreparationVersions
  worker,       \* a running preparation: its step, the file it chose, the text it read
  job,          \* jobs of hosted-mc-index.ts
  jobQueue,     \* its queue
  build,        \* the job that runs, its step, and the files it has to index
  naming,       \* mcpNamingJobs: a job's step, and the files it has to walk
  mcp,          \* mcpCache: whether the names of a version's members are to be had
  completed,    \* versions known to be indexed
  dir,          \* the sentinels of a version's directory and its processes
  standard,     \* the directory's file of a class
  priority,     \* the class' file of its own, and its .ready marker
  rows,         \* mc_source_files
  indexed,      \* mc_versions.indexed
  late,         \* history: classes whose file changed before its text was stored
  doubled,      \* history: versions with two Vineflowers at once
  nameless,     \* history: classes that passed for named when there were no names
  faults

vars == <<prep, prepQueue, active, busy, worker, job, jobQueue, build,
          naming, mcp, completed, dir, standard, priority, rows, indexed, late,
          doubled, nameless, faults>>

Pool  == <<prep, prepQueue, active, busy, worker>>
Jobs  == <<job, jobQueue, build, naming, mcp, completed>>
Files == <<dir, standard, priority>>
Index == <<rows, indexed>>
Hist  == <<late, doubled, nameless>>

Text == {"none", "torn", "raw", "whole"}
ClassesOf(v) == {c \in Class : VersionOf[c] = v}
Run == 1..MaxRuns
NoWork == [at |-> "idle", from |-> "none", text |-> "none"]
NoBuild == [at |-> "idle", of |-> CHOOSE v \in Version : TRUE, left |-> {}]
NoNaming == [at |-> "idle", left |-> {}]
NoProcess == [state |-> "none", todo |-> {}, on |-> {}]
NoDir == [done |-> FALSE, error |-> FALSE, running |-> 0, named |-> FALSE,
          proc |-> [n \in Run |-> NoProcess]]

\* The pool's counters agree with the states of its jobs, at most Slots classes are
\* prepared at the same time and no two of one version.
Preparing == {c \in Class : prep[c] = "running"}

PoolInStep ==
  /\ {c \in Class : prep[c] = "queued"} = Range(prepQueue)
  /\ active = Cardinality(busy) /\ active <= Slots
  /\ busy = {VersionOf[c] : c \in Preparing}
  /\ \A c, d \in Preparing : VersionOf[c] = VersionOf[d] => c = d
  /\ \A c \in Class : worker[c].at = "idle" <=> c \notin Preparing

TypeOK ==
  /\ prep \in [Class -> {"none", "queued", "running", "failed"}]
  /\ prepQueue \in Seq(Class) /\ IsInjective(prepQueue)
  /\ active \in Nat /\ busy \in SUBSET Version /\ PoolInStep
  /\ worker \in [Class -> [at : {"idle", "check", "writing", "read", "store"},
                           from : {"none", "standard", "priority"}, text : Text]]
  /\ job \in [Version -> {"none", "queued", "running", "failed"}]
  /\ {v \in Version : job[v] = "queued"} = Range(jobQueue) /\ IsInjective(jobQueue)
  /\ build \in [at : {"idle", "check", "decompile", "mark", "poll", "names", "list", "index"},
                of : Version, left : SUBSET Class]
  /\ \A v \in Version : job[v] = "running" <=> build.at # "idle" /\ build.of = v
  /\ naming \in [Version -> [at : {"idle", "waiting", "walking"}, left : SUBSET Class]]
  /\ mcp \in [Version -> {"unasked", "found", "missing"}] /\ completed \in SUBSET Version
  /\ dir \in [Version -> [done : BOOLEAN, error : BOOLEAN, running : 0..MaxRuns, named : BOOLEAN,
                proc : [Run -> [state : {"none", "child", "orphan", "dead"},
                                todo : SUBSET Class, on : SUBSET Class]]]]
  /\ standard \in [Class -> Text]
  /\ priority \in [Class -> [text : Text, ready : BOOLEAN]]
  /\ rows \in [Class -> Text] /\ indexed \in [Version -> BOOLEAN]
  /\ late \in SUBSET Class /\ doubled \in SUBSET Version /\ nameless \in SUBSET Class
  /\ faults \in 0..MaxFaults

Init ==
  /\ prepQueue = <<>> /\ active = 0 /\ busy = {}
  /\ prep = [c \in Class |-> "none"] /\ worker = [c \in Class |-> NoWork]
  /\ job = [v \in Version |-> "none"] /\ jobQueue = <<>> /\ build = NoBuild
  /\ naming = [v \in Version |-> NoNaming] /\ mcp = [v \in Version |-> "unasked"]
  /\ completed = {}
  /\ dir = [v \in Version |-> NoDir]
  /\ standard = [c \in Class |-> "none"]
  /\ priority = [c \in Class |-> [text |-> "none", ready |-> FALSE]]
  /\ rows = [c \in Class |-> "none"] /\ indexed = [v \in Version |-> FALSE]
  /\ late = {} /\ doubled = {} /\ nameless = {} /\ faults = 0

Fault == faults < MaxFaults /\ faults' = faults + 1

Alive(v) == {n \in Run : dir[v].proc[n].state \in {"child", "orphan"}}

\* Mutant: a pid on disk is taken for a process that runs.
StatusTrusting(v) ==
  CASE dir[v].done -> "done"
    [] ~dir[v].done /\ dir[v].error -> "error"
    [] ~dir[v].done /\ ~dir[v].error /\ dir[v].running # 0 -> "running"
    [] OTHER -> "not_started"

\* isDecompileDone(): a pid whose process is gone is an error.
Status(v) ==
  CASE dir[v].done -> "done"
    [] ~dir[v].done /\ dir[v].error -> "error"
    [] ~dir[v].done /\ ~dir[v].error /\ dir[v].running # 0 ->
         IF dir[v].running \in Alive(v) THEN "running" ELSE "error"
    [] OTHER -> "not_started"

-----------------------------------------------------------------------------
(* Preparing one class.                                                     *)

\* runClassPreparations(), with the job c added to or taken out of those that run
\* or wait.  One call starts one job at most: the others found no slot before.
RunPreparations(states, queue, running, taken, workers) ==
  LET next == {i \in DOMAIN queue : VersionOf[queue[i]] \notin taken}
      i == CHOOSE k \in next : \A l \in next : k <= l
  IN  IF running < Slots /\ next # {}
      THEN /\ prep' = [states EXCEPT ![queue[i]] = "running"]
           /\ prepQueue' = RemoveAt(queue, i)
           /\ active' = running + 1
           /\ busy' = taken \cup {VersionOf[queue[i]]}
           /\ worker' = [workers EXCEPT ![queue[i]].at = "check"]
      ELSE /\ prep' = states /\ prepQueue' = queue /\ active' = running
           /\ busy' = taken /\ worker' = workers

\* prepareMinecraftSource(): a class without a row gets a job; one whose job failed
\* gets another after a minute.
Prepare(c) ==
  /\ rows[c] = "none"
  /\ \E over \in BOOLEAN :
       /\ over => prep[c] = "failed"
       /\ LET states == IF over THEN [prep EXCEPT ![c] = "none"] ELSE prep IN
          IF states[c] # "none" \/ Len(prepQueue) + active >= MaxQueue
          THEN prep' = states /\ UNCHANGED <<prepQueue, active, busy, worker>>
          ELSE RunPreparations([states EXCEPT ![c] = "queued"], Append(prepQueue, c),
                               active, busy, worker)
  /\ UNCHANGED <<Jobs, Files, Index, Hist, faults>>

Works(c, at) == worker[c].at = at
WorkOn(c, at) == worker' = [worker EXCEPT ![c].at = at]
PoolRest == <<prep, prepQueue, active, busy>>

\* Mutant: the version stays taken when its job is over.
EndWorkTaken(c, state) ==
  RunPreparations([prep EXCEPT ![c] = state], prepQueue, active - 1,
                  busy, [worker EXCEPT ![c] = NoWork])

\* The job is over: the finally clause frees the slot and starts another job.
EndWork(c, state) ==
  RunPreparations([prep EXCEPT ![c] = state], prepQueue, active - 1,
                  busy \ {VersionOf[c]}, [worker EXCEPT ![c] = NoWork])

\* The directory's file will do, unless a decompilation of the version is running;
\* otherwise getPriorityMinecraftSource() decompiles the class alone, into a
\* directory of its own.
ChooseFile(c) ==
  LET cached == priority[c].ready
      usable == ~cached /\ Status(VersionOf[c]) # "running" /\ standard[c] # "none"
  IN  /\ Works(c, "check")
      /\ worker' = [worker EXCEPT ![c].from = IF usable THEN "standard" ELSE "priority",
                                  ![c].at = IF usable \/ cached THEN "read" ELSE "writing"]
      /\ priority' = [priority EXCEPT ![c].text = IF usable \/ cached THEN @ ELSE "torn"]
      /\ UNCHANGED <<PoolRest, Jobs, dir, standard, Index, Hist, faults>>

\* getMcpNames(): the names are found, or there are none, which is kept as well: a version
\* may have none at all, or their download failed.
GetNames(v) ==
  \E answer \in {"found", "missing"} :
    mcp[v] \in {"unasked", answer} /\ mcp' = [mcp EXCEPT ![v] = answer]

\* The names are replaced in it, if there are any, and the marker comes last.
EndClass(c) ==
  LET v == VersionOf[c] IN
  /\ Works(c, "writing") /\ WorkOn(c, "read")
  /\ IF v \in Srg THEN GetNames(v) ELSE UNCHANGED mcp
  /\ LET bare == v \in Srg /\ mcp'[v] = "missing"
         text == IF bare THEN "raw" ELSE "whole"
     IN  /\ priority' = [priority EXCEPT ![c] = [text |-> text, ready |-> TRUE]]
         /\ nameless' = IF bare THEN nameless \cup {c} ELSE nameless
  /\ UNCHANGED <<PoolRest, job, jobQueue, build, naming, completed, dir, standard, Index, late,
                 doubled, faults>>

ClassFails(c) ==
  /\ Works(c, "writing") /\ Fault
  /\ EndWork(c, "failed")
  /\ UNCHANGED <<Jobs, Files, Index, Hist>>

\* indexMcClass(): read, then stored; but not again when the version is indexed.
FileText(c) == IF worker[c].from = "priority" THEN priority[c].text ELSE standard[c]

ReadClass(c) ==
  /\ Works(c, "read")
  /\ IF indexed[VersionOf[c]] /\ standard[c] # "none" THEN EndWork(c, "none")
     ELSE /\ worker' = [worker EXCEPT ![c].at = "store", ![c].text = FileText(c)]
          /\ UNCHANGED PoolRest
  /\ UNCHANGED <<Jobs, Files, Index, Hist, faults>>

StoreClass(c) ==
  /\ Works(c, "store")
  /\ rows' = [rows EXCEPT ![c] = worker[c].text]
  /\ late' = IF worker[c].text = FileText(c) THEN late ELSE late \cup {c}
  /\ EndWork(c, "none")
  /\ UNCHANGED <<Jobs, Files, indexed, doubled, nameless, faults>>
-----------------------------------------------------------------------------
(* Building one version at a time.                                          *)

\* pump()
Pump(jobs, queue) ==
  IF queue # <<>>
  THEN /\ job' = [jobs EXCEPT ![Head(queue)] = "running"]
       /\ jobQueue' = Tail(queue)
       /\ build' = [NoBuild EXCEPT !.at = "check", !.of = Head(queue)]
  ELSE job' = jobs /\ jobQueue' = queue /\ build' = NoBuild

\* Every answered request for a version schedules its build.
Schedule(v) ==
  /\ v \notin completed
  /\ \E over \in BOOLEAN :
       /\ over => job[v] = "failed"
       /\ over \/ job[v] = "none"
       /\ LET jobs == [job EXCEPT ![v] = "none"] IN
          IF Len(jobQueue) >= MaxQueue THEN job' = jobs /\ UNCHANGED <<jobQueue, build>>
          ELSE IF build.at = "idle"
          THEN Pump([jobs EXCEPT ![v] = "queued"], Append(jobQueue, v))
          ELSE /\ job' = [jobs EXCEPT ![v] = "queued"]
               /\ jobQueue' = Append(jobQueue, v) /\ UNCHANGED build
  /\ UNCHANGED <<Pool, naming, mcp, completed, Files, Index, Hist, faults>>

Builds(v, at) == build.of = v /\ build.at = at
BuildOn(at) == build' = [build EXCEPT !.at = at] /\ UNCHANGED <<job, jobQueue>>
EndBuild(v) == completed' = completed \cup {v} /\ Pump([job EXCEPT ![v] = "none"], jobQueue)
FailBuild(v) == Pump([job EXCEPT ![v] = "failed"], jobQueue)

\* A version that is not indexed waits for the classes asked for, but half a minute
\* at most: hence no guard.
CheckIndexed(v) ==
  /\ Builds(v, "check")
  /\ IF indexed[v] THEN EndBuild(v) ELSE BuildOn("decompile") /\ UNCHANGED completed
  /\ UNCHANGED <<Pool, naming, mcp, Files, Index, Hist, faults>>

Unnamed(v) == v \in Srg /\ ~dir[v].named

\* ensureMcSourceNames() without an await: a job that runs is joined.
StartNaming(v) ==
  naming' = IF naming[v].at = "idle" THEN [naming EXCEPT ![v].at = "waiting"] ELSE naming

\* decompileMcVersion(): nothing is started when a run is under way or done; the
\* names are replaced in the background.
GoOn(v) ==
  /\ Builds(v, "decompile") /\ Status(v) \in {"done", "running"} /\ BuildOn("poll")
  /\ IF Status(v) = "done" /\ Unnamed(v) THEN StartNaming(v) ELSE UNCHANGED naming
  /\ UNCHANGED <<Pool, mcp, completed, Files, Index, Hist, faults>>

\* decompileJar(): the sentinels of earlier runs go, Vineflower is spawned ...
Spawn(v) ==
  LET n == Cardinality({k \in Run : dir[v].proc[k].state # "none"}) + 1 IN
  /\ Builds(v, "decompile") /\ Status(v) \in {"error", "not_started"}
  /\ n \in Run /\ BuildOn("mark")
  /\ dir' = [dir EXCEPT ![v] = [done |-> FALSE, error |-> FALSE, named |-> FALSE,
       running |-> dir[v].running,
       proc |-> [dir[v].proc EXCEPT ![n] =
                   [state |-> "child", todo |-> ClassesOf(v), on |-> {}]]]]
  /\ doubled' = IF Alive(v) = {} THEN doubled ELSE doubled \cup {v}
  /\ UNCHANGED <<Pool, naming, mcp, completed, standard, priority, Index, late, nameless, faults>>

\* ... and its pid is written.
WritePid(v) ==
  LET n == CHOOSE k \in Run : dir[v].proc[k].state # "none"
                              /\ \A l \in Run : l > k => dir[v].proc[l].state = "none" IN
  /\ Builds(v, "mark") /\ BuildOn("poll")
  /\ dir' = [dir EXCEPT ![v].running = n]
  /\ IF Unnamed(v) THEN StartNaming(v) ELSE UNCHANGED naming
  /\ UNCHANGED <<Pool, mcp, completed, standard, priority, Index, Hist, faults>>

Poll(v) ==
  /\ Builds(v, "poll")
  /\ \/ Status(v) = "done" /\ BuildOn(IF v \in Srg THEN "names" ELSE "list")
     \/ Status(v) = "error" /\ FailBuild(v)
  /\ UNCHANGED <<Pool, naming, mcp, completed, Files, Index, Hist, faults>>

\* The jar cannot be fetched or remapped, or an hour is over.
BuildFails(v) ==
  /\ build.of = v /\ build.at \in {"decompile", "poll"} /\ Fault
  /\ FailBuild(v)
  /\ UNCHANGED <<Pool, naming, mcp, completed, Files, Index, Hist>>

\* ensureMcSourceNames(): done already, or joined, or started.
AwaitNames(v) ==
  /\ Builds(v, "names")
  /\ IF dir[v].named THEN BuildOn("list") /\ UNCHANGED naming
     ELSE naming[v].at = "idle" /\ StartNaming(v) /\ UNCHANGED <<job, jobQueue, build>>
  /\ UNCHANGED <<Pool, mcp, completed, Files, Index, Hist, faults>>

\* applyMcpNamesToSource(), when the run is done: without names no file is walked.
BeginNaming(v) ==
  /\ naming[v].at = "waiting" /\ Status(v) = "done"
  /\ GetNames(v)
  /\ naming' = [naming EXCEPT ![v] =
       [at |-> "walking", left |-> IF mcp'[v] = "found" THEN ClassesOf(v) ELSE {}]]
  /\ UNCHANGED <<Pool, job, jobQueue, build, completed, Files, Index, Hist, faults>>

ReplaceNames(c) ==
  LET v == VersionOf[c] IN
  /\ naming[v].at = "walking" /\ c \in naming[v].left
  /\ naming' = [naming EXCEPT ![v].left = @ \ {c}]
  /\ standard' = [standard EXCEPT ![c] = IF @ = "raw" THEN "whole" ELSE @]
  /\ UNCHANGED <<Pool, job, jobQueue, build, mcp, completed, dir, priority, Index, Hist, faults>>

\* The marker is written whatever was replaced.
EndNaming(v) ==
  /\ naming[v].at = "walking" /\ naming[v].left = {}
  /\ naming' = [naming EXCEPT ![v] = NoNaming]
  /\ dir' = [dir EXCEPT ![v].named = TRUE]
  /\ nameless' = IF mcp[v] = "missing" THEN nameless \cup ClassesOf(v) ELSE nameless
  /\ UNCHANGED <<Pool, job, jobQueue, build, mcp, completed, standard, priority, Index, late,
                 doubled, faults>>

\* A build that awaits the names fails with the job that replaces them.
DropNaming(v) ==
  /\ naming' = [naming EXCEPT ![v] = NoNaming]
  /\ IF Builds(v, "names") THEN FailBuild(v) ELSE UNCHANGED <<job, jobQueue, build>>
  /\ UNCHANGED <<Pool, mcp, completed, Files, Index, Hist>>

NamingFails(v) ==
  naming[v].at = "waiting" /\ Status(v) = "error" /\ DropNaming(v) /\ UNCHANGED faults

\* A file cannot be read or written, or the run was not done in half an hour.
NamingBreaks(v) == naming[v].at # "idle" /\ Fault /\ DropNaming(v)

\* indexMcVersion(): the files are listed, then stored one by one.
ListFiles(v) ==
  LET files == {c \in ClassesOf(v) : standard[c] # "none"} IN
  /\ Builds(v, "list")
  /\ IF Status(v) # "done" \/ files = {} THEN FailBuild(v)
     ELSE build' = [build EXCEPT !.at = "index", !.left = files] /\ UNCHANGED <<job, jobQueue>>
  /\ UNCHANGED <<Pool, naming, mcp, completed, Files, Index, Hist, faults>>

IndexFile(v, c) ==
  /\ Builds(v, "index") /\ c \in build.left
  /\ rows' = [rows EXCEPT ![c] = standard[c]]
  /\ build' = [build EXCEPT !.left = @ \ {c}]
  /\ UNCHANGED <<Pool, job, jobQueue, naming, mcp, completed, Files, indexed, Hist, faults>>

MarkIndexed(v) ==
  /\ Builds(v, "index") /\ build.left = {}
  /\ indexed' = [indexed EXCEPT ![v] = TRUE]
  /\ EndBuild(v)
  /\ UNCHANGED <<Pool, naming, mcp, Files, rows, Hist, faults>>
-----------------------------------------------------------------------------
(* Vineflower and the operating system.                                     *)

\* A run writes nothing before its pid is on disk: a Java machine starts slower.
Writing(v, n) == n \in Alive(v) /\ ~ (Builds(v, "mark") /\ dir[v].proc[n].state = "child")

BeginFile(v, n, c) ==
  /\ Writing(v, n) /\ dir[v].proc[n].on = {} /\ c \in dir[v].proc[n].todo
  /\ dir' = [dir EXCEPT ![v].proc[n].on = {c}]
  /\ standard' = [standard EXCEPT ![c] = "torn"]
  /\ UNCHANGED <<Pool, Jobs, priority, Index, Hist, faults>>

EndFile(v, n, c) ==
  /\ Writing(v, n) /\ c \in dir[v].proc[n].on
  /\ dir' = [dir EXCEPT ![v].proc[n] =
       [state |-> dir[v].proc[n].state, todo |-> dir[v].proc[n].todo \ {c}, on |-> {}]]
  /\ standard' = [standard EXCEPT ![c] = IF v \in Srg THEN "raw" ELSE "whole"]
  /\ UNCHANGED <<Pool, Jobs, priority, Index, Hist, faults>>

\* Mutant: a run that failed is taken for one that is done.
EndsDone(v, n, good) ==
  LET child == dir[v].proc[n].state = "child" IN
  /\ Writing(v, n)
  /\ dir' = [dir EXCEPT ![v] = [
       done |-> dir[v].done \/ child, error |-> dir[v].error, named |-> dir[v].named,
       running |-> IF child THEN 0 ELSE dir[v].running,
       proc |-> [dir[v].proc EXCEPT ![n].state = "dead"]]]
  /\ UNCHANGED <<Pool, Jobs, standard, priority, Index, Hist>>

\* The run ends.  The server that spawned it writes the sentinel and removes the
\* pid; nobody does for a server that is gone.
Ends(v, n, good) ==
  LET child == dir[v].proc[n].state = "child" IN
  /\ Writing(v, n)
  /\ dir' = [dir EXCEPT ![v] = [
       done |-> dir[v].done \/ (child /\ good), error |-> dir[v].error \/ (child /\ ~good),
       named |-> dir[v].named, running |-> IF child THEN 0 ELSE dir[v].running,
       proc |-> [dir[v].proc EXCEPT ![n].state = "dead"]]]
  /\ UNCHANGED <<Pool, Jobs, standard, priority, Index, Hist>>

Succeeds(v, n) == dir[v].proc[n].todo = {} /\ Ends(v, n, TRUE) /\ UNCHANGED faults
Crashes(v, n) == Fault /\ Ends(v, n, FALSE)

\* The server starts again; Vineflower goes on without it.
Restart ==
  /\ Fault
  /\ prepQueue' = <<>> /\ active' = 0 /\ busy' = {}
  /\ prep' = [c \in Class |-> "none"] /\ worker' = [c \in Class |-> NoWork]
  /\ job' = [v \in Version |-> "none"] /\ jobQueue' = <<>> /\ build' = NoBuild
  /\ naming' = [v \in Version |-> NoNaming] /\ mcp' = [v \in Version |-> "unasked"]
  /\ completed' = {}
  /\ dir' = [v \in Version |-> [dir[v] EXCEPT !.proc = [n \in Run |->
       [dir[v].proc[n] EXCEPT !.state = IF @ = "child" THEN "orphan" ELSE @]]]]
  /\ UNCHANGED <<standard, priority, Index, Hist>>

Work(c) ==
  \/ ChooseFile(c) \/ EndClass(c) \/ ReadClass(c) \/ StoreClass(c)

BuildStep(v) ==
  \/ CheckIndexed(v) \/ GoOn(v) \/ Spawn(v) \/ WritePid(v)
  \/ Poll(v) \/ AwaitNames(v) \/ BeginNaming(v) \/ EndNaming(v) \/ NamingFails(v)
  \/ ListFiles(v) \/ MarkIndexed(v)
  \/ \E c \in Class : IndexFile(v, c)
  \/ \E c \in ClassesOf(v) : ReplaceNames(c)

Vineflower(v, n) ==
  \/ \E c \in Class : BeginFile(v, n, c) \/ EndFile(v, n, c)
  \/ Succeeds(v, n)

Next ==
  \/ \E c \in Class : Prepare(c) \/ Work(c) \/ ClassFails(c)
  \/ \E v \in Version : Schedule(v) \/ BuildStep(v) \/ BuildFails(v) \/ NamingBreaks(v)
  \/ \E v \in Version, n \in Run : Vineflower(v, n) \/ Crashes(v, n)
  \/ Restart

\* Timers and processes go on; clients ask for a version until it is there.
Fairness ==
  /\ \A c \in Class : WF_vars(Work(c))
  /\ \A v \in Version :
       WF_vars(Schedule(v)) /\ WF_vars(BuildStep(v)) /\ WF_vars(\E n \in Run : Vineflower(v, n))

Spec == Init /\ [][Next]_vars
LiveSpec == Spec /\ Fairness
-----------------------------------------------------------------------------
(* Properties.                                                              *)

\* A version that is marked as indexed has the whole source of every class, with the names
\* replaced unless they were not to be had when the class passed for named, however builds
\* failed and the server restarted; unless two Vineflowers wrote its directory at once, or a
\* class was stored from a text that had been replaced meanwhile.
IndexedIsWhole ==
  \A c \in Class :
    indexed[VersionOf[c]] /\ VersionOf[c] \notin doubled /\ c \notin late =>
      rows[c] = "whole" \/ (rows[c] = "raw" /\ c \in nameless)

\* A version that clients keep asking for is indexed some day, and no class waits
\* or is prepared for ever.
EventuallyServed ==
  /\ \A v \in Version : <>indexed[v]
  /\ \A c \in Class : prep[c] = "queued" ~> prep[c] \notin {"queued", "running"}
=============================================================================
