----------------------------- MODULE ModLibrary -----------------------------
(***************************************************************************)
(* The library of mods: ingest, replace, decompile and delete of            *)
(* src/src/tools/ingest.ts over the table of src/src/repositories/mod.ts,   *)
(* the directories of decompiled source and the queue that embeds it.       *)
(* Calls of several clients interleave at every await; the server may stop  *)
(* at any time, and Vineflower goes on without it.                          *)
(***************************************************************************)
EXTENDS EmbedQueue

CONSTANTS
  Jar,          \* jar files, each at a path of its own
  ModOf,        \* the modId in a jar
  Key,          \* modId, version, Minecraft version and loader
  Dir,          \* the directory of its decompiled source: of modId and version only
  Content,      \* its SHA-512
  Call,         \* calls of clients
  MaxRuns,      \* bound on the runs of Vineflower in a directory
  Bounds,       \* for each behaviour: autoEmbed, and closer bounds on calls at the
                \* same time, on mods and on runs
  NoJar

ASSUME LibraryAssumption ==
  /\ NoJar \notin Jar /\ IsFiniteSet(Jar) /\ IsFiniteSet(Call)
  /\ \A f \in {ModOf, Key, Dir, Content} : DOMAIN f = Jar
  /\ MaxRuns \in Nat
  /\ Bounds \subseteq [autoEmbed : BOOLEAN, calls : Nat, mods : 0..MaxMods, runs : 0..MaxRuns]

\* parseJar(): the metadata of a jar is of its content, or of its name and then only the
\* modId differs; so jars of equal content that share a directory are the same version.
ASSUME JarAssumption ==
  \A j, k \in Jar :
    /\ Key[j] = Key[k] => ModOf[j] = ModOf[k] /\ Dir[j] = Dir[k]
    /\ Dir[j] = Dir[k] /\ Content[j] = Content[k] => Key[j] = Key[k]

VARIABLES
  jarOf,        \* the jar of each mod that is or was in the table
  call,         \* each call: where it is, its jar and mod, whether it replaces
  dir,          \* the sentinels of a directory and the runs of Vineflower in it
  text,         \* the sources in it: of which content, and whether all of it
  owed,         \* history: modIds the library should hold
  bound,        \* the member of Bounds
  spoilt        \* history: directories that were worked on by two at once

vars == <<embedVars, jarOf, call, dir, text, owed, spoilt, bound, faults>>
Disk == <<dir, text, spoilt, bound>>

Run == 1..MaxRuns
Place == Range(Dir)
Text == Range(Content)
Idle == [at |-> "idle", jar |-> NoJar, id |-> 1, replace |-> FALSE]
NoDir == [done |-> FALSE, error |-> FALSE, running |-> 0,
          proc |-> [n \in Run |-> "none"], writes |-> [n \in Run |-> NoJar]]

TypeOK ==
  /\ EmbedTypeOK
  /\ jarOf \in [Id -> Jar \cup {NoJar}] /\ \A i \in mods : jarOf[i] # NoJar
  /\ \A i, k \in mods : i # k => jarOf[i] # jarOf[k] /\ Key[jarOf[i]] # Key[jarOf[k]]
  /\ call \in [Call -> [at : {"idle", "dup", "drop", "older", "dropOlder", "hash", "create",
                              "spawn", "mark", "note", "ask", "erase"},
                        jar : Jar \cup {NoJar}, id : Id, replace : BOOLEAN]]
  /\ dir \in [Place -> [done : BOOLEAN, error : BOOLEAN, running : 0..MaxRuns,
                        proc : [Run -> {"none", "child", "orphan", "dead"}],
                        writes : [Run -> Jar \cup {NoJar}]]]
  /\ text \in [Place -> [Text -> {"none", "part", "whole"}]]
  /\ bound \in Bounds /\ bound.autoEmbed = autoEmbed
  /\ owed \subseteq Range(ModOf) /\ spoilt \subseteq Place

Init ==
  /\ bound \in Bounds /\ autoEmbed = bound.autoEmbed /\ EmbedInit
  /\ jarOf = [i \in Id |-> NoJar] /\ call = [c \in Call |-> Idle]
  /\ dir = [d \in Place |-> NoDir] /\ text = [d \in Place |-> [x \in Text |-> "none"]]
  /\ owed = {} /\ spoilt = {}

At(c, at) == call[c].at = at
Goes(c, at) == call' = [call EXCEPT ![c].at = at]
Free == {c \in Call : At(c, "idle")}

\* Calls are alike: any free one will do.
Starts(c) ==
  /\ Free # {} /\ c = CHOOSE d \in Free : TRUE
  /\ Cardinality(Call \ Free) < bound.calls
Ends(c) == call' = [call EXCEPT ![c] = Idle]

RowsOf(m) == {i \in mods : ModOf[jarOf[i]] = m}
New == {i \in Id : jarOf[i] = NoJar}

\* deleteModById(): classes, tags and source files go with the row.
RemoveRow(i) ==
  /\ mods' = mods \ {i} /\ source' = source \ {i}
  /\ files' = [files EXCEPT ![i] = "none"]
-----------------------------------------------------------------------------
(* ingestMod()                                                              *)

Ingesting == {c \in Call : call[c].at \in {"dup", "drop", "older", "dropOlder", "hash", "create"}}

\* A jar whose path is in the table is not ingested again.
Ingest(c, j, replace) ==
  /\ Starts(c) /\ \A i \in mods : jarOf[i] # j
  /\ Cardinality(Ingesting) + Cardinality(Id \ New) < bound.mods
  /\ call' = [call EXCEPT ![c] = [Idle EXCEPT !.at = "dup", !.jar = j, !.replace = replace]]
  /\ UNCHANGED <<embedVars, jarOf, Disk, owed, faults>>

\* The same version from another path: refused, or to be removed first.
FindDuplicate(c) ==
  LET same == {i \in mods : Key[jarOf[i]] = Key[call[c].jar]} IN
  /\ At(c, "dup")
  /\ \/ same = {} /\ Goes(c, IF call[c].replace THEN "older" ELSE "hash")
     \/ same # {} /\ ~call[c].replace /\ Ends(c)
     \/ \E i \in same : /\ call[c].replace
                        /\ call' = [call EXCEPT ![c].at = "drop", ![c].id = i]
  /\ UNCHANGED <<embedVars, jarOf, Disk, owed, faults>>

\* Any other row of the same modId; findFirst() takes one.
FindOlder(c) ==
  LET rows == RowsOf(ModOf[call[c].jar]) IN
  /\ At(c, "older")
  /\ \/ rows = {} /\ Goes(c, "hash")
     \/ \E i \in rows : call' = [call EXCEPT ![c].at = "dropOlder", ![c].id = i]
  /\ UNCHANGED <<embedVars, jarOf, Disk, owed, faults>>

\* Mutant: the call ends once the duplicate is gone.
DropOnly(c) ==
  /\ call[c].at \in {"drop", "dropOlder"}
  /\ RemoveRow(call[c].id) /\ Ends(c)
  /\ UNCHANGED <<jarOf, Disk, owed, ollama, autoEmbed, queueVars, faults>>

\* The row is removed; the call fails when another has removed it.
Drop(c) ==
  /\ call[c].at \in {"drop", "dropOlder"}
  /\ IF call[c].id \in mods
     THEN RemoveRow(call[c].id) /\ Goes(c, IF At(c, "drop") THEN "older" ELSE "hash")
     ELSE Ends(c) /\ UNCHANGED <<mods, source, files>>
  /\ UNCHANGED <<jarOf, Disk, owed, ollama, autoEmbed, queueVars, faults>>

\* The same content under another modId: refused, after the removals.
CheckHash(c) ==
  LET m == ModOf[call[c].jar] IN
  /\ At(c, "hash")
  /\ IF \E i \in mods : Content[jarOf[i]] = Content[call[c].jar]
     THEN Ends(c) /\ owed' = IF call[c].replace /\ RowsOf(m) = {} THEN owed \ {m} ELSE owed
     ELSE Goes(c, "create") /\ UNCHANGED owed
  /\ UNCHANGED <<embedVars, jarOf, Disk, faults>>

\* Mutant: the table has no unique keys.
CreateTwice(c) ==
  LET j == call[c].jar  n == CHOOSE i \in New : \A k \in New : i <= k IN
  /\ At(c, "create") /\ Ends(c)
  /\ mods' = mods \cup {n} /\ jarOf' = [jarOf EXCEPT ![n] = j] /\ owed' = owed \cup {ModOf[j]}
  /\ UNCHANGED <<source, files, ollama, autoEmbed, queueVars, dir, text, spoilt, bound, faults>>

\* createMod(): fails when the path or the version is in the table meanwhile.
Create(c) ==
  LET j == call[c].jar  n == CHOOSE i \in New : \A k \in New : i <= k IN
  /\ At(c, "create") /\ Ends(c)
  /\ IF \E i \in mods : jarOf[i] = j \/ Key[jarOf[i]] = Key[j]
     THEN UNCHANGED <<mods, jarOf, owed, spoilt>>
     ELSE /\ mods' = mods \cup {n} /\ jarOf' = [jarOf EXCEPT ![n] = j]
          /\ owed' = owed \cup {ModOf[j]}
          /\ spoilt' = IF \E k \in Id \ New : Dir[jarOf[k]] = Dir[j] /\ Content[jarOf[k]] # Content[j]
                       THEN spoilt \cup {Dir[j]} ELSE spoilt
  /\ UNCHANGED <<source, files, ollama, autoEmbed, queueVars, dir, text, bound, faults>>
-----------------------------------------------------------------------------
(* decompileMod() and decompileModStatus()                                  *)

Spawned == Cardinality({p \in Place \X Run : dir[p[1]].proc[p[2]] # "none"})
Alive(d) == {n \in Run : dir[d].proc[n] \in {"child", "orphan"}}

\* isDecompileDone()
Status(d) ==
  CASE dir[d].done -> "done"
    [] ~dir[d].done /\ dir[d].error -> "error"
    [] ~dir[d].done /\ ~dir[d].error /\ dir[d].running # 0 ->
         IF dir[d].running \in Alive(d) THEN "running" ELSE "error"
    [] OTHER -> "not_started"

\* What the call found of the directory; nothing is done while a run is under way.
Decompile(c, i) ==
  /\ Starts(c) /\ i \in mods
  /\ Status(Dir[jarOf[i]]) # "running"
  /\ call' = [call EXCEPT ![c] = [Idle EXCEPT !.id = i, !.jar = jarOf[i],
       !.at = IF Status(Dir[jarOf[i]]) = "done" THEN "mark" ELSE "spawn"]]
  /\ UNCHANGED <<embedVars, jarOf, Disk, owed, faults>>

\* decompileJar(): the sentinels of earlier runs go, their files stay.
Spawn(c) ==
  LET d == Dir[call[c].jar]  x == Content[call[c].jar]
      n == Cardinality({k \in Run : dir[d].proc[k] # "none"}) + 1 IN
  /\ At(c, "spawn") /\ Ends(c) /\ Spawned < bound.runs
  /\ dir' = [dir EXCEPT ![d] = [@ EXCEPT !.done = FALSE, !.error = FALSE, !.running = n,
                                         !.proc[n] = "child", !.writes[n] = call[c].jar]]
  /\ text' = [text EXCEPT ![d] = [y \in Text |-> IF y = x \/ @[y] # "none" THEN "part" ELSE "none"]]
  /\ spoilt' = IF Alive(d) # {} \/ dir[d].done THEN spoilt \cup {d} ELSE spoilt
  /\ UNCHANGED <<embedVars, jarOf, owed, bound, faults>>

\* The mod of a finished decompilation is marked; this call does not queue it.
Mark(c) ==
  /\ At(c, "mark") /\ Ends(c)
  /\ source' = source \cup ({call[c].id} \cap mods)
  /\ UNCHANGED <<mods, files, ollama, autoEmbed, queueVars, jarOf, Disk, owed, faults>>

\* decompileModStatus() marks it if it saw it first, and then, unless told otherwise, ...
PollStatus(c, i) ==
  /\ Starts(c) /\ i \in mods \ source /\ Status(Dir[jarOf[i]]) = "done"
  /\ call' = [call EXCEPT ![c] = [Idle EXCEPT !.id = i, !.jar = jarOf[i], !.at = "note"]]
  /\ UNCHANGED <<embedVars, jarOf, Disk, owed, faults>>

Note(c) ==
  LET i == call[c].id IN
  /\ At(c, "note")
  /\ source' = source \cup ({i} \cap mods)
  /\ Ends(c) \/ (i \in mods /\ autoEmbed /\ Goes(c, "ask"))
  /\ UNCHANGED <<mods, files, ollama, autoEmbed, queueVars, jarOf, Disk, owed, faults>>

\* ... queues it, if Ollama answers.
Ask(c) ==
  /\ At(c, "ask") /\ Ends(c)
  /\ IF ollama THEN Enqueue(call[c].id) /\ UNCHANGED scan ELSE UNCHANGED queueVars
  /\ UNCHANGED <<mods, source, files, ollama, autoEmbed, jarOf, Disk, owed, faults>>

\* Mutant: a run that failed is taken for one that is done.
EndsDone(d, n, good) ==
  /\ n \in Alive(d)
  /\ dir' = [dir EXCEPT ![d] =
       IF @.proc[n] = "orphan" THEN [@ EXCEPT !.proc[n] = "dead"]
       ELSE [@ EXCEPT !.proc[n] = "dead", !.running = 0, !.done = TRUE]]
  /\ text' = [text EXCEPT ![d][Content[dir[d].writes[n]]] =
                IF good /\ @ = "part" THEN "whole" ELSE @]
  /\ UNCHANGED <<embedVars, jarOf, call, owed, spoilt, bound>>

\* A run ends.  The server that spawned it writes the sentinel and removes the pid;
\* nobody does for a server that is gone.
RunEnds(d, n, good) ==
  LET e == dir[d] IN
  /\ n \in Alive(d)
  /\ dir' = [dir EXCEPT ![d] =
       IF e.proc[n] = "orphan" THEN [e EXCEPT !.proc[n] = "dead"]
       ELSE [e EXCEPT !.proc[n] = "dead", !.running = 0,
                      !.done = e.done \/ good, !.error = e.error \/ ~good]]
  /\ text' = [text EXCEPT ![d][Content[e.writes[n]]] =
                IF good THEN IF @ = "part" THEN "whole" ELSE "part" ELSE @]
  /\ UNCHANGED <<embedVars, jarOf, call, owed, spoilt, bound>>

Succeeds(d, n) == RunEnds(d, n, TRUE) /\ UNCHANGED faults
Crashes(d, n) == Fault /\ RunEnds(d, n, FALSE)
-----------------------------------------------------------------------------
(* deleteModFull() and restarts                                             *)

\* The directory goes first, whoever else uses it ...
Delete(c, i) ==
  LET d == Dir[jarOf[i]] IN
  /\ Starts(c) /\ i \in mods
  /\ call' = [call EXCEPT ![c] = [Idle EXCEPT !.at = "erase", !.id = i, !.jar = jarOf[i]]]
  /\ IF i \in source
     THEN /\ dir' = [dir EXCEPT ![d] = [@ EXCEPT !.done = FALSE, !.error = FALSE, !.running = 0]]
          /\ text' = [text EXCEPT ![d] = [x \in Text |-> "none"]]
          /\ spoilt' = IF Alive(d) # {} THEN spoilt \cup {d} ELSE spoilt
     ELSE UNCHANGED <<dir, text, spoilt>>
  /\ UNCHANGED <<embedVars, jarOf, owed, bound, faults>>

\* ... and the row last.
Erase(c) ==
  LET i == call[c].id IN
  /\ At(c, "erase") /\ Ends(c)
  /\ IF i \in mods
     THEN RemoveRow(i) /\ owed' = owed \ {m \in owed : RowsOf(m) \subseteq {i}}
     ELSE UNCHANGED <<mods, source, files, owed>>
  /\ UNCHANGED <<ollama, autoEmbed, queueVars, jarOf, Disk, faults>>

Restart ==
  /\ Fault
  /\ ForgetQueue
  /\ call' = [c \in Call |-> Idle]
  /\ dir' = [d \in Place |-> [dir[d] EXCEPT !.proc =
       [n \in Run |-> IF @[n] = "child" THEN "orphan" ELSE @[n]]]]
  /\ owed' = {m \in owed : RowsOf(m) # {}}
  /\ spoilt' = spoilt \cup {Dir[call[c].jar] : c \in {b \in Call : At(b, "erase")}}
  /\ UNCHANGED <<mods, source, files, ollama, autoEmbed, jarOf, text, bound>>

\* Whether the directory of a mod's source is there to be walked.
Found(i) == i \in mods /\ \E x \in Text : text[Dir[jarOf[i]]][x] # "none"

QueueWorks == WorkerStep(Found(worker.of)) /\ UNCHANGED <<jarOf, call, Disk, owed>>

\* Without MODLENS_AUTO_EMBED nothing asks for Ollama, and it is left out.
QueueNext ==
  \/ QueueWorks
  \/ /\ autoEmbed
     /\ StartupScan \/ OllamaTurns \/ \E i \in Id : IndexFts(i, Found(i))
     /\ UNCHANGED <<jarOf, call, Disk, owed>>

IngestStep(c) == FindDuplicate(c) \/ Drop(c) \/ FindOlder(c) \/ CheckHash(c) \/ Create(c)

Next ==
  \/ \E c \in Call :
       \/ \E j \in Jar, replace \in BOOLEAN : Ingest(c, j, replace)
       \/ IngestStep(c) \/ Spawn(c) \/ Mark(c) \/ Note(c) \/ Ask(c) \/ Erase(c)
       \/ \E i \in Id : Decompile(c, i) \/ PollStatus(c, i) \/ Delete(c, i)
  \/ \E d \in Place, n \in Run : Succeeds(d, n) \/ Crashes(d, n)
  \/ Restart
  \/ QueueNext

Spec == Init /\ [][Next]_vars

\* The worker's timers fire and its requests end.
LiveSpec == Spec /\ WF_vars(QueueWorks)
-----------------------------------------------------------------------------
(* Properties.                                                              *)

\* A modId that was ingested stays in the library until it is deleted, however many
\* calls replace it at once: there is a row of it, or a call is about to write one.
\* Except that a restart cut the call, or it found its content under another modId.
KeepsAMod ==
  \A m \in owed :
    \/ RowsOf(m) # {}
    \/ \E c \in Ingesting : call[c].replace /\ ModOf[call[c].jar] = m

\* A mod with decompiled source has all of its own, however runs of Vineflower and the
\* server ended; unless two were at work in its directory, which nothing prevents.
SourceIsOwn ==
  \A i \in source :
    \/ Dir[jarOf[i]] \in spoilt
    \/ \E c \in Call : At(c, "erase") /\ call[c].id = i
    \/ text[Dir[jarOf[i]]] = [x \in Text |-> IF x = Content[jarOf[i]] THEN "whole" ELSE "none"]

\* No mod that was queued since the server started is forgotten: it is embedded, or
\* waits, or is worked on, or was given up; even when Ollama went away in the middle of
\* it, or it was queued again meanwhile.  One whose directory is being removed is not,
\* nor one whose directory two were at work in.
NothingForgotten ==
  \A i \in (wanted \cap mods) \ abandoned :
    \/ files[i] = "embedded" \/ Queued(i) \/ InWork(i)
    \/ Dir[jarOf[i]] \in spoilt
    \/ \E c \in Call : At(c, "erase") /\ call[c].id = i

\* Once Ollama stays, a mod that waits is embedded or given up, or is gone, however the
\* mods before it fail; unless the worker has ended with a queue that is not empty.
EventuallyEmbedded ==
  <>[]ollama =>
    \A i \in Id : Queued(i) ~> \/ files[i] = "embedded" \/ i \in abandoned
                               \/ ~Found(i) \/ worker.at = "off"
=============================================================================
