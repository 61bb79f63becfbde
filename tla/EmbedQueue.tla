----------------------------- MODULE EmbedQueue -----------------------------
(***************************************************************************)
(* The background queue that embeds the decompiled source of mods           *)
(* (src/src/embed-queue.ts) and the index it fills: indexModSourceFts() and *)
(* indexModSourceSemantic() of src/src/tools/mc-fts.ts.  One worker takes   *)
(* one mod after the other; Ollama comes and goes.  Every mod has source    *)
(* files, so that one without files in the index is one not indexed yet.    *)
(***************************************************************************)
EXTENDS Naturals, FiniteSets, Sequences, SequencesExt

CONSTANTS
  MaxMods,      \* bound on the mods that are ever in the table
  MaxRetries,   \* MAX_RETRIES, 8 in the code
  MaxFaults     \* bound on failures: of Ollama, of Vineflower, restarts

ASSUME EmbedAssumption == {MaxMods, MaxRetries, MaxFaults} \subseteq Nat \ {0}

VARIABLES
  mods,         \* mods in the table
  source,       \* those with a decompPath
  files,        \* mod_source_files of a mod: none, some not embedded, all embedded
  pending,      \* mods that wait, in the order of the Set
  worker,       \* drainQueue(): off when it does not run
  ollama,       \* Ollama answers
  autoEmbed,    \* MODLENS_AUTO_EMBED
  scan,         \* startupEmbedScan() is still to come
  wanted,       \* history: mods that were queued since the server started
  abandoned,    \* history: those given up after MaxRetries
  faults

queueVars == <<pending, worker, scan, wanted, abandoned>>
embedVars == <<mods, source, files, ollama, autoEmbed, queueVars>>

Id == 1..MaxMods     \* keys of the table, in the order they are given out

Off == [at |-> "off", of |-> 1, tries |-> 0]

EmbedTypeOK ==
  /\ source \subseteq mods /\ mods \subseteq Id
  /\ files \in [Id -> {"none", "stored", "embedded"}]
  /\ \A i \in Id : files[i] # "none" => i \in mods
  /\ pending \in Seq(Id) /\ IsInjective(pending)
  /\ worker \in [at : {"off", "check", "walk", "embed", "wait"}, of : Id, tries : 0..MaxRetries]
  /\ {ollama, autoEmbed, scan} \subseteq BOOLEAN
  /\ abandoned \subseteq wanted /\ wanted \subseteq Id /\ faults \in 0..MaxFaults

EmbedInit ==
  /\ mods = {} /\ source = {} /\ files = [i \in Id |-> "none"]
  /\ pending = <<>> /\ worker = Off /\ ollama = TRUE
  /\ scan = autoEmbed
  /\ wanted = {} /\ abandoned = {} /\ faults = 0

Fault == faults < MaxFaults /\ faults' = faults + 1

Queued(i) == i \in Range(pending)
InWork(i) == worker.at \notin {"off", "check"} /\ worker.of = i
Queue(i)  == IF Queued(i) THEN pending ELSE Append(pending, i)

\* The loop of drainQueue() over what is left, or its end.
Loop(left) == IF left = <<>> THEN Off ELSE [Off EXCEPT !.at = "check"]

\* drainQueue(): a worker that runs already is enough.
Drain(left) == pending' = left /\ worker' = IF worker.at = "off" THEN Loop(left) ELSE worker

\* enqueueModEmbed()
Enqueue(i) ==
  /\ Drain(Queue(i))
  /\ wanted' = wanted \cup {i} /\ abandoned' = abandoned \ {i}

\* startupEmbedScan(): mods that have files without an embedding; none when Ollama is off.
StartupScan ==
  /\ scan /\ scan' = FALSE
  /\ IF ollama
     THEN LET found == {i \in mods : files[i] = "stored"} IN
          /\ \E order \in SetToSeqs(found \ Range(pending)) : Drain(pending \o order)
          /\ wanted' = wanted \cup found /\ abandoned' = abandoned \ found
     ELSE UNCHANGED <<pending, worker, wanted, abandoned>>
  /\ UNCHANGED <<mods, source, files, ollama, autoEmbed, faults>>

\* The worker asks for Ollama before it takes the first of the queue; while there is
\* none it looks again every 30 s.
Take ==
  /\ worker.at = "check" /\ ollama
  /\ worker' = [at |-> "walk", of |-> Head(pending), tries |-> 0]
  /\ pending' = Tail(pending)
  /\ UNCHANGED <<mods, source, files, ollama, autoEmbed, scan, wanted, abandoned, faults>>

Failed == worker' = [worker EXCEPT !.at = "wait", !.tries = @ + 1]

\* indexModSourceFts(): every file that is found is stored; a mod that is gone, or has
\* no source, fails.
Walk(found) ==
  /\ worker.at = "walk"
  /\ IF ollama /\ worker.of \in source
     THEN /\ worker' = [worker EXCEPT !.at = "embed"]
          /\ files' = [files EXCEPT ![worker.of] = IF @ = "none" /\ found THEN "stored" ELSE @]
     ELSE Failed /\ UNCHANGED files
  /\ UNCHANGED <<mods, source, ollama, autoEmbed, pending, scan, wanted, abandoned, faults>>

\* The rest of indexModSourceSemantic(): what is left is counted again at the end, and
\* is nothing when the mod was deleted meanwhile.
Embed ==
  /\ worker.at = "embed"
  /\ \/ /\ ollama \/ files[worker.of] # "stored"
        /\ files' = [files EXCEPT ![worker.of] = IF @ = "stored" THEN "embedded" ELSE @]
        /\ worker' = Loop(pending) /\ UNCHANGED faults
     \/ files[worker.of] = "stored" /\ Failed /\ UNCHANGED <<files, faults>> /\ ~ollama
     \/ files[worker.of] = "stored" /\ Failed /\ Fault /\ ollama /\ UNCHANGED files
  /\ UNCHANGED <<mods, source, ollama, autoEmbed, pending, scan, wanted, abandoned>>

\* Mutant: the mod is not put back when Ollama is gone.
RetryDropping ==
  /\ worker.at = "wait"
  /\ IF ~ollama THEN worker' = Off /\ UNCHANGED <<pending, abandoned>>
     ELSE IF worker.tries < MaxRetries
     THEN worker' = [worker EXCEPT !.at = "walk"] /\ UNCHANGED <<pending, abandoned>>
     ELSE worker' = Loop(pending) /\ abandoned' = abandoned \cup {worker.of} /\ UNCHANGED pending
  /\ UNCHANGED <<mods, source, files, ollama, autoEmbed, scan, wanted, faults>>

\* Mutant: the tries are not counted.
RetryForEver ==
  /\ worker.at = "wait"
  /\ IF ~ollama
     THEN pending' = Queue(worker.of) /\ worker' = Off
     ELSE worker' = [worker EXCEPT !.at = "walk", !.tries = 0] /\ UNCHANGED pending
  /\ UNCHANGED <<mods, source, files, ollama, autoEmbed, scan, wanted, abandoned, faults>>

\* After 10 s: the worker ends when Ollama is gone, and leaves the mod to the next
\* enqueue or start; otherwise it tries again, or gives the mod up.
Retry ==
  /\ worker.at = "wait"
  /\ IF ~ollama
     THEN pending' = Queue(worker.of) /\ worker' = Off /\ UNCHANGED abandoned
     ELSE /\ UNCHANGED pending
          /\ IF worker.tries < MaxRetries
             THEN worker' = [worker EXCEPT !.at = "walk"] /\ UNCHANGED abandoned
             ELSE worker' = Loop(pending) /\ abandoned' = abandoned \cup {worker.of}
  /\ UNCHANGED <<mods, source, files, ollama, autoEmbed, scan, wanted, faults>>

\* index_fts, called by a client.
IndexFts(i, found) ==
  /\ i \in source /\ found /\ files[i] = "none"
  /\ files' = [files EXCEPT ![i] = "stored"]
  /\ UNCHANGED <<mods, source, ollama, autoEmbed, queueVars, faults>>

OllamaTurns ==
  /\ ollama' = ~ollama /\ (IF ollama THEN Fault ELSE UNCHANGED faults)
  /\ UNCHANGED <<mods, source, files, autoEmbed, queueVars>>

\* For a mod whose directory was removed `found' is FALSE.
WorkerStep(found) == Take \/ Walk(found) \/ Embed \/ Retry

\* The server starts again: the queue was in memory.
ForgetQueue ==
  pending' = <<>> /\ worker' = Off /\ scan' = autoEmbed /\ wanted' = {} /\ abandoned' = {}
=============================================================================
