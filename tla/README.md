# ModLens: TLA+ models of its stateful parts

This directory holds TLA+ models of the concurrent parts of ModLens MCP, the TLC
configurations that check them and TLAPS proofs about them. Paths are relative to the
repository; `runtime-agent/...` stands for `runtime-agent/src/io/modlens/runtime/...` and
`legacy/...` for `runtime-agent/legacy/io/modlens/runtime/legacy/...`.

Check a configuration with `tlc -config BridgeEvents.cfg MCRuntimeBridge`, the proofs with
`tlapm M.tla` for `M` one of `RuntimeBridgeProofs`, `HubProofs`, `SdlInputProofs`,
`LegacyInputProofs`, `HostedOAuthProofs`, `ProjectUploadProofs`, `SourcePreparationProofs`,
`ModLibraryProofs`.

## 1. The system

ModLens is an MCP server for Minecraft modding (TypeScript, `src/`) with an instrumented
JVM agent (Java, `runtime-agent/`). Most of its lines are request handlers without memory
over a database, the network and the file system: parsers, catalogues, look-ups. State,
concurrency and failures of their own have the *live runtime*, in which an MCP client drives
a running Minecraft client, and the *hosted* server, which serves many clients from several
replicas, keeps their sign-ins, takes their uploads and prepares sources in the background.

| Component | State | Operations | Talks to |
|---|---|---|---|
| **Runtime hub** `src/runtime/hub.ts` | sessions (last sequence number, last seen, pending commands with timers, disconnected, ended), journal and cursor, waiters, lock | `accept` (one agent packet), `command`, `events`, the 1 s monitor, `setup`, `launch`, `close` | agents by loopback HTTP; tools by calls; `events.json`, `bridge.lock` |
| **Runtime agent** `runtime-agent/RuntimeAgent.java` | event deque (256), result deque (20), command queue (16), received ids (256), sequence number, `lastConnected` | `event`, `complete`, `exchange` every poll, `diagnostic` on one io thread, shutdown hook | the hub; the adapter on the game thread |
| **SDL adapter** `runtime-agent/SdlAdapter.java` | queue of synthetic events, what is down, when holds end, mode, lease flag | `poll`/`pump` on the game thread, `execute`, `releaseAll`, `applyMode` | the agent's command queue and `lastConnected` |
| **Legacy agent and input** `legacy/LegacyAgent.java`, `LegacyInput.java` | the same, behind two Java monitors | `exchange` (telemetry thread), `frame` and `override` (game thread) | each other, holding locks |
| **Bridge ownership** `hub.ts:134-213,604-608`, `src/runtime/companion.ts` | `bridge.lock`, `connection.properties`, `companion.json` | acquire, probe the owner, take over, publish, unpublish, unlock | other bridge processes, through files |
| **Hosted OAuth** `src/hosted-oauth.ts` | one-time objects, grants and access tokens in the database; refreshes under way in each replica | callback, consent, code exchange, refresh, check, revoke; the flight that refreshes the provider's token | the identity provider; other replicas, through the database |
| **Uploads** `src/tools/project.ts`, `src/scripts/project-upload.mjs` | upload directories and their bundles, receipts, published environments; promise locks per directory | begin, chunk, finish, abort, expiry; the script's tries | the script, through MCP sessions; the file system |
| **Source preparation** `src/tools/vanilla.ts`, `hosted-mc-index.ts`, `java-tools.ts`, `mc-fts.ts` | a pool for classes, a queue for versions, sentinel files, the index | prepare a class, build a version, replace names, index | a detached Vineflower, through files and its pid |
| **Runtime CLI** `src/runtime/cli.ts` | none but the descriptor it reads | start or find a companion, submit one request, stop | the companion |
| **Library of mods** `src/tools/ingest.ts`, `src/repositories/mod.ts`, `src/java-tools.ts` | the table of mods, a directory of decompiled source per modId and version, its sentinels | ingest, replace, decompile and its status, delete | the database; Vineflower; the embedding queue |
| **Embedding queue** `src/embed-queue.ts`, `src/tools/mc-fts.ts` | the mods that wait, one worker, the index of their source | enqueue, drain, retry, scan at start | Ollama; the database |
| **Hosted policy, HTTP cache** `src/hosted-policy.ts`, `src/fetch-utils.ts` | counters in the database, cached answers | charge; retry | database, network |
| **Everything else** (parsers, catalogues, repositories, set-up, transformers) | that of the database or the class files | pure or sequential | |

### What is hard

* *Delivery.* A poll posts the oldest unacknowledged events (2) and all results; the answer
  acknowledges and carries at most one command. The request may be lost, the answer may be
  lost, and the hub may process a request after the agent gave up on it and sent another.
  Nothing is retransmitted explicitly: what is not acknowledged simply stays in the deque.
* *Time.* A command has a deadline of 10 s, its caller waits 11 s, a session is silent after
  5 s, and the control lease ends 5 s after the last contact, on three clocks and threads.
* *Limits.* Every queue drops or refuses at its limit, each in its own way.
* *Threads.* The telemetry thread, the game thread, an io executor and the shutdown hook
  share the agent; in the legacy agent they do so under two monitors.
* *Processes.* Bridges share files, start at the same time and die anywhere. Vineflower
  outlives the server that spawned it.
* *Awaits.* The hosted server decides on rows and directory entries it read before an await;
  other requests, other replicas and the expiry of old things run in between.
* *Retries.* Scripts, browsers and clients repeat what they heard no answer to, while the
  first call may still be under way.

### What makes the components correct

* Hub and agent: a command takes effect at most once and its caller is told the truth; an
  event raised is journaled once, in order, unless a full deque dropped it; connection
  events tell the truth; every accepted call is answered.
* Input: nothing that MCP pressed stays down: every press has a hold that ends, every cancel
  leaves a clean keyboard, a lost lease releases, interactive mode belongs to the human.
* Ownership: one bridge owns the cache, a dead owner is replaced, the files name the server.
* Sign-in: one consent makes one grant; a grant ends for a reason; the token on record is the
  one the other side accepts.
* Uploads: what a script was told is stored is stored; an environment that is reported is
  there and whole; the limit on active uploads holds.
* Sources: an indexed version holds whole texts; whoever asks is served some day.
* Library: a mod that is replaced is not lost; its source is its own and whole; what waits to be
  embedded is not forgotten and has its turn.

`PROJECT.json` lists each component with its status, and under `hazards` the lines at which
these properties could break.

## 2. Modules

| Module | Models | Notes |
|---|---|---|
| `CommandDelivery` | abstract specification: what a caller of `command()` is promised | variables `reply`, `effects` only |
| `RuntimeBridge` | `accept`, `add`, `command`, monitor, `close` of the hub; `event`, `complete`, `exchange`, `diagnostic`, shutdown of the agent; the part of the pump that takes and completes commands | implements `CommandDelivery` |
| `RuntimeBridgeProofs` | types; inductive invariants and proofs about events and the journal, and about commands; the refinement of `CommandDelivery` | |
| `EventJournal` | `add`, the monitor's persistence, `events`, `launch`, `load`, `close` of the hub, over several lives of a bridge | the agent only posts and forgets |
| `SdlInput` | `SdlAdapter`: poll, pump, execute, releaseAll, applyMode | |
| `SdlInputProofs` | inductive invariant and proofs about the queue and the holds | |
| `LegacyInput` | `LegacyAgent.exchange` and `LegacyInput.frame`/`override` with both monitors, on GLFW and LWJGL2 | |
| `LegacyInputProofs` | inductive invariants and proofs about results and holds | |
| `BridgeLock` | `openListener`, `listen`, `close` and the companion's descriptor, as processes over files | |
| `HubProofs` | inductive invariants and proofs about the history and the reader of `EventJournal`, and about ownership in `BridgeLock` | |
| `HostedOAuth` | one authorization from the provider's callback to its end, on several replicas | |
| `HostedOAuthProofs` | inductive invariants and proofs about codes, grants and tokens | |
| `ProjectImport` | abstract specification: what an upload promises | variables `handed`, `published`, `reported` only |
| `ProjectUpload` | `begin`, `chunk`, `finish`, `abort` of `ProjectStore` and the script that calls them | implements `ProjectImport` |
| `ProjectUploadProofs` | inductive invariants about what is stored and why a run fails; the refinement of `ProjectImport` | |
| `SourcePreparation` | the class pool, the version queue, Vineflower and its sentinels, names, index | |
| `SourcePreparationProofs` | inductive invariants and proofs about the pool and what is indexed | |
| `EmbedQueue` | `enqueueModEmbed`, `startupEmbedScan`, `drainQueue` and the indexing they call | |
| `ModLibrary` | `ingestMod`, `decompileMod`, `decompileModStatus`, `deleteModFull`, and Vineflower | extends `EmbedQueue`, which it feeds |
| `ModLibraryProofs` | inductive invariants and proofs about the table, the sources and the queue | |
| `MC...` | the instances TLC checks | |

### RuntimeBridge

An event is its sequence number, so the deque is a set of numbers (its order is theirs); a
result deque is a set ordered by `finished`. `packet` is what the current request carries,
`answer` what the hub answered. A request the agent gave up on moves to `orphans`, where
`AcceptOrphan` may process it at any later moment, before or after newer ones, or
`LoseOrphan` drops it. One action is one atomic section of the code: a synchronized method,
or the part of a JavaScript handler between two awaits. `accept()` has no await, so
`Accept(p)` is one step.

| Code | Action |
|---|---|
| `RuntimeAgent.event` | `PushEvent` inside `RaiseEvent`, `LeaseExpires`, `BeginShutdown`, `MayPushEvent` |
| `RuntimeAgent.complete` | `Complete` |
| `exchangeLocked`: snapshot / answer / failure | `StartExchange` / `HandleAnswer` / `FailExchange` |
| `SdlAdapter.pump`, `execute` | `BeginPump` (reads the clock), then for each command `PumpExpired`, `PumpRejected`, `PumpControl` or `PumpQueued`, then `EndPump`; `Deliver` |
| `diagnostic` on the io executor | `RunDiagnostic` |
| shutdown hook; the process dies | `BeginShutdown`; `Halt` |
| `RuntimeHub.accept` | `AcceptCurrent`, `AcceptOrphan` |
| `RuntimeHub.command`: admit, refuse, timer | `Submit`, `Refuse`, `Expire` |
| monitor interval | `Monitor` |
| `RuntimeHub.close`: before and after its awaits | `BeginClose`, `EndClose` |
| the clocks | `Tick` |

Time is what has passed since a command was submitted (`age`) and since the hub heard from
the session (`silence`), each counted up to the point where nothing can tell it from a later
value. All clocks are one clock: hub and agent run on the same machine. A pump reads its clock
once (`SdlAdapter.java:136`): `pump.overdue` is what was past its deadline then, and every
command it takes is compared with that, however long the pump has gone on (`pump.time`, counted up
to `Grace`) and whatever arrived meanwhile.

`CommandDelivery` is stated over `reply` and `effects`, which `RuntimeBridge` has under the
same names: the refinement mapping is the identity, and `DeliverySpec` says that every step
of the bridge is a call, an effect, a report (several at once, since one packet settles many
results) or a stutter.

### EventJournal

The second view of the hub: what happens to an entry after `accept()` added it. `RuntimeBridge`
has one life of the hub and the whole protocol; here the protocol is one step (a packet with a
prefix of what is not acknowledged, and an answer that arrives or is lost), and the hub ends
and starts again. `chain` is the promise `persistence` with the snapshots it has still to
write; a write replaces the file by a rename and is one step, which may fail. `close()` is cut
at its awaits: `BeginClose`, then `CloseDirty` and `EndClose`, or `CloseClean`. One reader
follows `nextCursor` with a fixed session filter; a long poll is `Wait`, a wake-up (in `Add`, `GiveUp` or
`BeginClose`), and `Resume`, which reads the journal as it is then.

`load()` does not ask for `bridge.lock`, so that a bridge may read `events.json` while another
is up, and own the cache much later: at its first `setup()`, through `startLocalCompanion()`, or when it
tries again after the other has closed. `Load` takes a `copy` of the file at any time; `Listen` makes a
bridge the owner, and it goes on from the copy. One copy is enough for any number of bridges that
wait: while all begin with what is in the file, each copy that is used equals it; the first that does
not sets `stale`.

`ever`, `skipped`, `late`, `stale` and `crashed` are history: every entry added, whether the reader
passed one without being told, whether one came while `close()` was writing, whether a bridge began
with a copy that was no longer what the file held, whether a bridge crashed.

### SdlInput, LegacyInput

Keys and buttons are one set. `down` (`told` in the legacy module) is what the *game* was
told; `synthetic` (`keyboard`) is what is queued for it; `expiry` is what is left of each
hold. The pump is taken apart at the points where the telemetry thread can get in between:
lease, expiry, one step per command. In `LegacyInput` the monitors are variables, an action
that needs a monitor waits for it, and `exchange()` keeps its own across the network wait,
as the code does. `backend` is chosen at the start and stays.

### BridgeLock

A lock file is named by its creator; `written` says whether the pid is in it yet. Reading,
probing (`process.kill(pid, 0)`), unlinking and creating are separate steps, and `Die` can
happen between any two. `overlapped` remembers whether two processes ever were inside
`openListener` at the same time.

### HostedOAuth

One authorization of one client. A request is a task of a replica; each await of its handler
ends a step (`task[t].at`), so that what it read may be old when it goes on. `objects` are the
one-time rows (state, approval, code, result), which are taken by a DELETE that returns the
row; `grant` and `access` are the rows of the grant. `flight[p]` is the entry of
`upstreamRefreshes` in replica `p`: a request that needs a newer token of the provider joins
it or starts it. The provider numbers its tokens; one that rotates them accepts a refresh token
once. `README.md:1119` asks for one replica with such a provider, so all requests then go to
`First`. A refresh with the token of one under way joins that one (`Joins`), so it is not a
task of its own.

| Code | Action |
|---|---|
| `/oauth/upstream/callback` | `CallbackTake`, `CallbackPut` |
| `/oauth/approve` | `ApproveTake`, `ApproveAgain`, `ApproveCode`, `ApproveResult` |
| `/oauth/token` with a code | `ExchangeTake`, `ExchangeInsert`, `Issue` |
| `/oauth/token` with a refresh token | `Claim`, then `Rotate` and `Issue`, or `Restore` |
| `authenticate` | `CheckSelect` |
| `profileForGrant`, `currentUpstream` | `Upstream`, `Profile`, `ProfileUnavailable`; `FlightRead`, `FlightFetch`, `FlightUnavailable`, `FlightStore` |
| `/oauth/revoke`, `revoke` | `RevokeSelect`; `DeleteAccess`, `DeleteGrant` |

### ProjectUpload

A run of the script is a record `client[r]`; each phase waits for one call. A call is in
`calls` until the server takes it (`Arrive`), which may be after the script gave it up. The
server keeps two kinds of promise locks: `queue[r]` is `exclusive(dir)`, `root` is
`exclusive(uploads root)`; the first entry runs, and `step` and `begun` say at which of its
awaits it is. What is on disk is `files[r]` (which entries the directory has) and `bundle[r]`
(the chunks in it). `begin()` sweeps expired directories holding the root's lock only, entry by
entry: `SweepKeep`, `SweepUnlink`, `SweepRmdir`; a handler of the swept upload may be at any of
its steps. A directory that was emptied but not removed, and a call that finds its directory
gone, behave as the file system does.

`ProjectUpload` maps to `ProjectImport` by `handed` (the runs whose bundle is complete),
`published` and `reported` (the scripts that were told): an environment is published from a
complete bundle only, and reported only when it is there.

### SourcePreparation

A class has two files: `standard`, written by Vineflower in the version's directory, and
`priority`, in a directory of its own. A text is *torn* while it is written, *raw* with the names
of the jar, *whole* with the names that readers expect. `dir[v]` holds the sentinels (`done`,
`error`, the pid in `running`, the marker of replaced names) and the Vineflower processes,
which a restart of the server turns into orphans. `worker[c]` is a job of the class pool,
`build` the job of the version queue, `naming` the background jobs that replace names, each with the
files it has still to walk. `mcp[v]` is `mcpCache`: the names of a version's members are asked for
once and are found or missing, until the server restarts; a version may have none (no entry in
`MCP_CHANNELS`), or their download fails. With names missing the code replaces nothing and writes
its marker all the same, and `nameless` remembers the classes that passed for named that way.

| Code | Action |
|---|---|
| `prepareMinecraftSource`, `runClassPreparations` | `Prepare`, `ChooseFile`, `EndClass`, `ClassFails`, `ReadClass`, `StoreClass` |
| `hosted-mc-index.ts` | `Schedule`, `CheckIndexed`, `Poll`, `BuildFails`; `Pump` at the end of each job |
| `decompileMcVersion`, `decompileJar` | `GoOn`, `Spawn`, `WritePid` |
| `getMcpNames` | `GetNames`, in `EndClass` and `BeginNaming` |
| `ensureMcSourceNames` | `StartNaming` in whoever calls it; `AwaitNames`, `BeginNaming`, `ReplaceNames`, `EndNaming`, `NamingFails`, `NamingBreaks` |
| `indexMcVersion` | `ListFiles`, `IndexFile`, `MarkIndexed` |
| Vineflower; `child.on("exit")` | `BeginFile`, `EndFile`; `Succeeds`, `Crashes` |

### EmbedQueue, ModLibrary

`mods` are rows of the table, `jarOf` the jar of each; keys are given out in order and never
again. A call of a client is a record `call[c]` whose `at` is the await it is in, so that the row it
found may be gone when it goes on. What a jar has in common with another is in four functions:
`ModOf`, `Key` (the unique key of the table), `Dir` (the directory of its source) and `Content`.
`dir[d]` holds the sentinels and the runs of Vineflower of a directory, `text[d]` what sources of
which content are in it. `worker` is the one loop of `drainQueue`, taken apart at its awaits.

`owed`, `spoilt`, `wanted` and `abandoned` are history: which modIds should be there, which
directories were worked on by two at once, which mods were queued since the start, and which
were given up. `bound` narrows a behaviour to one of the explorations in `Bounds`.

| Code | Action |
|---|---|
| `ingestMod` | `Ingest`, `FindDuplicate`, `FindOlder`, `Drop` (of either), `CheckHash`, `Create` |
| `decompileMod`, `decompileJar` | `Decompile`, then `Spawn` or `Mark` |
| `decompileModStatus` | `PollStatus`, `Note`, `Ask` |
| `proc.on("close")` | `Succeeds`, `Crashes` |
| `deleteModFull` | `Delete`, `Erase` |
| `drainQueue`, `indexModSourceSemantic` | `Take`, `Walk`, `Embed`, `Retry` |
| `startupEmbedScan`; `index_fts` | `StartupScan`; `IndexFts` |
| the server starts again; Ollama comes and goes | `Restart`; `OllamaTurns` |

## 3. Runs

| Run | Question | Result |
|---|---|---|
| `bridge_commands` | Two commands, one a diagnostic; lost, late and repeated exchanges; deque and inbox limits. `AtMostOnce`, `TruthfulReply`, `LateBeginsOnlyInLongPump`, `DeliverySpec` (refinement), and under `FairSpec` `EveryCallAnswered` | holds |
| `bridge_events` | Four events through a deque of three and a journal of four; a late request, a loss of contact. `NoEventLost`, `JournalInOrder`, `ConnectionAlternates`, `StopLeavesNoGap`, and under `FairSpec` `EveryEventRecorded` | holds |
| `sdl` | Two controls, four commands, an input queue that is full after two events. `NothingSticks`, and under fairness `EventuallyReleased` | holds |
| `legacy` | Both backends, two keys, three commands. `CompletedOnce` on both; on GLFW `GlfwNoResultLost`, `GlfwNothingSticks` | holds |
| `legacy_deadlock` | GLFW: is a held key released some day, with both threads fair? | violated |
| `lock` | Three bridges that start at any time and die anywhere. `OneOwnerInTurn`, `LiveOwnerKept`, `FilesNameTheServer`, `StaleLockReplaced` | holds |
| `lock_race` | Is there one owner when several start over a stale lock? | violated |
| `journal` | Two lives of a bridge, which reads the file at any time before, two agent events, a launch, a write that fails or a crash, a reader. `ReaderServed`, `CloseKeepsHistory`, and under fairness `EventuallySaved` | holds |
| `upload` | Two runs of the script with one environment, two chunks, two tries, one active upload, three faults. `AcknowledgedIsStored`, `FailsForAReason`, `ActiveBounded`, and `ImportSpec` (refinement) | holds |
| `oauth` | Two requests at a time on two replicas, a provider that rotates or not, one fault. `OneGrant`, `EndsForAReason`, `NewestAccepted`, `InStep` | holds |
| `sources` | Two classes of a version whose names are replaced, two runs of Vineflower, one restart, crash or time-out, under `LiveSpec`. `IndexedIsWhole`, `EventuallyServed` | holds |
| `library` | Three jars, two calls, up to three rows, two runs of Vineflower, one restart, crash or absence of Ollama, under `LiveSpec`. `KeepsAMod`, `SourceIsOwn`, `NothingForgotten`, `EventuallyEmbedded` | holds |

The type invariants are proved (section 4). Some say more than types: in `SdlInput` the queue's bound;
in `HostedOAuth` that a grant that ended leaves nothing in its row; in `SourcePreparation` that
the pool's counters agree with its jobs; in `ModLibrary` that the keys of the table are unique.

The two violations are disagreements between the code and its own documentation:

* **`legacy_deadlock`** (`LegacyAgent.java:191`). `exchange()` holds the agent's monitor and
  wants the input's (`offer`); `frame()` holds the input's and wants the agent's (`event`,
  `complete`).
* **`lock_race`** (`hub.ts:162`). Two starting bridges read the same dead pid; the second
  `unlink` removes the first one's new lock. `LiveOwnerKept` shows that this takes a death:
  bridges that merely start together do not rob each other.

Three more things the models contain, which no property is about:

* A press waits in the command queue while the game does not poll. The next pump finds the
  lease over and releases everything, and then, in the same call, executes the press, whose
  10 s deadline outlives the 5 s lease (`SdlAdapter.java:146`). `EventuallyReleased` bounds
  how long it is held.
* On LWJGL2 a hold that ends leaves `keyExpiry` and queues a release until the game polls it.
  `releaseAll()` before that, as for a `release_all` in the same frame, clears the queue and
  releases only what is still in `keyExpiry`: the release is gone, and the key stays down
  (`LegacyInput.java:348`), although `RUNTIME.md:148` says that held keys expire. TLC finds this as a
  violation of `HeldHasExpiry` with `Backend = {"lwjgl2"}`. Hence the `Glfw` in the names of two
  properties.
* `lastSeq` is not persisted. A bridge journals an event and saves it, the answer is lost, the
  bridge is closed and started again: the agent posts the event again, and the journal has it
  twice (`hub.ts:380`).

Some properties have conditions, and each is needed:

* `LateBeginsOnlyInLongPump` would be "a command whose caller heard of a timeout never begins" if it
  were not for a pump that takes longer than the second between the deadline and the timeout: it
  compares every command with the time at its begin (`SdlAdapter.java:149`), so that one that waits
  behind a change of mode or a slow command begins although its caller was told
  otherwise; the plain statement is violated in the model. A timeout tells the caller that
  the outcome is unknown, so this contradicts no document.
* `ReaderServed` and `CloseKeepsHistory` are stated for bridges that did not crash, closed
  without an entry arriving during their last write, and began with what was in the file.
  A bridge that read `events.json` before another wrote it, and owns the cache later, gives cursors out
  again, so that a reader passes new entries, and overwrites the newer history with its own
  (`hub.ts:106-126`); nothing reads the file again. After a crash the cursors that were not
  persisted are given out again, so that a reader may pass new entries; and `close()` clears
  `dirty` after its write (`hub.ts:597`), so that an entry which arrived meanwhile is on no
  disk although the agent may have forgotten it. No document promises more. A reader that asks
  with cursor 0 asks for whatever is kept and is never told `truncated`.
* `FailsForAReason` excuses a run that met a fault which was not its to survive (`excused`). Two
  things are on that list that one might not expect: whether a directory has expired is judged
  by the directory's own modification time, which writing chunks does not refresh; and a begin
  that sweeps another upload may fail because that one's directory went away or filled again
  under its hands (`SweepMissing`, `SweepRmdir`). A begin whose answer is lost leaves an active
  upload that counts until it expires.
* `EndsForAReason` lists in `causes` what may end a sign-in. A restart between `Claim` and
  `Rotate` is one of them: the client's token is claimed and nobody gives it back. `InStep`
  excepts a provider that rotated its token in an answer nobody received.
* `IndexedIsWhole` excepts a version on which two Vineflowers worked at once (a restart
  between `spawn` and the writing of the pid lets the next build start another), and a class
  whose file changed between being read and being stored. A class job takes the standard file
  also when the version's last run failed, and before its names are replaced, which the
  comment at `hosted-mc-index.ts:22` does not suggest; a later build of the version makes up
  for it. It allows raw texts for classes in `nameless`: where there is no mapping, or its download
  failed, `.mcp-names.done` is written although nothing was replaced (`vanilla.ts:374-375`), the
  version is indexed with raw names, and nothing replaces them later. "Every indexed text has
  its names" is violated in the model for that reason alone.

* `KeepsAMod` excuses a replacement whose bytes are in the table under another modId, which ends as
  a duplicate with the old version already removed (`ingest.ts:113-133`), and one that a restart cuts.
* `SourceIsOwn` excepts a directory that had two users at once. It is named by modId and version, so
  that two loaders share it, and so does the build that replaces one without its directory being
  removed; nobody holds it between looking at the sentinels and starting Vineflower.
* `NothingForgotten` is about the time between two starts. After a restart `startupEmbedScan` finds
  only mods that have files without an embedding: one that still waited for its first step is not
  found (`embed-queue.ts:49`). It excepts a mod whose directory two were at work in: where several
  versions share one, the delete of one takes the source of the others, and the worker finds
  nothing to embed and goes on as if it were done. `EventuallyEmbedded` excepts a worker that ended with mods
  waiting, because Ollama went away; the next mod that is queued wakes it.

### Bounds

Every capacity is a constant, so a run uses the smallest value at which its limit is met:
deques of 1 to 3 that 2 to 4 events overflow, a command queue and an id memory of one, a
pending table of one with two commands, a journal of four. What makes the cases is the number of
actors, which is small in the code too: one exchange at a time, one io thread, one game
thread. Model-only bounds are `MaxSeq` (events), `MaxLosses` (losses of contact),
`MaxOrphans` (late requests at once; a dying client may add one), `MaxCommands` (commands
that arrive). A late request is overtaken by the current one and overtakes it; the proofs cover
any number of them, and of pending commands and losses. A command whose caller gave up leaves
the pending table while it may still be in the client, so both commands are there at once.

Deadlines of one or two units suffice because only their order matters: deadline before timer
(`Grace` is positive), lease against deadline and hold.

In `journal` a journal of three of which two are saved drops entries in memory and on disk
(up to six are added), one call returns one entry, and two lives make one restart.

In `upload` a limit of one active upload makes two scripts compete, and two tries make each
of them give up or survive; three faults are enough for a call that is given up, an expiry and
a restart in one behaviour. In `oauth` two requests at a time on two replicas show every pair
of handlers; three tokens of either side allow a code, a grant and one rotation of each.
In `sources` two classes of one version compete for the pool and for the version's directory;
two runs of Vineflower allow an orphan and its successor.

In `library` each behaviour is one of three explorations (`MCBounds`), since all of it at once is
too large: the queue with one call at a time and two mods that wait; two ingestions at once over
three rows; two calls of any kind over two rows and two runs of Vineflower. One retry of the worker
allows success, failure and giving up; one fault is a restart, a failed run, a failed embedding or
an Ollama that goes.

### Fairness

* `RuntimeBridge`: time passes and Node fires a due timer (weak, `Tick`, `Expire`); the
  telemetry loop polls again after every outcome, also after an exception
  (`RuntimeAgent.loop`, 195-211: weak, `StartExchange`); a loopback request that is made
  again and again is some day processed and its answer read within its second (strong,
  `AcceptCurrent`, `HandleAnswer`). Nothing is assumed of the game thread, the io executor,
  late requests, the monitor or the callers.
* `SdlInput`: the game keeps polling (weak) and time passes between polls (strong, since the
  model lets no time pass within a poll).
* `LegacyInput`: both threads run, an exchange ends by its time-outs, and a monitor that is
  free again and again is obtained. The deadlock appears under all of this.
* `EventJournal`: the monitor's interval fires, and a write ends, well or not (weak). At most
  `MaxFaults` writes fail; without such a bound nothing need ever be saved.
* `SourcePreparation`: a class job, the build of a version, the replacing of names and a
  Vineflower that runs go on (weak, one condition each); a client that needs a version asks
  for it again until it is indexed (`Schedule`). Nothing is assumed of failures and restarts,
  of which there are at most `MaxFaults`; without a bound no build need ever end.
* `ModLibrary`: the worker's timers fire and its requests end (weak, one condition for the one
  loop). Nothing is assumed of calls, of Vineflower or of Ollama: that it stays is the premise of
  `EventuallyEmbedded`.
* `BridgeLock`: a start that has begun goes on unless the process dies; an idle bridge tries
  again. Nothing forces a serving bridge to close.

## 4. Proofs

Every theorem is for all values of the constants that satisfy the named assumptions of its
module, which TLC evaluates in every run: finite sets of commands, controls or runs of the
script, any sets of bridges, replicas and requests, and any capacities, deadlines and bounds
(positive where the code needs them to be).

* `Typing == Spec => []TypeOK` (`RuntimeBridgeProofs`): one step of the proof per action, over
  lemmas about `PushEvent`, `Complete`, `Remember`, `NextCommand`, `Add` and `Accept`. The
  facts that are not obvious are that the `CHOOSE`s denote (`LeastInSet`, `GreatestInSet`,
  and the oldest result of a full deque).
* `NoLoss == Spec => []NoEventLost`, `InOrder == Spec => []JournalInOrder`,
  `NoGap == Spec => []StopLeavesNoGap`, `Alternating == Spec => []ConnectionAlternates`
  (`RuntimeBridgeProofs`).

`NoEventLost` is not inductive: that an acknowledgement discards nothing depends on what the
hub acknowledged, and that on the packets it saw. The invariant `HistoryInv` adds

1. every packet on its way, current or late, carries a *prefix* of what was unsettled when it
   was sent: anything older than one of its events is in it or settled (`PrefixBatch`);
2. everything up to `lastSeq` is settled (journaled, or dropped by the full deque), because
   `accept()` only moves `lastSeq` to the greatest event of such a packet;
3. the acknowledgement on its way is at most `lastSeq`;
4. a session is ended only when the stop's number is at most `lastSeq`;
5. journal entries have cursors up to `cursor` and numbers up to `lastSeq`, so that new
   entries follow all old ones.

(1) holds for a new packet because the batch is the `BatchSize` smallest numbers of the deque
(`FirstOfPrefix`); it survives because settled events stay settled. `StopLeavesNoGap` then
follows from (2) and (4).

`ConnectionAlternates` needs beside itself only that the journal is finite and that a session
the hub does not know is not disconnected (`ConnectionInv`). A step adds at most one connection
event, as the newest entry, and what `add()` drops is the oldest, so that of two entries that
were neighbours either both stay or the older goes first (`NewestKept`).

* `Once == Spec => []AtMostOnce`, `Truthful == Spec => []TruthfulReply`,
  `NoLateStart == Spec => LateBeginsOnlyInLongPump` and `Implements == Spec => DeliverySpec`
  (`RuntimeBridgeProofs`).

That a command acts once depends on there never being a second copy of it. The invariant
`DeliveryInv` follows a command from the answer that brings it to its completion:

1. it is in one place, once: the answer, the inbox, the executor's jobs, or running
   (`OnePlace`);
2. wherever it is on its way, it was handed out and has neither effect nor result; a command
   that was not handed out is untouched as well; one with a result, queued or in any request
   still on its way, is settled: one effect at most, and exactly one behind an `ok`
   (`WorkInv`);
3. replies agree with that: who was refused or has not called was not handed out, `ok` stands
   on one effect, and a time-out is told no earlier than `Expiry`, after the deadline by `Grace`
   (`ReplyInv`).

Because the hub takes a command off its queue when it hands it out, a command on its way is
not handed out again; so (1) does not depend on the agent's memory of ids, and holds however
short that is. `NoLateStart` needs one thing more (`PumpInv`): what is not overdue in a running
pump was within its deadline when the pump read its clock, so its age is at most the deadline and what
the pump has taken since; if it has reached `Expiry`, the pump has taken at least the grace. The refinement needs no further invariant: each action changes
`reply` and `effects` in the way `ReplyInv` and `WorkInv` allow.

* `LockTyping`, `LiveOwner == LockSpec => []LiveOwnerKept`, `OwnerInTurn == LockSpec =>
  []OneOwnerInTurn` and `FilesInTurn == LockSpec => []FilesNameTheServer` (`HubProofs`), for any
  set of bridges.

While nobody died no lock is stale, so nobody is ever about to unlink one that is not its own
(`LiveInv`). While bridges start in turn, the lock a lone starter unlinks is the very one it
found stale, or gone (`TurnInv`): nobody else can have made a new one between its probe and
its unlink. The race of `lock_race` is exactly the failure of that conjunct.

* `Typing == Spec => []TypeOK` and `NoStuckInput == Spec => []NothingSticks`
  (`SdlInputProofs`), for any controls.

`NothingSticks` speaks of what the game *will* be told: the last queued event of a control
decides, or `down` if there is none (`WillBeDown`). That makes it inductive, given what queueing and
taking events do to "the last event of a control" (`ToldAppend`, `ToldReleases`, `ToldTail`).
The bound in `TypeOK` is that the queue's length plus the number of holds is at most `SynthCap`,
one press, and one more for each control: a release is queued without a look at the queue, but
ends a hold, and a new hold takes a press, which looks.

* `Typing == Spec => []TypeOK`, `OneResult == Spec => []CompletedOnce`,
  `NoResultLost == Spec => []GlfwNoResultLost` and `NothingSticks == Spec => []GlfwNothingSticks`
  (`LegacyInputProofs`), for any keys.

What a thread holds fits where it stands (`ThreadInv`). A command is in one place, in the hands of
a thread or in one of the queues, and none on its way has a result (`CountInv`); each completion
takes it off its place in the same step. On GLFW no event waits to be polled, so what the game
was told is what `keyExpiry` records, and `applyMode` leaves nothing recorded (`GlfwInv`). The two
properties are false on LWJGL2, so nothing is proved of it beyond types and `CompletedOnce`.

* `Typing`, `ConsentOnce == Spec => []OneGrant`, `HeldTokenInStep == Spec => []InStep`,
  `NewestTokenAccepted == Spec => []NewestAccepted` and `EndedForAReason == Spec =>
  []EndsForAReason` (`HostedOAuthProofs`), for any replicas and requests.

The right to make the grant is in one place at a time: the state object, the request that took it,
the approval, the request that took that, the code (however many requests
know it), the request that took the code. Each step moves it on or
destroys it. `InStep` needs that with a provider that rotates there is one replica, so one
flight, and that a request reads the row after the flight before stored it.

`NewestAccepted` follows a token from its minting: at most one request at a time exchanges or
refreshes, since the second finds nothing to take or to claim; while one refreshes, the row
accepts no token, and the one it may put back is the newest that was answered (`RInv`).

`EndsForAReason` is about the answers of the provider. As long as there is no reason
(`causes`), the provider accepts the row's access token while it is fresh, a request is on its second
try only with a row that is, and the flight it waits for has the refresh token the provider
accepts (`EInv`); so no answer sends a request to end the grant. It rests on one thing
that is assumed of the environment: the provider's access token outlives the requests that
began before it was fetched (`UpstreamExpires`), an hour against seconds.

* `Typing`, `Stored == Spec => []AcknowledgedIsStored`, `Bounded == Spec => []ActiveBounded`,
  `Implements == Spec => ImportSpec` and `FailedForAReason == Spec => []FailsForAReason`
  (`ProjectUploadProofs`), for any runs, sizes and tries.

1. Until its begin is answered or given up nothing of a run is on the server, and its begin is
   in one place once (`BeginInv`).
2. A handler has checked what it goes on to rely on: it appends the chunk that comes next, it
   imports a complete bundle (`StepInv`). Calls on one upload wait for each other, so
   nothing but the sweep of an expired upload comes between, and that removes and never writes.
3. What was written is a prefix of the bundle, and as long as the script is told (`StoreInv`).
4. A receipt, an answer to finish and a report stand for a published environment
   (`ReceiptInv`).
5. `begin()` counts the active uploads holding the root's lock, and without that lock they
   only become fewer (`LimitInv`).
6. Until a run met a fault or was refused, each call it waits for finds what its handler
   asks for: a repeated chunk is the last one that was written, a repeated finish a complete
   bundle or its receipt, and the calls left over from earlier tries say nothing else (`FInv`).

* `Typing`, `History == Spec => []CloseKeepsHistory` and `Served == Spec => []ReaderServed`
  (`HubProofs`), for any capacities, lives, crashes and failed writes.

Both properties speak of bridges that did not crash, of entries that did not come while
`close()` was writing, and of bridges that began with what was in the file; the invariant says what
such lives have in common (`Calm`).

1. Cursors number everything ever added, over restarts as well, and the journal is the end of
   that, at least `SaveCap` long if there was so much (`HistoryInv`). So a
   snapshot of the journal is a snapshot of the history (`SnapshotIsNewest`), and a bridge whose
   copy is the file goes on where the last one ended (`ListenHistory`).
2. The newest entries are in the file, or in the last snapshot of the promise chain, or the
   journal is dirty; while `close()` writes, its snapshot is the newest (`FileInv`). A write that
   fails makes the journal dirty again, which is what keeps this true.
3. Given (1), an entry is in the journal if its cursor is above the one `truncated` is about;
   the answer has no gap, since it is the oldest of what the reader wants (`GotAll`), and is not
   empty if there is something (`GotSome`).

* `Typing`, `ModKept == Spec => []KeepsAMod`, `OwnSource == Spec => []SourceIsOwn` and
  `NoneForgotten == Spec => []NothingForgotten` (`ModLibraryProofs`), for any jars, calls, rows,
  runs and tries.

1. `TypeInv` adds to the types what guards and numbers rest on: a call that may create a row finds a
   number for it (`Room`), a call on a mod has that mod's jar, whoever has the row removed meanwhile,
   the worker that looks for a mod finds one in the queue.
2. A call removes rows only to replace them, and only of the modId it brings; a row that is to be
   removed and is gone was removed by another call that brings the same (`ReplaceInv`).
   `KeepsAMod` is not inductive without it: the call that finds its row gone fails.
3. In a directory where no two were at work all jars have one content, a run is alone, not done and
   its text is not whole; a directory that is done has all of one jar's text and nothing else
   (`DirInv`). A mod is marked only as long as its directory is done, or is being
   deleted (`MarkInv`).
4. A mod that the worker leaves is embedded, waits, was given up, or had nothing to be found:
   by (3) that takes a directory that is being removed or was worked on by two (`ForgetInv`).

(3) uses `JarAssumption`, which `parseJar()` justifies (`processor.ts`): the metadata of a jar are of
its content; without any, of its file name, and then only the modId differs. So jars of the same
content in one directory are one version, of which the table has one row.

* `Typing == Spec => []TypeOK` and `IndexedWhole == Spec => []IndexedIsWhole`
  (`SourcePreparationProofs`), for any versions, classes, slots and bounds; there is at least one
  version, so that a build that is idle has one to name.

1. `PoolOK` is about the arguments of `RunPreparations`, not the variables, so it can be
   followed through a call that forgets a failure, queues a class or frees a slot before it starts
   another (`ForgetPool`, `QueuePool`, `EndPool`, `RunPool`). It adds to `TypeOK` that the busy
   versions are finitely many, without which their number says nothing. The runs of a version are
   numbered from one without a gap (`DirInv`), so the next number is free and the pid that is
   written is the last run's.
2. A run writes classes of its own version only (`TodoInv`). In a directory where there were
   never two at once one run is alive, every class is written or still to do, and when it is done
   nobody is alive and all classes are written (`RunsInv`): a run that ends well has
   nothing to do, and none is spawned in a directory that is done. So whatever a run does touches
   neither another version nor one that is done (`VineflowerSource`).
3. Names are replaced after that and only make raw texts whole. A job with names has made whole what
   it has walked, and names that were asked for stay what they are (`NamingInv`); so when it sets the
   marker each class is whole, or the names are missing and the class is in `nameless` (`Named`). A
   job that fails sets none. A build lists the files when the marker is set, or when there is nothing
   to replace (`BuildInv`).
4. A class' own file is whole once it is ready, or raw and in `nameless`, and a worker takes it only
   then (`PriorityInv`); what it stores is what the file holds unless it changed after it was read, which
   `late` remembers.
5. `IndexInv` is `IndexedIsWhole` with what keeps it true: a version that is marked is done and its
   texts are named in the sense of (3), so another row that is stored for it is as well.

Only model-checked: the liveness properties (fairness and `ENABLED` are outside the prover).

## 5. What is left out

* One session of one project. Sessions share the journal and nothing else; the limit of 64
  sessions, `setup()` and `artifact()` are not modelled.
* In `RuntimeBridge`, a restarted hub and `events.json` (`EventJournal` has them): `journal` is
  the in-memory one, `recorded` remembers what ever entered it. In `EventJournal`, late requests and the
  connection events (`RuntimeBridge` has them), and `close()` called twice at the same time.
* Pumps without a command to come (`Coming`) are left out, since a pump that takes nothing compares
  nothing with its clock. Each step of a pump may take any time.
* `releaseAll()` may discard any subset of the queued completions in `RuntimeBridge` (in the
  code: those of input, not those of screenshots); `SdlInput` has the exact effect on input.
* Coordinates, text, scrolling and the content of metrics, diagnostics and screenshots. In
  `SdlInput` they are one kind of event that presses nothing.
* `LegacyInput`: callbacks that are not installed yet (a press is then recorded although it
  fails), screenshots, and the legacy agent's deques, which work as in the modern one.
* `BridgeLock`: a pid that is used again for another process, and recovery from an empty
  `bridge.lock`, which the code does not have: a bridge that dies between creating the file
  and writing its pid blocks every later start.
* `HostedOAuth`: client registration, rate limits, metadata and pages; the expiry of the client's
  own tokens; a database that fails; a provider without refresh tokens. A provider that is
  down during the callback has the effect of an approval that expires. A forced refresh may join a
  flight that is not, as in the code. Deleting a grant leaves access tokens
  another request inserts afterwards, since no foreign key ties them; without the grant they
  open nothing.
* `ProjectUpload`: reading an environment and `import_local`; a receipt or a chunk that a
  crash leaves half written, staging directories that a crash leaves behind; bundles whose
  digest is wrong.
* `SourcePreparation`: the local tools, which decompile with `force`; text itself; a mapping that
  lacks single members, whose names then stay as they are. A look-up and
  the job it makes are one step, and so is the replacing of names in one file, and a sentinel with
  the removal of the pid. Vineflower writes nothing before its pid is on disk: it takes a Java
  machine to start.

* `ModLibrary`: newer metadata for a jar that is in the table, platform look-ups, the class index
  (built in the background and made again by `reindex`), jars in a jar, graphs, the batch tools,
  `index_semantic` by hand; a pid that is used again. Removing a directory and walking it are one
  step each.

Components that are not modelled, with the reason in `PROJECT.json`:

* The *runtime CLI* submits one request and hears one answer; what it can race with is in
  `BridgeLock` (a companion that stops) and `RuntimeBridge` (a call that fails).
* *Hosted policy and budget*: a charge is one conditional UPSERT, so nothing comes in between.
* The *HTTP fetch* is a loop around one request, with a cache per process that nothing else
  depends on.
* *Jar parsing, the other repositories, mappings, catalogues, set-up, transformers* are two thirds of the
  lines: sequential parsers, queries and thin clients. A model of them would be a transliteration,
  and there is no order of steps to check. This is why the models
  cover a small part of the lines and most of the concurrency.

## 6. Plan

1. Done: `CommandDelivery`, `RuntimeBridge`, `SdlInput`, `LegacyInput`, `BridgeLock`,
   `EventJournal`.
2. Done: `HostedOAuth`, `ProjectImport`, `ProjectUpload`, `SourcePreparation`,
   `EmbedQueue`, `ModLibrary`.
3. Done: proofs of typing, of the event properties, of delivery and of uploads with their
   refinements, of input on both backends, of ownership, of the journal, of sign-in, of prepared
   sources and of the library with its queue.
4. Left: an abstract log that `EventJournal` implements while no bridge crashes; the companion
   CLI on top of `BridgeLock` (ping, start, single submission, stop); the hosted budget over a
   day's end; retry with back-off.
5. Nothing the runs check is left to prove but the liveness properties.

Questions of later modules share a run where one instance can answer them, so that each run
stays a question of its own.
