----------------------------- MODULE BridgeLock -----------------------------
(***************************************************************************)
(* One local bridge owns a runtime cache: openListener(), listen() and      *)
(* close() of src/src/runtime/hub.ts, and the companion process that wraps  *)
(* a bridge (src/src/runtime/companion.ts).  Bridges are processes; they    *)
(* share the files bridge.lock, connection.properties (one project stands   *)
(* for all) and companion.json.                                             *)
(*                                                                          *)
(* A lock file is named by the process that created it: its content is that *)
(* process's pid once it is written, and empty before.  A process may die   *)
(* between any two steps and its pid then answers ESRCH.                    *)
(***************************************************************************)
EXTENDS FiniteSets

CONSTANTS
  Bridge,       \* the processes
  Companion,    \* those started with --serve, which publish companion.json
  NoBridge      \* no file

ASSUME BridgeAssumption ==
  /\ Companion \subseteq Bridge /\ NoBridge \notin Bridge

VARIABLES
  pc,           \* where each process is
  lock,         \* bridge.lock: who created the file
  written,      \* the processes that wrote their pid into the file they created
  owner,        \* the pid each starting process read
  connection,   \* connection.properties: whose endpoint the clients poll
  descriptor,   \* companion.json: whose endpoint the CLI calls
  overlapped    \* history: two processes have opened the listener at the same time

lockVars == <<pc, lock, written, owner, connection, descriptor, overlapped>>

Starting == {"reading", "probing", "unlinking", "recreating", "writing"}
Owning   == {"listening", "serving", "published", "unpublishing", "closing"}

LockTypeOK ==
  /\ pc \in [Bridge -> {"idle", "dead"} \cup Starting \cup Owning]
  /\ {lock, connection} \subseteq Bridge \cup {NoBridge}
  /\ descriptor \in Companion \cup {NoBridge}
  /\ written \in SUBSET Bridge
  /\ owner \in [Bridge -> Bridge \cup {NoBridge}]
  /\ overlapped \in BOOLEAN

LockInit ==
  /\ pc = [b \in Bridge |-> "idle"]
  /\ lock = NoBridge /\ written = {}
  /\ owner = [b \in Bridge |-> NoBridge]
  /\ connection = NoBridge /\ descriptor = NoBridge
  /\ overlapped = FALSE

Goto(b, place) == pc' = [pc EXCEPT ![b] = place]
Starters == {b \in Bridge : pc[b] \in Starting}
-----------------------------------------------------------------------------
(* openListener().  A start that fails leaves the process idle: close()     *)
(* does nothing to the files of a bridge without ownsLock.                  *)

\* open(lockPath, "wx") creates the file, or fails with EEXIST.
Open(b, found) ==
  \/ /\ lock = NoBridge
     /\ lock' = b
     /\ written' = written \ {b}
     /\ Goto(b, "writing")
  \/ /\ lock # NoBridge
     /\ Goto(b, found)
     /\ UNCHANGED <<lock, written>>

Start(b) ==
  /\ pc[b] = "idle"
  /\ Open(b, "reading")
  /\ overlapped' = (overlapped \/ Starters # {})
  /\ UNCHANGED <<owner, connection, descriptor>>

\* Mutant: a lock file that cannot be read is taken for stale.
ReadOwnerBlind(b) ==
  /\ pc[b] = "reading"
  /\ \/ /\ lock \in written
        /\ owner' = [owner EXCEPT ![b] = lock]
        /\ Goto(b, "probing")
     \/ /\ lock \notin written
        /\ Goto(b, "unlinking")
        /\ UNCHANGED owner
  /\ UNCHANGED <<lock, written, connection, descriptor, overlapped>>

\* readFile and JSON.parse: the file may be gone, or still empty.
ReadOwner(b) ==
  /\ pc[b] = "reading"
  /\ \/ /\ lock \in written
        /\ owner' = [owner EXCEPT ![b] = lock]
        /\ Goto(b, "probing")
     \/ /\ lock \notin written
        /\ Goto(b, "idle")
        /\ UNCHANGED owner
  /\ UNCHANGED <<lock, written, connection, descriptor, overlapped>>

\* Mutants: the owner is taken for dead, or for alive, whatever the signal says.
ProbeDead(b) ==
  /\ pc[b] = "probing"
  /\ Goto(b, "unlinking")
  /\ UNCHANGED <<lock, written, owner, connection, descriptor, overlapped>>

ProbeAlive(b) ==
  /\ pc[b] = "probing"
  /\ Goto(b, "idle")
  /\ UNCHANGED <<lock, written, owner, connection, descriptor, overlapped>>

\* process.kill(owner.pid, 0): a live owner is left alone.
Probe(b) ==
  /\ pc[b] = "probing"
  /\ Goto(b, IF pc[owner[b]] = "dead" THEN "unlinking" ELSE "idle")
  /\ UNCHANGED <<lock, written, owner, connection, descriptor, overlapped>>

\* unlink(lockPath) removes whatever file has the name now.
UnlinkStale(b) ==
  /\ pc[b] = "unlinking"
  /\ lock' = NoBridge
  /\ Goto(b, IF lock = NoBridge THEN "idle" ELSE "recreating")
  /\ UNCHANGED <<written, owner, connection, descriptor, overlapped>>

\* The second acquire(): EEXIST is an error now.
Recreate(b) ==
  /\ pc[b] = "recreating"
  /\ Open(b, "idle")
  /\ UNCHANGED <<owner, connection, descriptor, overlapped>>

\* writeFile of the pid (into the file that was opened), then ownsLock.
WritePid(b) ==
  /\ pc[b] = "writing"
  /\ written' = written \cup {b}
  /\ Goto(b, "listening")
  /\ UNCHANGED <<lock, owner, connection, descriptor, overlapped>>

\* Mutant: an existing connection.properties is kept.
ServeOnce(b) ==
  /\ pc[b] = "listening"
  /\ connection' = IF connection = NoBridge THEN b ELSE connection
  /\ Goto(b, "serving")
  /\ UNCHANGED <<lock, written, owner, descriptor, overlapped>>

\* The listener is bound and every project's connection.properties points to it ...
Serve(b) ==
  /\ pc[b] = "listening"
  /\ connection' = b
  /\ Goto(b, "serving")
  /\ UNCHANGED <<lock, written, owner, descriptor, overlapped>>

\* ... or that fails (a project directory is gone), and listen() closes again.
ServeFails(b) ==
  /\ pc[b] = "listening"
  /\ connection' \in {connection, b}
  /\ Goto(b, "closing")
  /\ UNCHANGED <<lock, written, owner, descriptor, overlapped>>

\* startCompanion(): write companion.json beside and rename it.
Publish(b) ==
  /\ pc[b] = "serving" /\ b \in Companion
  /\ descriptor' = b
  /\ Goto(b, "published")
  /\ UNCHANGED <<lock, written, owner, connection, overlapped>>

\* stop_helper: the companion's server stops and it reads the descriptor ...
StopCompanion(b) ==
  /\ pc[b] = "published"
  /\ Goto(b, IF descriptor = b THEN "unpublishing" ELSE "closing")
  /\ UNCHANGED <<lock, written, owner, connection, descriptor, overlapped>>

\* ... and unlinks it when the token was its own.
Unpublish(b) ==
  /\ pc[b] = "unpublishing"
  /\ descriptor' = NoBridge
  /\ Goto(b, "closing")
  /\ UNCHANGED <<lock, written, owner, connection, overlapped>>

\* hub.close() of a stdio bridge, or of a companion that could not publish.
Close(b) ==
  /\ pc[b] = "serving"
  /\ Goto(b, "closing")
  /\ UNCHANGED <<lock, written, owner, connection, descriptor, overlapped>>

\* The listener is closed; ownsLock: unlink bridge.lock, whoever created it.
Unlock(b) ==
  /\ pc[b] = "closing"
  /\ lock' = NoBridge
  /\ Goto(b, "idle")
  /\ UNCHANGED <<written, owner, connection, descriptor, overlapped>>

\* The process ends, wherever it is.
Die(b) ==
  /\ pc[b] # "dead"
  /\ Goto(b, "dead")
  /\ UNCHANGED <<lock, written, owner, connection, descriptor, overlapped>>

Step(b) ==
  \/ Start(b) \/ ReadOwner(b) \/ Probe(b) \/ UnlinkStale(b) \/ Recreate(b) \/ WritePid(b)
  \/ Serve(b) \/ ServeFails(b) \/ Publish(b) \/ StopCompanion(b) \/ Unpublish(b)
  \/ Close(b) \/ Unlock(b)

LockNext == \E b \in Bridge : Step(b) \/ Die(b)

LockSpec == LockInit /\ [][LockNext]_lockVars

\* A start that has begun goes on; a process that is idle tries again and again.
FairLockSpec ==
  LockSpec /\ \A b \in Bridge :
                /\ WF_lockVars(ReadOwner(b) \/ Probe(b) \/ UnlinkStale(b) \/ Recreate(b) \/ WritePid(b))
                /\ WF_lockVars(Serve(b) \/ ServeFails(b))
                /\ WF_lockVars(Unlock(b))
                /\ SF_lockVars(Start(b))
-----------------------------------------------------------------------------
Owners == {b \in Bridge : pc[b] \in Owning}

\* RUNTIME.md:208, "One local bridge owns a runtime cache at a time".
OneOwner == \A a, b \in Owners : a = b

\* It holds, whoever dies where, while bridges start one after the other.
OneOwnerInTurn == ~overlapped => OneOwner

\* A bridge is not robbed by one that starts, however many start at once, as long as no
\* process has ended: the clients' connection stays with the one that owns the lock.
NobodyDied == \A b \in Bridge : pc[b] # "dead"
LiveOwnerKept == NobodyDied => OneOwner /\ \A b \in Owners : lock = b

\* The clients poll the bridge that serves, and the CLI calls the companion that serves:
\* neither file is left naming a bridge that was replaced (one start at a time again).
FilesNameTheServer ==
  ~overlapped =>
  \A b \in Bridge :
    /\ pc[b] \in {"serving", "published"} => connection = b
    /\ pc[b] = "published" => descriptor = b

\* The lock of a dead owner is taken over, unless it died before it wrote its pid, another
\* bridge serves already, or no process is left to try.
StaleLock == \E b \in Bridge : lock = b /\ pc[b] = "dead" /\ b \in written
StaleLockReplaced == StaleLock ~> (~StaleLock \/ Owners # {} \/ \A b \in Bridge : pc[b] = "dead")
=============================================================================
