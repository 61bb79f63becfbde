--------------------------- MODULE ProjectUpload ---------------------------
(***************************************************************************)
(* Chunked upload of a Gradle environment: begin, chunk, finish and abort   *)
(* of ProjectStore (src/src/tools/project.ts) together with the client      *)
(* script that drives them (src/scripts/project-upload.mjs).                *)
(*                                                                          *)
(* A run of the script makes one upload, so the run names the upload        *)
(* directory.  Bundles are counted in chunks: chunk number i of a bundle is *)
(* the number i, and the file on the server is the sequence of the chunks   *)
(* written to it.  A call may be delivered late, after the script has given *)
(* it up; the server may be restarted, which ends the MCP sessions.         *)
(***************************************************************************)
EXTENDS Naturals, Sequences, FiniteSets

CONSTANTS
  Run,          \* runs of the upload script, all with the same project key
  Env,          \* environments, named by the digest of their manifest
  EnvOf,        \* the environment in each run's bundle
  Size,         \* chunks in a bundle
  Attempts,     \* tries of upload_chunk and upload_finish (3 in the script)
  MaxActive,    \* active uploads per project (4 in the code)
  MaxFaults,    \* bound on restarts, calls given up and directories getting old
  NoRun

ASSUME UploadAssumption ==
  /\ IsFiniteSet(Run) /\ NoRun \notin Run
  /\ EnvOf \in [Run -> Env]
  /\ Size \in Nat \ {0} /\ Attempts \in Nat \ {0}
  /\ MaxActive \in Nat /\ MaxFaults \in Nat

VARIABLES
  client,       \* the script: what it waits for and how far it got
  calls,        \* calls of each run that have not reached the server
  reply,        \* the reply on its way to the call the script waits for
  live,         \* runs whose MCP session the server knows
  queue,        \* exclusive(dir): the calls on each upload, the first one runs
  step,         \* how far the first one is
  root,         \* exclusive(uploads root): the begins, the first one runs
  begun,        \* how far the first begin is: step, directories left, victim
  files,        \* the upload directory of each run
  bundle,       \* what was written to its bundle.zip
  aged,         \* directories not modified for 24 hours
  environments, \* published environments
  excused,      \* history: runs that met a fault, or were refused
  faults

serverVars == <<live, queue, step, root, begun, files, bundle, aged,
                environments, faults>>
vars == <<client, calls, reply, excused, serverVars>>

Phases == {"new", "begin", "chunk", "finish", "thank", "abort", "ok", "failed"}
Ended  == {"ok", "failed"}
Call   == {c \in [kind : {"begin", "chunk", "finish", "abort"},
                  at : 0..Size, attempt : 1..(Attempts + 2)] :
             /\ c.kind = "chunk" => c.at < Size
             /\ c.kind = "begin" => c.at = 0 /\ c.attempt = 1}
Reply  == [is : {"none", "ok", "error"}, at : 0..Size]
Entries == {"dir", "metadata", "bundle", "receipt"}

Kind(phase) == IF phase = "thank" THEN "abort" ELSE phase

\* The call the script makes when it enters a phase, and then waits for.
CallOf(c) == [kind |-> Kind(c.phase), at |-> c.at, attempt |-> c.attempt]
Waiting(r) == client[r].phase \in Phases \ ({"new"} \cup Ended)

TypeOK ==
  /\ client \in [Run -> [phase : Phases, at : 0..Size,
                         attempt : 1..(Attempts + 2), told : BOOLEAN]]
  /\ \A r \in Run : Waiting(r) => CallOf(client[r]) \in Call
  /\ calls \in [Run -> SUBSET Call]
  /\ reply \in [Run -> Reply]
  /\ live \in SUBSET Run /\ excused \in SUBSET Run
  /\ queue \in [Run -> Seq(Call)] /\ bundle \in [Run -> Seq(1..Size)]
  /\ step \in [Run -> {"start", "write", "import", "receipt", "clean"}]
  /\ root \in Seq(Run)
  /\ begun \in [at : {"list", "sweep", "rmdir", "fill"}, left : SUBSET Run,
                victim : Run \cup {NoRun}]
  /\ files \in [Run -> SUBSET Entries]
  /\ aged \in SUBSET Run
  /\ environments \in SUBSET Env
  /\ faults \in 0..MaxFaults

NoReply == [is |-> "none", at |-> 0]
Idle    == [at |-> "list", left |-> {}, victim |-> NoRun]

Init ==
  /\ client = [r \in Run |->
                 [phase |-> "new", at |-> 0, attempt |-> 1, told |-> FALSE]]
  /\ calls = [r \in Run |-> {}] /\ reply = [r \in Run |-> NoReply]
  /\ live = {} /\ excused = {}
  /\ queue = [r \in Run |-> <<>>] /\ step = [r \in Run |-> "start"]
  /\ root = <<>> /\ begun = Idle
  /\ files = [r \in Run |-> {}] /\ bundle = [r \in Run |-> <<>>]
  /\ aged = {} /\ environments = {}
  /\ faults = 0
-----------------------------------------------------------------------------
\* Every fault counts towards the bound.
Fault == faults < MaxFaults /\ faults' = faults + 1

(* The script.  It waits for one call at a time.                            *)

\* The script goes on: it makes the call of the new phase, or it ends.
Continue(r, phase, at, attempt, told) ==
  LET next == [phase |-> phase, at |-> at, attempt |-> attempt, told |-> told] IN
  /\ client' = [client EXCEPT ![r] = next]
  /\ calls' = IF phase \in Ended THEN calls
              ELSE [calls EXCEPT ![r] = @ \cup {CallOf(next)}]
  /\ reply' = [reply EXCEPT ![r] = NoReply]

\* client.connect(transport), then upload_begin.
Start(r) ==
  /\ client[r].phase = "new"
  /\ live' = live \cup {r}
  /\ Continue(r, "begin", 0, 1, FALSE)
  /\ UNCHANGED <<excused, queue, step, root, begun, files, bundle, aged,
                 environments, faults>>

\* A call failed: chunks and finish are tried again, then the script aborts
\* the upload if it knows its name, and ends.
Failed(r) ==
  LET c == client[r] IN
  CASE c.phase = "begin" -> Continue(r, "failed", c.at, c.attempt, c.told)
    [] c.phase \in {"chunk", "finish"} /\ c.attempt < Attempts
         -> Continue(r, c.phase, c.at, c.attempt + 1, c.told)
    [] \/ c.phase \in {"chunk", "finish"} /\ c.attempt >= Attempts
       \/ c.phase = "thank"
         -> Continue(r, "abort", c.at, Attempts + 2, c.told)
    [] c.phase = "abort" -> Continue(r, "failed", c.at, c.attempt, c.told)

Answered(r) ==
  LET c == client[r] IN
  CASE c.phase = "begin"  -> Continue(r, "chunk", 0, 1, FALSE)
    [] c.phase = "chunk" /\ reply[r].at # c.at + 1
         -> Continue(r, "abort", c.at, Attempts + 2, FALSE)
    [] c.phase = "chunk" /\ reply[r].at = c.at + 1
         -> Continue(r, IF reply[r].at = Size THEN "finish" ELSE "chunk",
                     reply[r].at, 1, FALSE)
    [] c.phase = "finish" -> Continue(r, "thank", c.at, Attempts + 1, TRUE)
    [] c.phase = "thank"  -> Continue(r, "ok", c.at, c.attempt, c.told)
    [] c.phase = "abort"  -> Continue(r, "failed", c.at, c.attempt, c.told)

Receive(r) ==
  /\ Waiting(r) /\ reply[r].is # "none"
  /\ IF reply[r].is = "ok" THEN Answered(r) ELSE Failed(r)
  /\ UNCHANGED <<excused, serverVars>>

\* The call times out (300 s) or its connection breaks; it may still arrive.
\* A chunk or a finish may fail so Attempts - 1 times before the run suffers.
GiveUp(r) ==
  /\ Waiting(r) /\ reply[r].is = "none"
  /\ Fault
  /\ Failed(r)
  /\ excused' = IF client[r].phase \in {"chunk", "finish"}
                   /\ client[r].attempt < Attempts
                THEN excused ELSE excused \cup {r}
  /\ UNCHANGED <<live, queue, step, root, begun, files, bundle, aged,
                 environments>>
-----------------------------------------------------------------------------
(* The server.                                                              *)

\* The server answers call c of run r: nobody listens to a call given up.
Answer(r, c, is, at) ==
  reply' = IF Waiting(r) /\ c = CallOf(client[r])
           THEN [reply EXCEPT ![r] = [is |-> is, at |-> at]] ELSE reply

\* The call joins the chain of exclusive().
Arrive(r) ==
  \E c \in calls[r] :
    /\ calls' = [calls EXCEPT ![r] = @ \ {c}]
    /\ \/ /\ r \in live /\ c.kind = "begin"
          /\ root' = Append(root, r)
          /\ UNCHANGED <<queue, reply>>
       \/ /\ r \in live /\ c.kind # "begin"
          /\ queue' = [queue EXCEPT ![r] = Append(@, c)]
          /\ UNCHANGED <<root, reply>>
       \/ /\ r \notin live              \* 404, Session not found
          /\ Answer(r, c, "error", 0)
          /\ UNCHANGED <<root, queue>>
    /\ UNCHANGED <<client, excused, live, step, begun, files, bundle, aged,
                   environments, faults>>

\* begin(), under the lock of the uploads root.
BeginCall == [kind |-> "begin", at |-> 0, attempt |-> 1]

EndBegin(is) ==
  /\ root' = Tail(root) /\ begun' = Idle
  /\ Answer(Head(root), BeginCall, is, 0)

BeginRest == <<client, calls, live, queue, step, environments, faults>>

BeginList ==
  /\ root # <<>> /\ begun.at = "list"
  /\ begun' = [Idle EXCEPT !.at = "sweep",
                           !.left = {u \in Run : "dir" \in files[u]}]
  /\ UNCHANGED <<root, reply, excused, files, bundle, aged, BeginRest>>

\* stat() of one listed directory; an old one is emptied, without its lock.
SweepKeep(u) ==
  /\ begun.at = "sweep" /\ u \in begun.left
  /\ "dir" \in files[u] /\ u \notin aged
  /\ begun' = [begun EXCEPT !.left = @ \ {u}]
  /\ UNCHANGED <<root, reply, excused, files, bundle, aged, BeginRest>>

SweepUnlink(u) ==
  /\ begun.at = "sweep" /\ u \in begun.left
  /\ "dir" \in files[u] /\ u \in aged
  /\ files' = [files EXCEPT ![u] = {"dir"}]
  /\ aged' = aged \ {u}
  /\ excused' = excused \cup {u}
  /\ begun' = [at |-> "rmdir", left |-> begun.left \ {u}, victim |-> u]
  /\ UNCHANGED <<root, reply, bundle, BeginRest>>

\* rmdir(): a receipt written meanwhile keeps the directory and fails begin.
SweepRmdir ==
  /\ begun.at = "rmdir"
  /\ \/ /\ files[begun.victim] \subseteq {"dir"}
        /\ files' = [files EXCEPT ![begun.victim] = {}]
        /\ begun' = [begun EXCEPT !.at = "sweep", !.victim = NoRun]
        /\ UNCHANGED <<root, reply, excused>>
     \/ /\ ~ files[begun.victim] \subseteq {"dir"}
        /\ EndBegin("error")
        /\ excused' = excused \cup {Head(root)}
        /\ UNCHANGED files
  /\ UNCHANGED <<bundle, aged, BeginRest>>

\* stat() of a directory that an abort removed after it was listed.
SweepMissing(u) ==
  /\ begun.at = "sweep" /\ u \in begun.left /\ "dir" \notin files[u]
  /\ EndBegin("error")
  /\ excused' = excused \cup {Head(root)}
  /\ UNCHANGED <<files, bundle, aged, BeginRest>>

Active == {u \in Run : "dir" \in files[u] /\ "receipt" \notin files[u]}
\* Mutant: the limit is one too high.
FullLate == Cardinality(Active) > MaxActive
Full == Cardinality(Active) >= MaxActive

BeginRefuse ==
  /\ begun.at = "sweep" /\ begun.left = {} /\ Full
  /\ EndBegin("error")
  /\ excused' = excused \cup {Head(root)}
  /\ UNCHANGED <<files, bundle, aged, BeginRest>>

BeginMake ==
  /\ begun.at = "sweep" /\ begun.left = {} /\ ~Full
  /\ files' = [files EXCEPT ![Head(root)] = {"dir"}]
  /\ begun' = [begun EXCEPT !.at = "fill"]
  /\ UNCHANGED <<root, reply, excused, bundle, aged, BeginRest>>

BeginFill ==
  /\ begun.at = "fill"
  /\ files' = [files EXCEPT ![Head(root)] = {"dir", "metadata", "bundle"}]
  /\ bundle' = [bundle EXCEPT ![Head(root)] = <<>>]
  /\ EndBegin("ok")
  /\ UNCHANGED <<excused, aged, BeginRest>>

\* chunk(), finish() and abort(), under the lock of their directory.
Handling(r, kind, at) ==
  queue[r] # <<>> /\ Head(queue[r]).kind = kind /\ step[r] = at

Finish(r, is, at) ==
  /\ Answer(r, Head(queue[r]), is, at)
  /\ queue' = [queue EXCEPT ![r] = Tail(@)]
  /\ step' = [step EXCEPT ![r] = "start"]

Advance(r, at) ==
  step' = [step EXCEPT ![r] = at] /\ UNCHANGED <<queue, reply>>

DirRest == <<client, calls, live, root, begun, faults>>

\* Mutant: a chunk that is stored already is written again.
ChunkStartAppends(r) ==
  /\ Handling(r, "chunk", "start")
  /\ IF {"metadata", "bundle"} \subseteq files[r] THEN Advance(r, "write")
     ELSE Finish(r, "error", 0)
  /\ UNCHANGED <<excused, files, bundle, aged, environments, DirRest>>

\* A chunk already stored is compared; the next one is written; others fail.
ChunkStart(r) ==
  LET at == Head(queue[r]).at IN
  /\ Handling(r, "chunk", "start")
  /\ IF ~ {"metadata", "bundle"} \subseteq files[r] \/ at > Len(bundle[r])
     THEN Finish(r, "error", 0)
     ELSE IF at = Len(bundle[r]) THEN Advance(r, "write")
     ELSE IF bundle[r][at + 1] = at + 1 THEN Finish(r, "ok", Len(bundle[r]))
     ELSE Finish(r, "error", 0)
  /\ UNCHANGED <<excused, files, bundle, aged, environments, DirRest>>

\* The file is open: the bytes go to it even if it was unlinked meanwhile.
ChunkWrite(r) ==
  LET at == Head(queue[r]).at IN
  /\ Handling(r, "chunk", "write")
  /\ bundle' = [bundle EXCEPT ![r] = Append(@, at + 1)]
  /\ Finish(r, "ok", at + 1)
  /\ UNCHANGED <<excused, files, aged, environments, DirRest>>

\* The size and the digest agree with the metadata of begin().
Complete(r) ==
  {"metadata", "bundle"} \subseteq files[r] /\ bundle[r] = [i \in 1..Size |-> i]

\* Mutant: the receipt is not looked at.
FinishStartAgain(r) ==
  /\ Handling(r, "finish", "start")
  /\ IF Complete(r) THEN Advance(r, "import") ELSE Finish(r, "error", 0)
  /\ UNCHANGED <<excused, files, bundle, aged, environments, DirRest>>

FinishStart(r) ==
  /\ Handling(r, "finish", "start")
  /\ IF "receipt" \in files[r] THEN Finish(r, "ok", Size)
     ELSE IF Complete(r) THEN Advance(r, "import")
     ELSE Finish(r, "error", 0)
  /\ UNCHANGED <<excused, files, bundle, aged, environments, DirRest>>

\* importBuffer() stages the bundle and renames it, once per environment
\* (exclusive(dest)); an invalid bundle or a full disk ends it before that.
Import(r) ==
  /\ Handling(r, "finish", "import")
  /\ environments' = environments \cup {EnvOf[r]}
  /\ Advance(r, "receipt")
  /\ UNCHANGED <<excused, files, bundle, aged, DirRest>>

\* Mutant: the receipt is written although the import failed.
ImportFailsSilently(r) ==
  /\ Handling(r, "finish", "import")
  /\ Advance(r, "receipt")
  /\ UNCHANGED <<excused, files, bundle, aged, environments, DirRest>>

ImportFails(r) ==
  /\ Handling(r, "finish", "import")
  /\ Finish(r, "error", 0)
  /\ excused' = excused \cup {r}
  /\ UNCHANGED <<files, bundle, aged, environments, DirRest>>

WriteReceipt(r) ==
  /\ Handling(r, "finish", "receipt")
  /\ IF "dir" \in files[r]
     THEN /\ files' = [files EXCEPT ![r] = @ \cup {"receipt"}]
          /\ aged' = aged \ {r}
          /\ Advance(r, "clean")
     ELSE Finish(r, "error", 0) /\ UNCHANGED <<files, aged>>
  /\ UNCHANGED <<excused, bundle, environments, DirRest>>

\* rm() without force: it fails when the bundle is gone.
FinishClean(r) ==
  /\ Handling(r, "finish", "clean")
  /\ files' = [files EXCEPT ![r] = @ \ {"bundle"}]
  /\ aged' = IF "bundle" \in files[r] THEN aged \ {r} ELSE aged
  /\ IF "bundle" \in files[r] THEN Finish(r, "ok", Size) ELSE Finish(r, "error", 0)
  /\ UNCHANGED <<excused, bundle, environments, DirRest>>

Abort(r) ==
  /\ Handling(r, "abort", "start")
  /\ files' = [files EXCEPT ![r] = {}]
  /\ aged' = aged \ {r}
  /\ Finish(r, "ok", 0)
  /\ UNCHANGED <<excused, bundle, environments, DirRest>>
-----------------------------------------------------------------------------
(* The environment.                                                         *)

\* 24 hours without a change to the directory; writing to a file is not one.
Age(r) ==
  /\ "dir" \in files[r] /\ r \notin aged
  /\ aged' = aged \cup {r}
  /\ Fault
  /\ UNCHANGED <<client, calls, reply, excused, live, queue, step, root, begun,
                 files, bundle, environments>>

\* The server process ends and is started again: its connections break, and
\* locks, chains and sessions were in its memory.
Restart ==
  /\ Fault
  /\ excused' = excused \cup {r \in Run : client[r].phase \notin {"new"} \cup Ended}
  /\ calls' = [r \in Run |-> {}]
  /\ reply' = [r \in Run |-> IF Waiting(r) THEN [is |-> "error", at |-> 0] ELSE NoReply]
  /\ live' = {} /\ root' = <<>> /\ begun' = Idle
  /\ queue' = [r \in Run |-> <<>>] /\ step' = [r \in Run |-> "start"]
  /\ UNCHANGED <<client, files, bundle, aged, environments>>

Script(r) == Start(r) \/ Receive(r) \/ GiveUp(r)
Begin ==
  \/ BeginList \/ SweepRmdir \/ BeginRefuse \/ BeginMake \/ BeginFill
  \/ \E u \in Run : SweepKeep(u) \/ SweepUnlink(u) \/ SweepMissing(u)
Handle(r) ==
  \/ ChunkStart(r) \/ ChunkWrite(r) \/ FinishStart(r) \/ Import(r)
  \/ ImportFails(r) \/ WriteReceipt(r) \/ FinishClean(r) \/ Abort(r)

Next ==
  \/ Begin \/ Restart
  \/ \E r \in Run : Script(r) \/ Arrive(r) \/ Handle(r) \/ Age(r)

Spec == Init /\ [][Next]_vars
-----------------------------------------------------------------------------
(* Properties.                                                              *)

\* As long as the bundle is there it is a prefix of what the script reads,
\* and holds all that the script was told is stored: a retried, delayed or
\* repeated chunk neither duplicates nor loses bytes.
AcknowledgedIsStored ==
  \A r \in Run : "bundle" \in files[r] =>
    /\ bundle[r] = [i \in 1..Len(bundle[r]) |-> i]
    /\ client[r].phase \in {"chunk", "finish"} => client[r].at <= Len(bundle[r])

\* A run fails only for a reason outside the protocol: the server restarted,
\* it was refused, its directory expired, the import failed or all the tries
\* of one call were given up.  A chunk or a finish that was applied but whose
\* answer was lost is not such a reason.
FailsForAReason == \A r \in Run : client[r].phase \in {"abort", "failed"} => r \in excused

\* At most MaxActive uploads of a project hold a bundle without a receipt,
\* although finish, abort and expiry do not take the lock of begin.
Receiving == {u \in Run : "bundle" \in files[u] /\ "receipt" \notin files[u]}
ActiveBounded == Cardinality(Receiving) <= MaxActive

\* The upload keeps the promise of ProjectImport.
Handed == {r \in Run : Len(bundle[r]) = Size}
Reported == {r \in Run : client[r].told}
Promise == INSTANCE ProjectImport
             WITH handed <- Handed, published <- environments, reported <- Reported
ImportSpec == Promise!ImportSpec
=============================================================================
