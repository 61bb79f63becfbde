---------------------------- MODULE EventJournal ----------------------------
(***************************************************************************)
(* The hub's event journal over several lives of a bridge: add(), the       *)
(* monitor's persistence, load(), close(), launch() and the readers of      *)
(* events() (src/src/runtime/hub.ts).  RuntimeBridge has the protocol       *)
(* between hub and agent; here the agent only posts what is not             *)
(* acknowledged yet, and answers may be lost.                               *)
(*                                                                          *)
(* A bridge that ends loses its memory; events.json stays.  It is replaced  *)
(* by a rename, so saving is one step.  A bridge reads the file when it     *)
(* starts and owns the cache, with what it read, when it gets bridge.lock:  *)
(* at once, at its first project, or after another bridge has ended.        *)
(***************************************************************************)
EXTENDS Integers, Sequences, FiniteSets

CONSTANTS
  BatchSize,    \* events in one packet
  JournalCap,   \* entries the hub keeps in memory (2000)
  SaveCap,      \* entries it writes to events.json (500)
  ReadCap,      \* entries one call of events() returns (100)
  MaxSeq,       \* bound: events the agent raises
  MaxEntries,   \* bound: a launch begins only below this many entries
  MaxLives,     \* bound: times a bridge starts
  MaxFaults     \* bound: crashes and writes that fail

ASSUME JournalAssumption ==
  /\ BatchSize \in Nat \ {0} /\ SaveCap \in Nat \ {0} /\ ReadCap \in Nat \ {0}
  /\ JournalCap \in Nat /\ BatchSize < JournalCap /\ SaveCap <= JournalCap
  /\ MaxSeq \in Nat /\ MaxEntries \in Nat /\ MaxLives \in Nat /\ MaxFaults \in Nat

VARIABLES
  \* the bridge process
  hub,          \* "down", "up", and in close(): "draining", "saving"
  journal,      \* what is in memory
  cursor,
  dirty,
  chain,        \* the snapshots that the promise `persistence` has still to write
  lastSeq,      \* of the session, when the hub knows it
  known,        \* the hub knows the session
  child,        \* a Gradle launch is running
  \* what outlives it
  file,         \* events.json
  copy,         \* what the bridge that will own the cache next has read of it
  acked,        \* the last event the agent has forgotten
  \* a reader that follows the journal by nextCursor
  reader,       \* "idle", "waiting" (long poll) or "woken"
  filter,       \* the session it asks for, or "all"
  after,
  \* history
  ever,         \* every entry ever added
  skipped,      \* the reader passed an entry without being told
  late,         \* an event came while close() was writing
  stale,        \* a bridge began with what was no longer in the file
  lives, faults, crashed

memVars   == <<journal, cursor, dirty, lastSeq, known, child>>
readVars  == <<reader, filter, after, skipped>>
lifeVars  == <<lives, faults, crashed>>
startVars == <<copy, stale>>
vars == <<hub, memVars, chain, file, acked, readVars, ever, late, lifeVars, startVars>>

Session == {"agent", "launch"}
Entry == [cursor : Nat, session : Session, seq : Nat]

TypeOK ==
  /\ hub \in {"down", "up", "draining", "saving"}
  /\ journal \in Seq(Entry) /\ Len(journal) <= JournalCap
  /\ file \in Seq(Entry) /\ Len(file) <= SaveCap
  /\ copy \in Seq(Entry) /\ Len(copy) <= SaveCap
  /\ chain \in Seq(Seq(Entry)) /\ \A i \in 1..Len(chain) : Len(chain[i]) <= SaveCap
  /\ cursor \in Nat /\ lastSeq \in Nat /\ acked \in Nat /\ after \in Nat
  /\ lives \in Nat /\ faults \in Nat
  /\ dirty \in BOOLEAN /\ known \in BOOLEAN /\ child \in BOOLEAN
  /\ skipped \in BOOLEAN /\ late \in BOOLEAN /\ crashed \in BOOLEAN
  /\ stale \in BOOLEAN
  /\ reader \in {"idle", "waiting", "woken"} /\ filter \in {"all", "agent"}
  /\ ever \in Seq(Entry)

Init ==
  /\ hub = "down" /\ journal = << >> /\ cursor = 0 /\ dirty = FALSE /\ chain = << >>
  /\ lastSeq = 0 /\ known = FALSE /\ child = FALSE
  /\ file = << >> /\ copy = << >>
  /\ acked = 0
  /\ reader = "idle" /\ filter \in {"all", "agent"} /\ after = 0
  /\ ever = << >> /\ skipped = FALSE /\ late = FALSE /\ stale = FALSE
  /\ lives = 0 /\ faults = 0 /\ crashed = FALSE
-----------------------------------------------------------------------------
\* The last n entries, slice(-n).
Recent(s, n) == IF Len(s) <= n THEN s ELSE SubSeq(s, Len(s) - n + 1, Len(s))

NewestCursor(s) == IF s = << >> THEN 0 ELSE s[Len(s)].cursor

\* Where in log the entries are that the reader asks for.
Wanted(log) ==
  {i \in 1..Len(log) : log[i].cursor > after /\ filter \in {"all", log[i].session}}

\* The entries of new with the next cursors.
Numbered(new) ==
  [i \in 1..Len(new) |-> [cursor |-> cursor + i, session |-> new[i].session, seq |-> new[i].seq]]

\* add(), for each of new: number it, drop the oldest of a full journal, wake the readers.
Add(new) ==
  /\ journal' = Recent(journal \o Numbered(new), JournalCap)
  /\ cursor' = cursor + Len(new)
  /\ dirty' = (dirty \/ new # << >>)
  /\ ever' = ever \o Numbered(new)
  /\ late' = (late \/ (hub = "saving" /\ new # << >>))
  /\ reader' = IF reader = "waiting" /\ Wanted(Numbered(new)) # {} THEN "woken" ELSE reader
-----------------------------------------------------------------------------
(* The agent.                                                              *)

\* accept() of a packet with the oldest events that are not acknowledged, up to number n: the
\* agent may have raised no more yet.  Its answer arrives, and the agent forgets what it
\* acknowledges, or is lost.  Requests are served until close() closes the server.
Accept(n) ==
  /\ hub # "down"
  /\ n \in acked..MaxSeq /\ n <= acked + BatchSize
  /\ LET first  == (IF acked > lastSeq THEN acked ELSE lastSeq) + 1
         events == [i \in 1..(n - first + 1) |-> [session |-> "agent", seq |-> first + i - 1]]
         opened == IF known THEN << >> ELSE <<[session |-> "agent", seq |-> 0]>>
     IN  /\ Add(opened \o events)
         /\ lastSeq' = IF n > lastSeq /\ n > acked THEN n ELSE lastSeq
         /\ acked' \in {acked, IF lastSeq' > acked THEN lastSeq' ELSE acked}
  /\ known' = TRUE
  /\ UNCHANGED <<hub, chain, child, file, filter, after, skipped, lifeVars, startVars>>
-----------------------------------------------------------------------------
(* launch().                                                               *)

Launch ==
  /\ hub # "down" /\ ~child /\ Len(ever) < MaxEntries
  /\ child' = TRUE
  /\ UNCHANGED <<hub, journal, cursor, dirty, lastSeq, known, chain, file, acked, readVars,
                 ever, late, lifeVars, startVars>>

\* Both listeners of "exit" add an event; one that could not be spawned adds none.
ChildEnds ==
  /\ child
  /\ child' = FALSE
  /\ \E spawned \in BOOLEAN :
       LET exit == [session |-> "launch", seq |-> 0]
       IN  Add(IF spawned THEN <<exit, exit>> ELSE << >>)
  /\ UNCHANGED <<hub, lastSeq, known, chain, file, acked, filter, after, skipped, lifeVars,
                 startVars>>
-----------------------------------------------------------------------------
(* Persistence.                                                            *)

\* The monitor, once a second: dirty entries are snapshot and queued for writing.
Monitor ==
  /\ hub = "up" /\ dirty
  /\ dirty' = FALSE
  /\ chain' = Append(chain, Recent(journal, SaveCap))
  /\ UNCHANGED <<hub, journal, cursor, lastSeq, known, child, file, acked, readVars, ever,
                 late, lifeVars, startVars>>

\* saveEvents() of the oldest queued snapshot.
Save ==
  /\ hub \in {"up", "draining"} /\ chain # << >>
  /\ file' = Head(chain) /\ chain' = Tail(chain)
  /\ UNCHANGED <<hub, memVars, acked, readVars, ever, late, lifeVars, startVars>>

\* Mutant: the failure is only logged.
SaveFailsQuietly ==
  /\ hub \in {"up", "draining"} /\ chain # << >> /\ faults < MaxFaults
  /\ chain' = Tail(chain)
  /\ faults' = faults + 1
  /\ UNCHANGED <<hub, memVars, file, acked, readVars, ever, late, lives, crashed, startVars>>

\* A write that fails leaves the old file, and the journal dirty again.
SaveFails ==
  /\ hub \in {"up", "draining"} /\ chain # << >> /\ faults < MaxFaults
  /\ chain' = Tail(chain)
  /\ dirty' = TRUE
  /\ faults' = faults + 1
  /\ UNCHANGED <<hub, journal, cursor, lastSeq, known, child, file, acked, readVars, ever,
                 late, lives, crashed, startVars>>
-----------------------------------------------------------------------------
(* Readers: events(after, waitMs, session).                                *)

\* Mutant: off by one.
TruncatedLate(first) == after > 0 /\ after < first - 2

\* The reader is told that entries after its cursor are gone.
Truncated(first) == after > 0 /\ after < first - 1

\* The first ReadCap of what it asks for.
Got == {i \in Wanted(journal) : Cardinality({j \in Wanted(journal) : j < i}) < ReadCap}

\* The reader's next cursor: that of the newest entry it got.
NextCursor == IF Got = {} THEN cursor ELSE journal[CHOOSE i \in Got : \A j \in Got : j <= i].cursor

\* The answer, computed without an await.  A reader at 0 asks for whatever is kept.
Return ==
  LET first == IF journal = << >> THEN 0 ELSE journal[1].cursor
      floor == IF after = 0 \/ Truncated(first) THEN first - 1 ELSE after
  IN  /\ after' = NextCursor
      /\ skipped' = (skipped \/ \E i \in 1..Len(ever) :
                       /\ floor < ever[i].cursor /\ ever[i].cursor <= NextCursor
                       /\ filter \in {"all", ever[i].session}
                       /\ \A j \in Got : journal[j] # ever[i])
      /\ reader' = "idle"
      /\ UNCHANGED filter

\* A call is answered at once when it does not wait or finds something ...
Read ==
  /\ hub # "down" /\ reader = "idle"
  /\ Return
  /\ UNCHANGED <<hub, memVars, chain, file, acked, ever, late, lifeVars, startVars>>

\* ... else it sleeps,
Wait ==
  /\ hub # "down" /\ reader = "idle" /\ Wanted(journal) = {}
  /\ reader' = "waiting"
  /\ UNCHANGED <<hub, memVars, chain, file, acked, filter, after, skipped, ever, late,
                 lifeVars, startVars>>

\* until its time is over
GiveUp ==
  /\ reader = "waiting"
  /\ reader' = "woken"
  /\ UNCHANGED <<hub, memVars, chain, file, acked, filter, after, skipped, ever, late,
                 lifeVars, startVars>>

\* or an entry woke it; its answer is computed later than it was woken.
Resume ==
  /\ reader = "woken"
  /\ Return
  /\ UNCHANGED <<hub, memVars, chain, file, acked, ever, late, lifeVars, startVars>>
-----------------------------------------------------------------------------
(* The lives of a bridge.                                                  *)

\* load(), at any time: it does not ask for bridge.lock.
Load ==
  /\ lives < MaxLives
  /\ copy' = file
  /\ UNCHANGED <<hub, memVars, chain, file, acked, readVars, ever, late, lifeVars, stale>>

\* listen() gets the lock: the bridge goes on from what it read, not from what is in the
\* file now.  Sessions are not persisted.
Listen ==
  /\ hub = "down" /\ lives < MaxLives
  /\ hub' = "up" /\ lives' = lives + 1
  /\ journal' = Recent(copy, SaveCap) /\ cursor' = NewestCursor(copy)
  /\ stale' = (stale \/ copy # file)
  /\ UNCHANGED <<dirty, lastSeq, known, child, chain, file, copy, acked, readVars, ever, late,
                 faults, crashed>>

\* The process ends: its memory, its promises and the calls it was serving are gone.
End ==
  /\ hub' = "down"
  /\ journal' = << >> /\ cursor' = 0 /\ dirty' = FALSE /\ chain' = << >>
  /\ lastSeq' = 0 /\ known' = FALSE /\ child' = FALSE
  /\ reader' = "idle"
  /\ UNCHANGED <<acked, filter, after, skipped, ever, late, lives, startVars>>

\* close(): the monitor stops, launches are forgotten, readers wake, and it awaits persistence.
BeginClose ==
  /\ hub = "up"
  /\ hub' = "draining"
  /\ child' = FALSE
  /\ reader' = IF reader = "waiting" THEN "woken" ELSE reader
  /\ UNCHANGED <<journal, cursor, dirty, lastSeq, known, chain, file, acked, filter, after,
                 skipped, ever, late, lifeVars, startVars>>

\* Mutant: nothing is written that the monitor has not queued.
CloseAsIs ==
  /\ hub = "draining" /\ chain = << >>
  /\ End
  /\ UNCHANGED <<file, faults, crashed>>

\* What is still dirty is written ...
CloseDirty ==
  /\ hub = "draining" /\ chain = << >> /\ dirty
  /\ hub' = "saving"
  /\ chain' = <<Recent(journal, SaveCap)>>
  /\ UNCHANGED <<memVars, file, acked, readVars, ever, late, lifeVars, startVars>>

\* ... or nothing is.
CloseClean ==
  /\ hub = "draining" /\ chain = << >> /\ ~dirty
  /\ End
  /\ UNCHANGED <<file, faults, crashed>>

\* dirty is cleared after the write, whatever came meanwhile; then the server is closed.
EndClose ==
  /\ hub = "saving"
  /\ file' = Head(chain)
  /\ End
  /\ UNCHANGED <<faults, crashed>>

Crash ==
  /\ hub # "down" /\ faults < MaxFaults
  /\ End
  /\ faults' = faults + 1 /\ crashed' = TRUE
  /\ UNCHANGED file
-----------------------------------------------------------------------------
Next ==
  \/ (\E n \in acked..MaxSeq : Accept(n))
  \/ Launch \/ ChildEnds
  \/ Monitor \/ Save \/ SaveFails
  \/ Read \/ Wait \/ GiveUp \/ Resume
  \/ Load \/ Listen \/ BeginClose \/ CloseDirty \/ CloseClean \/ EndClose \/ Crash

Spec == Init /\ [][Next]_vars

\* The interval fires, and a write that was started ends.
FairSpec == Spec /\ WF_vars(Monitor) /\ WF_vars(Save \/ SaveFails)
-----------------------------------------------------------------------------
\* A reader that follows nextCursor, over restarts as well, gets every entry of its session
\* or is told "truncated", unless a bridge crashed, an event was lost to close(), or a bridge
\* began with what was no longer in the file.
ReaderMissesNothing == crashed \/ late \/ stale \/ ~skipped

\* A reader does not sleep while there is an entry for it.
NoSleepingReader == reader = "waiting" => Wanted(journal) = {}

\* A reader is served, entry by entry and in time.
ReaderServed == ReaderMissesNothing /\ NoSleepingReader

\* "preserves history through bridge restart" (runtime.test.ts:155): a bridge that was closed
\* leaves the newest entries of all lives in events.json.
CloseKeepsHistory ==
  (hub = "down" /\ ~crashed /\ ~late /\ ~stale) => file = Recent(ever, SaveCap)

\* What is in the journal is in the file some day, also after writes that fail.
Unsaved == hub = "up" /\ NewestCursor(file) < cursor
EventuallySaved == Unsaved ~> ~Unsaved
=============================================================================
