--------------------------- MODULE RuntimeBridge ---------------------------
(***************************************************************************)
(* The live-runtime bridge: the hub of src/src/runtime/hub.ts and one       *)
(* instrumented JVM (runtime-agent/.../RuntimeAgent.java) that polls it     *)
(* over loopback HTTP.  Every poll ("exchange") is a POST that carries the  *)
(* oldest unacknowledged events and all unacknowledged results; the answer  *)
(* carries an acknowledgement and at most one command.  A request may be    *)
(* lost, may be processed after the agent gave up on it, and its answer may *)
(* be lost.                                                                 *)
(*                                                                          *)
(* Time is measured by ages, not by a clock: Tick lets one unit pass, and   *)
(* age[c] and silence stop counting once nothing can tell a later value     *)
(* apart.  An event is its sequence number; the event numbered shutdownSeq  *)
(* is the jvm_shutdown event.                                               *)
(***************************************************************************)
EXTENDS Integers, Sequences, FiniteSets

CONSTANTS
  Command,       \* the commands callers may submit
  Diagnostic,    \* those the agent hands to its io executor (threads, recording, ...)
  NoCommand,     \* the answer of the hub carries no command
  BatchSize,     \* events per exchange                              (2)
  EventCap,      \* length of the agent's event deque                (256)
  ResultCap,     \* length of the agent's result deque               (20)
  InboxCap,      \* length of the agent's command queue              (16)
  ReceivedCap,   \* command ids the agent remembers                  (256)
  PendingCap,    \* commands of a session that await completion      (16)
  JournalCap,    \* events the hub keeps in memory                   (2000)
  CommandTTL,    \* deadline of a command                            (10 s)
  Grace,         \* what the caller waits beyond the deadline        (1 s)
  HeartbeatTTL,  \* silence after which a session is disconnected    (5 s)
  MaxSeq,        \* bound: events the agent raises
  MaxLosses,     \* bound: connection_lost events
  MaxOrphans     \* bound: abandoned requests still in flight

ASSUME CommandAssumption ==
  /\ Diagnostic \subseteq Command
  /\ NoCommand \notin Command
  /\ IsFiniteSet(Command)

ASSUME CapAssumption ==
  /\ {EventCap, ResultCap, InboxCap, ReceivedCap, JournalCap} \subseteq Nat \ {0}
  /\ {BatchSize, PendingCap} \subseteq Nat \ {0}

ASSUME TimeAssumption ==
  /\ {CommandTTL, HeartbeatTTL} \subseteq Nat
  /\ Grace \in Nat \ {0}

ASSUME BoundAssumption == {MaxSeq, MaxLosses, MaxOrphans} \subseteq Nat

VARIABLES
  \* the agent
  phase,         \* "up", "stopping" (shutdown hook running) or "gone"
  seqNo,         \* sequence: number of the last event raised
  events,        \* the event deque, as the set of numbers in it
  overflowed,    \* history: events the full deque dropped
  shutdownSeq,   \* number of the jvm_shutdown event, 0 before it is raised
  pump,          \* the pump of the game thread: whether one is running, the commands that
                 \* were overdue when it read its clock, the time since, up to Grace
  inbox,         \* commands: the queue the game thread drains
  ioJobs,        \* the queue of the io executor
  running,       \* accepted commands whose completion is still to come
  received,      \* ids of the commands received, oldest first
  results,       \* the result deque, as the set of commands in it
  verdict,       \* the result of each completed command, "none" before
  finished,      \* the order of completion (0: not completed)
  effects,       \* history: how often each command took effect
  \* the exchange
  exchange,      \* "idle", "sent" or "answered"
  packet,        \* what the current exchange sent
  answer,        \* what the hub answered to it
  orphans,       \* requests the agent gave up on but the hub may yet read
  \* the hub
  hub,           \* "open", "closing" or "closed"
  known,         \* the session is in sessions
  silence,       \* Date.now() - lastSeen, up to HeartbeatTTL + 1
  lastSeq, disconnected, ended,
  table,         \* s.commands: the commands that await completion
  handed,        \* those with c.sent set
  ticket,        \* the position of each command in the order of insertion
  age,           \* time since a command was submitted, up to CommandTTL + Grace
  reply,         \* what the caller of each command was told
  journal, cursor,
  recorded,      \* history: events ever added to the journal
  losses         \* number of connection_lost events (bounds the model)

agentVars == <<phase, seqNo, events, overflowed, shutdownSeq, pump>>
workVars  == <<inbox, ioJobs, running, received, results, verdict, finished, effects>>
linkVars  == <<exchange, packet, answer, orphans>>
hubVars   == <<hub, known, silence, lastSeq, disconnected, ended>>
callVars  == <<table, handed, ticket, age, reply>>
logVars   == <<journal, cursor, recorded, losses>>
vars == <<agentVars, workVars, linkVars, hubVars, callVars, logVars>>

-----------------------------------------------------------------------------
Seqs    == 1..MaxSeq
Expiry  == CommandTTL + Grace
Verdict == {"ok", "error"}
Packet  == [batch : SUBSET Seqs, done : SUBSET Command, hook : BOOLEAN]
Answer  == [ack : 0..MaxSeq, cmd : Command \cup {NoCommand}]
Pump    == [on : BOOLEAN, overdue : SUBSET Command, time : 0..Grace]
Entry   == [cursor : Nat \ {0}, kind : {"started", "lost", "restored", "agent"},
            seq : 0..MaxSeq]

NoPacket == [batch |-> {}, done |-> {}, hook |-> FALSE]
NoAnswer == [ack |-> 0, cmd |-> NoCommand]
NoPump   == [on |-> FALSE, overdue |-> {}, time |-> 0]

Least(S)     == CHOOSE x \in S : \A y \in S : x <= y
Greatest(S)  == CHOOSE x \in S : \A y \in S : x >= y
Members(s)   == {s[i] : i \in 1..Len(s)}
UpTo(n, S)   == {x \in S : x <= n}
Rank(x, S)   == Cardinality(UpTo(x, S))
\* Mutant: the newest ones.
LastOf(S)    == {x \in S : Cardinality({y \in S : y >= x}) <= BatchSize}
\* The BatchSize oldest events of the deque.
FirstOf(S)   == {x \in S : Rank(x, S) <= BatchSize}

\* Everything the agent does stops once the JVM is gone.
Alive == phase # "gone"
\* The loopback listener accepts requests until the hub has closed it.
Listening == hub # "closed"
-----------------------------------------------------------------------------
(* The agent's synchronized event() and complete().                        *)

\* event(): number the event, drop the oldest one when the deque is full.
PushEvent ==
  /\ seqNo < MaxSeq
  /\ seqNo' = seqNo + 1
  /\ LET full == Cardinality(events) >= EventCap
         drop == IF full THEN {Least(events)} ELSE {}
     IN  /\ events' = (events \ drop) \cup {seqNo + 1}
         /\ overflowed' = overflowed \cup drop

\* An action of the game thread raises an event or does not.
MayPushEvent == PushEvent \/ UNCHANGED <<seqNo, events, overflowed>>

\* The command whose result is at the front of the deque.
OldestOf(R) == CHOOSE c \in R : \A d \in R : finished[c] <= finished[d]

\* complete(c, v) on a deque that holds the results R.
Complete(c, v, R) ==
  /\ results' = (IF Cardinality(R) >= ResultCap THEN R \ {OldestOf(R)} ELSE R) \cup {c}
  /\ verdict' = [verdict EXCEPT ![c] = v]
  /\ finished' = [finished EXCEPT ![c] =
                    1 + Cardinality({d \in Command : finished[d] > 0})]

TakeEffect(c) == effects' = [effects EXCEPT ![c] = @ + 1]
-----------------------------------------------------------------------------
AgentType ==
  /\ phase \in {"up", "stopping", "gone"}
  /\ seqNo \in 0..MaxSeq
  /\ events \in SUBSET Seqs /\ overflowed \in SUBSET Seqs
  /\ shutdownSeq \in 0..MaxSeq
  /\ pump \in Pump

WorkType ==
  /\ inbox \in Seq(Command) /\ ioJobs \in Seq(Command)
  /\ running \in SUBSET Command
  /\ received \in Seq(Command)
  /\ results \in SUBSET Command
  /\ verdict \in [Command -> Verdict \cup {"none"}]
  /\ finished \in [Command -> Nat]
  /\ effects \in [Command -> Nat]

LinkType ==
  /\ exchange \in {"idle", "sent", "answered"}
  /\ packet \in Packet /\ answer \in Answer
  /\ orphans \in SUBSET Packet

HubType ==
  /\ hub \in {"open", "closing", "closed"}
  /\ known \in BOOLEAN /\ disconnected \in BOOLEAN /\ ended \in BOOLEAN
  /\ silence \in 0..(HeartbeatTTL + 1)
  /\ lastSeq \in 0..MaxSeq

CallType ==
  /\ table \in SUBSET Command /\ handed \in SUBSET Command
  /\ ticket \in [Command -> Nat]
  /\ age \in [Command -> 0..Expiry]
  /\ reply \in [Command -> {"none", "open", "refused", "ok", "error", "timeout", "closed"}]

LogType ==
  /\ journal \in SUBSET Entry
  /\ cursor \in Nat
  /\ recorded \in SUBSET Seqs
  /\ losses \in Nat

TypeOK == AgentType /\ WorkType /\ LinkType /\ HubType /\ CallType /\ LogType

\* A JVM that has just started, and a hub that has never heard of it.
Init ==
  /\ phase = "up" /\ seqNo = 0 /\ events = {} /\ overflowed = {} /\ shutdownSeq = 0
  /\ pump = NoPump
  /\ inbox = << >> /\ ioJobs = << >> /\ running = {} /\ received = << >>
  /\ results = {}
  /\ verdict = [c \in Command |-> "none"]
  /\ finished = [c \in Command |-> 0]
  /\ effects = [c \in Command |-> 0]
  /\ exchange = "idle" /\ packet = NoPacket /\ answer = NoAnswer /\ orphans = {}
  /\ hub = "open" /\ known = FALSE /\ silence = 0 /\ lastSeq = 0
  /\ disconnected = FALSE /\ ended = FALSE
  /\ table = {} /\ handed = {}
  /\ ticket = [c \in Command |-> 0]
  /\ age = [c \in Command |-> 0]
  /\ reply = [c \in Command |-> "none"]
  /\ journal = {} /\ cursor = 0 /\ recorded = {} /\ losses = 0
-----------------------------------------------------------------------------
(* The agent: events, the game thread, the io executor, shutdown.          *)

\* Any thread of the client raises an event (heap pressure, exceptions, hooks).
RaiseEvent ==
  /\ Alive
  /\ PushEvent
  /\ UNCHANGED <<phase, shutdownSeq, pump, workVars, linkVars, hubVars, callVars, logVars>>

\* Input commands in the queue, or that may get there.
Coming == ((table \ handed) \cup {answer.cmd} \cup Members(inbox)) \ (Diagnostic \cup {NoCommand})

\* SdlAdapter.pump() reads the clock, once for all the commands it will take.  A pump
\* without a command to come is left out: it has nothing to compare the clock with.
BeginPump ==
  /\ Alive /\ ~pump.on
  /\ Coming # {}
  /\ pump' = [on |-> TRUE, overdue |-> {c \in Command \ Diagnostic : age[c] > CommandTTL}, time |-> 0]
  /\ UNCHANGED <<phase, seqNo, events, overflowed, shutdownSeq, workVars, linkVars, hubVars,
                 callVars, logVars>>

\* It ends when it finds no command.
EndPump ==
  /\ Alive /\ pump.on /\ inbox = << >>
  /\ pump' = NoPump
  /\ UNCHANGED <<phase, seqNo, events, overflowed, shutdownSeq, workVars, linkVars, hubVars,
                 callVars, logVars>>

Pumping == Alive /\ pump.on /\ inbox # << >>

\* It takes a command whose deadline had passed when it read the clock.
PumpExpired ==
  /\ Pumping
  /\ Head(inbox) \in pump.overdue
  /\ inbox' = Tail(inbox)
  /\ Complete(Head(inbox), "error", results)
  /\ UNCHANGED <<agentVars, ioJobs, running, received, effects,
                 linkVars, hubVars, callVars, logVars>>

\* Mutant: input is queued before execute() throws.
PumpRejectedQueued ==
  /\ Pumping
  /\ Head(inbox) \notin pump.overdue
  /\ inbox' = Tail(inbox)
  /\ running' = running \cup {Head(inbox)}
  /\ Complete(Head(inbox), "error", results)
  /\ MayPushEvent
  /\ UNCHANGED <<phase, shutdownSeq, pump, ioJobs, received, effects,
                 linkVars, hubVars, callVars, logVars>>

\* execute() throws: interactive mode, no window, full input queue, bad argument.
PumpRejected ==
  /\ Pumping
  /\ Head(inbox) \notin pump.overdue
  /\ inbox' = Tail(inbox)
  /\ Complete(Head(inbox), "error", results)
  /\ MayPushEvent
  /\ UNCHANGED <<phase, shutdownSeq, pump, ioJobs, running, received, effects,
                 linkVars, hubVars, callVars, logVars>>

\* execute() of mode and release_all: done at once, and releaseAll() discards
\* queued input together with the completions that hang on it.
PumpControl ==
  /\ Pumping
  /\ Head(inbox) \notin pump.overdue
  /\ inbox' = Tail(inbox)
  /\ TakeEffect(Head(inbox))
  /\ Complete(Head(inbox), "ok", results)
  /\ running' \in SUBSET running
  /\ MayPushEvent
  /\ UNCHANGED <<phase, shutdownSeq, pump, ioJobs, received, linkVars, hubVars, callVars, logVars>>

\* Mutant: the deadline is not looked at again when input is queued.
PumpQueuedLate ==
  /\ Pumping
  /\ inbox' = Tail(inbox)
  /\ running' = running \cup {Head(inbox)}
  /\ MayPushEvent
  /\ UNCHANGED <<phase, shutdownSeq, pump, ioJobs, received, results, verdict, finished, effects,
                 linkVars, hubVars, callVars, logVars>>

\* execute() of input and screenshots: queued, completed when delivered.
PumpQueued ==
  /\ Pumping
  /\ Head(inbox) \notin pump.overdue
  /\ inbox' = Tail(inbox)
  /\ running' = running \cup {Head(inbox)}
  /\ MayPushEvent
  /\ UNCHANGED <<phase, shutdownSeq, pump, ioJobs, received, results, verdict, finished, effects,
                 linkVars, hubVars, callVars, logVars>>

\* Mutant: a delivery that failed is tried again.
DeliverRetrying(c) ==
  /\ Alive /\ c \in running
  /\ TakeEffect(c)
  /\ \/ running' = running \ {c} /\ Complete(c, "ok", results)
     \/ UNCHANGED <<running, results, verdict, finished>>
  /\ UNCHANGED <<agentVars, inbox, ioJobs, received, linkVars, hubVars, callVars, logVars>>

\* The game consumes a queued input event, or a screenshot is written.
Deliver(c) ==
  /\ Alive /\ c \in running
  /\ running' = running \ {c}
  /\ TakeEffect(c)
  /\ \E v \in Verdict : Complete(c, v, results)
  /\ UNCHANGED <<agentVars, inbox, ioJobs, received, linkVars, hubVars, callVars, logVars>>

\* A pump that begins finds the control lease expired: releaseAll() and an event.
LeaseExpires ==
  /\ Alive /\ ~pump.on
  /\ running' \in SUBSET running
  /\ PushEvent
  /\ UNCHANGED <<phase, shutdownSeq, pump, inbox, ioJobs, received, results, verdict, finished,
                 effects, linkVars, hubVars, callVars, logVars>>

\* diagnostic() on the single io thread; its deadline is never looked at.
RunDiagnostic ==
  /\ Alive /\ ioJobs # << >>
  /\ ioJobs' = Tail(ioJobs)
  /\ \/ TakeEffect(Head(ioJobs)) /\ \E v \in Verdict : Complete(Head(ioJobs), v, results)
     \/ UNCHANGED effects /\ Complete(Head(ioJobs), "error", results)
  /\ UNCHANGED <<agentVars, inbox, running, received, linkVars, hubVars, callVars, logVars>>

\* The JVM shuts down: its hook raises jvm_shutdown, then wants one exchange.
BeginShutdown ==
  /\ phase = "up"
  /\ PushEvent
  /\ phase' = "stopping"
  /\ shutdownSeq' = seqNo + 1
  /\ UNCHANGED <<pump, workVars, linkVars, hubVars, callVars, logVars>>

\* The JVM is killed or crashes natively.  What it sent may still be read.
Halt ==
  /\ Alive
  /\ phase' = "gone" /\ pump' = NoPump
  /\ exchange' = "idle" /\ packet' = NoPacket /\ answer' = NoAnswer
  /\ \/ exchange = "sent" /\ orphans' = orphans \cup {packet}
     \/ UNCHANGED orphans
  /\ UNCHANGED <<seqNo, events, overflowed, shutdownSeq, workVars, hubVars, callVars, logVars>>
-----------------------------------------------------------------------------
(* The exchange.                                                           *)

\* exchangeLocked(): snapshot the two deques and post them.  The telemetry
\* loop and the shutdown hook take turns under exchangeLock.
StartExchange(hook) ==
  /\ Alive /\ exchange = "idle"
  /\ hook => phase = "stopping"
  /\ exchange' = "sent"
  /\ packet' = [batch |-> FirstOf(events), done |-> results, hook |-> hook]
  /\ UNCHANGED <<agentVars, workVars, answer, orphans, hubVars, callVars, logVars>>

\* The exchange is over; after that of the shutdown hook the JVM is gone.
EndExchange ==
  /\ exchange' = "idle" /\ packet' = NoPacket /\ answer' = NoAnswer
  /\ phase' = IF packet.hook THEN "gone" ELSE phase

\* Mutant: the telemetry loop ends with the exchange that fails.
FailExchangeForGood ==
  /\ Alive /\ exchange \in {"sent", "answered"}
  /\ exchange' = "over" /\ packet' = NoPacket /\ answer' = NoAnswer
  /\ UNCHANGED <<phase, orphans>>
  /\ UNCHANGED <<seqNo, events, overflowed, shutdownSeq, pump, workVars, hubVars, callVars,
                 logVars>>

\* The agent gets no answer: no connection, a status other than 200, or the
\* one second is over.  A request that was sent may still reach the hub.
FailExchange ==
  /\ Alive /\ exchange # "idle"
  /\ EndExchange
  /\ \/ UNCHANGED orphans
     \/ /\ exchange = "sent" /\ Cardinality(orphans) < MaxOrphans
        /\ orphans' = orphans \cup {packet}
  /\ UNCHANGED <<seqNo, events, overflowed, shutdownSeq, pump, workVars, hubVars, callVars,
                 logVars>>

\* Remember an id, forgetting the oldest one beyond ReceivedCap.
Remember(c) ==
  LET longer == Append(received, c)
  IN  received' = IF Len(longer) > ReceivedCap THEN Tail(longer) ELSE longer

\* Mutant: whatever was queued is taken for acknowledged.
AcknowledgeAll == events' = {}
\* The acknowledged events leave the deque.
Acknowledge == events' = {e \in events : e > answer.ack}

\* The answer brings a command that was not received before.
New(c) == c # NoCommand /\ c \notin Members(received)

\* The answer arrives: drop what it acknowledges, pass its command on.
HandleAnswer ==
  /\ Alive /\ exchange = "answered"
  /\ EndExchange
  /\ Acknowledge
  /\ LET c    == answer.cmd
         left == results \ packet.done
     IN  \/ /\ ~New(c)
            /\ results' = left
            /\ UNCHANGED <<inbox, ioJobs, received, verdict, finished>>
         \/ /\ New(c) /\ c \in Diagnostic
            /\ Remember(c)
            /\ ioJobs' = Append(ioJobs, c)
            /\ results' = left
            /\ UNCHANGED <<inbox, verdict, finished>>
         \/ /\ New(c) /\ c \notin Diagnostic
            /\ Len(inbox) < InboxCap
            /\ Remember(c)
            /\ inbox' = Append(inbox, c)
            /\ results' = left
            /\ UNCHANGED <<ioJobs, verdict, finished>>
         \/ /\ New(c) /\ c \notin Diagnostic
            /\ Len(inbox) >= InboxCap
            /\ Remember(c)
            /\ Complete(c, "error", left)
            /\ UNCHANGED <<inbox, ioJobs>>
  /\ UNCHANGED <<seqNo, overflowed, shutdownSeq, pump, running, effects, orphans,
                 hubVars, callVars, logVars>>
-----------------------------------------------------------------------------
(* The hub.                                                                *)

\* add(): the events of kinds H (at most one), then the agent events F, get the next
\* cursors; only the newest JournalCap entries stay in memory.
Newest(J) == {x \in J : Cardinality({y \in J : y.cursor > x.cursor}) < JournalCap}

Add(H, F) ==
  LET base  == cursor + Cardinality(H)
      fresh == {[cursor |-> cursor + 1, kind |-> k, seq |-> 0] : k \in H}
                 \cup {[cursor |-> base + Rank(e, F), kind |-> "agent", seq |-> e] : e \in F}
  IN  /\ journal' = Newest(journal \cup fresh)
      /\ cursor' = base + Cardinality(F)
      /\ recorded' = recorded \cup F

\* Mutant: a session that comes back is not announced.
HeaderOfNew == IF ~known THEN {"started"} ELSE {}
\* What accept() announces before it looks at the packet's events.
Header == IF ~known THEN {"started"} ELSE IF disconnected THEN {"restored"} ELSE {}

\* Commands accept() may hand out once the results in D are settled.
Sendable(D) == {c \in table \ (D \cup handed) : age[c] < CommandTTL}

\* The first of them in the order of insertion.
NextCommand(D) ==
  IF Sendable(D) = {} THEN NoCommand
  ELSE CHOOSE c \in Sendable(D) : \A d \in Sendable(D) : ticket[c] <= ticket[d]

\* Mutant: every event of the packet.
AllEvents(p) == p.batch
\* The events of a packet the hub has not seen.
NewEvents(p) == {e \in p.batch : e > lastSeq}

\* accept(): register or refresh the session, journal new events, settle the
\* reported commands and mark the command of the answer as sent.
Accept(p) ==
  LET F == NewEvents(p)
  IN  /\ known' = TRUE /\ disconnected' = FALSE /\ silence' = 0
      /\ Add(Header, F)
      /\ lastSeq' = IF F = {} THEN lastSeq ELSE Greatest(F)
      /\ ended' = (ended \/ (shutdownSeq # 0 /\ shutdownSeq \in F))
      /\ table' = table \ p.done
      /\ reply' = [c \in Command |->
                     IF c \in table \cap p.done /\ reply[c] = "open" THEN verdict[c] ELSE reply[c]]
      /\ handed' = handed \cup ({NextCommand(p.done)} \ {NoCommand})
      /\ UNCHANGED <<hub, ticket, age, losses>>

\* The request of the current exchange is processed and answered.
AcceptCurrent ==
  /\ Listening /\ exchange = "sent"
  /\ Accept(packet)
  /\ exchange' = "answered"
  /\ answer' = [ack |-> lastSeq', cmd |-> NextCommand(packet.done)]
  /\ UNCHANGED <<agentVars, workVars, packet, orphans>>

\* A request nobody waits for any more is processed; its answer goes nowhere.
AcceptOrphan(p) ==
  /\ Listening /\ p \in orphans
  /\ Accept(p)
  /\ orphans' = orphans \ {p}
  /\ UNCHANGED <<agentVars, workVars, exchange, packet, answer>>

LoseOrphan(p) ==
  /\ p \in orphans
  /\ orphans' = orphans \ {p}
  /\ UNCHANGED <<agentVars, workVars, exchange, packet, answer, hubVars, callVars, logVars>>

Refusal == ended \/ silence > HeartbeatTTL \/ Cardinality(table) >= PendingCap

\* command(): queue it, with its deadline and the caller's timer ...
Submit(c) ==
  /\ known /\ reply[c] = "none"
  /\ ~Refusal
  /\ table' = table \cup {c}
  /\ ticket' = [ticket EXCEPT ![c] = 1 + Cardinality({d \in Command : ticket[d] > 0})]
  /\ age' = [age EXCEPT ![c] = 0]
  /\ reply' = [reply EXCEPT ![c] = "open"]
  /\ UNCHANGED <<handed, agentVars, workVars, linkVars, hubVars, logVars>>

\* Mutant: the limits are looked at after the command was queued.
RefuseQueued(c) ==
  /\ known /\ reply[c] = "none"
  /\ Refusal
  /\ table' = table \cup {c}
  /\ reply' = [reply EXCEPT ![c] = "refused"]
  /\ UNCHANGED <<handed, ticket, age, agentVars, workVars, linkVars, hubVars, logVars>>

\* ... or throw "Client disconnected; command was not queued" / "Too many commands".
Refuse(c) ==
  /\ known /\ reply[c] = "none"
  /\ Refusal
  /\ reply' = [reply EXCEPT ![c] = "refused"]
  /\ UNCHANGED <<table, handed, ticket, age, agentVars, workVars, linkVars, hubVars, logVars>>

\* Mutant: the timer ends with the hand-out.
ExpireUnsent(c) ==
  /\ c \in table \ handed /\ reply[c] = "open" /\ age[c] >= Expiry
  /\ table' = table \ {c}
  /\ reply' = [reply EXCEPT ![c] = "timeout"]
  /\ UNCHANGED <<handed, ticket, age, agentVars, workVars, linkVars, hubVars, logVars>>

\* The caller's timer: "Command timed out; execution is unknown".
Expire(c) ==
  /\ c \in table /\ reply[c] = "open" /\ age[c] >= Expiry
  /\ table' = table \ {c}
  /\ reply' = [reply EXCEPT ![c] = "timeout"]
  /\ UNCHANGED <<handed, ticket, age, agentVars, workVars, linkVars, hubVars, logVars>>

\* The one-second monitor notices a silent session.
Monitor ==
  /\ hub = "open" /\ known /\ ~ended /\ ~disconnected
  /\ silence > HeartbeatTTL
  /\ losses < MaxLosses
  /\ disconnected' = TRUE
  /\ losses' = losses + 1
  /\ Add({"lost"}, {})
  /\ UNCHANGED <<hub, known, silence, lastSeq, ended, agentVars, workVars, linkVars, callVars>>

\* close(): stop the monitor and the timers and reject what is pending; the entries
\* stay in s.commands, and the listener still answers until it is closed.
BeginClose ==
  /\ hub = "open"
  /\ hub' = "closing"
  /\ reply' = [c \in Command |-> IF c \in table /\ reply[c] = "open" THEN "closed" ELSE reply[c]]
  /\ UNCHANGED <<known, silence, lastSeq, disconnected, ended, table, handed, ticket, age,
                 agentVars, workVars, linkVars, logVars>>

EndClose ==
  /\ hub = "closing"
  /\ hub' = "closed"
  /\ orphans' = {}
  /\ UNCHANGED <<known, silence, lastSeq, disconnected, ended, exchange, packet, answer,
                 agentVars, workVars, callVars, logVars>>

\* One unit of time passes.
Tick ==
  /\ silence' = IF silence > HeartbeatTTL THEN silence ELSE silence + 1
  /\ age' = [c \in Command |->
               IF reply[c] \in {"none", "refused"} \/ age[c] >= Expiry THEN age[c] ELSE age[c] + 1]
  /\ pump' = [pump EXCEPT !.time = IF pump.on /\ pump.time < Grace THEN pump.time + 1
                                   ELSE pump.time]
  /\ UNCHANGED <<hub, known, lastSeq, disconnected, ended, table, handed, ticket, reply,
                 phase, seqNo, events, overflowed, shutdownSeq, workVars, linkVars, logVars>>
-----------------------------------------------------------------------------
Agent ==
  \/ RaiseEvent \/ BeginPump \/ EndPump \/ PumpExpired \/ PumpRejected \/ PumpControl \/ PumpQueued
  \/ \E c \in Command : Deliver(c)
  \/ LeaseExpires \/ RunDiagnostic \/ BeginShutdown \/ Halt
  \/ \E hook \in BOOLEAN : StartExchange(hook)
  \/ FailExchange \/ HandleAnswer

Hub ==
  \/ AcceptCurrent
  \/ \E p \in orphans : AcceptOrphan(p) \/ LoseOrphan(p)
  \/ \E c \in Command : Submit(c) \/ Refuse(c) \/ Expire(c)
  \/ Monitor \/ BeginClose \/ EndClose

Next == Agent \/ Hub \/ Tick

Spec == Init /\ [][Next]_vars

\* Time passes and Node runs due timers; the telemetry loop never stops polling, and
\* a loopback request and its answer do not fail for ever.
Fairness ==
  /\ WF_vars(Tick)
  /\ \A c \in Command : WF_vars(Expire(c))
  /\ WF_vars(StartExchange(FALSE))
  /\ SF_vars(AcceptCurrent)
  /\ SF_vars(HandleAnswer)

FairSpec == Spec /\ Fairness
-----------------------------------------------------------------------------
(* Correctness.                                                            *)

\* No command ever takes effect twice, whatever is lost, late or repeated:
\* "Commands have deadlines and aren't replayed automatically".
AtMostOnce == \A c \in Command : effects[c] <= 1

\* What the caller is told is true: success only after the one effect, and a command
\* that was refused never reaches the client.
TruthfulReply ==
  \A c \in Command :
    /\ reply[c] = "ok" => effects[c] = 1
    /\ reply[c] \in {"none", "refused"} => c \notin handed /\ effects[c] = 0

\* Acknowledgements never discard an event the hub has not journaled: every event
\* raised is still queued, was journaled, or was dropped by the full deque.
NoEventLost == \A e \in 1..seqNo : e \in events \cup recorded \cup overflowed

\* The journal holds the agent's events once each and in the order they were raised,
\* however requests are repeated or overtake each other.
JournalInOrder ==
  \A a, b \in journal :
    /\ a.cursor = b.cursor => a = b
    /\ (a.kind = "agent" /\ b.kind = "agent" /\ a.cursor < b.cursor) => a.seq < b.seq

\* connection_lost and connection_restored alternate in the journal and the
\* newest of them agrees with the session's state.
ConnectionEvents == {x \in journal : x.kind \in {"lost", "restored"}}
ConnectionAlternates ==
  \A a \in ConnectionEvents :
    LET later == {b \in ConnectionEvents : b.cursor > a.cursor}
    IN  IF later = {} THEN disconnected = (a.kind = "lost")
        ELSE \E b \in later : /\ \A d \in later : b.cursor <= d.cursor
                              /\ b.kind # a.kind

\* The agent's deadline falls Grace before the caller's timer: an input command whose
\* caller was told that it timed out begins only in a pump that read its clock before
\* the deadline and has been at work for all of Grace since.
InLongPump(c) == pump.on /\ pump.time >= Grace /\ c \notin pump.overdue
BeginsInTime ==
  \A c \in Command \ Diagnostic :
    (reply[c] = "timeout" /\ c \in Members(inbox) /\ ~InLongPump(c)) =>
      effects'[c] = effects[c] /\ c \notin running'
LateBeginsOnlyInLongPump == [][BeginsInTime]_vars

\* A reported jvm_shutdown closes the record: the hub has every event raised before it,
\* except those the full deque dropped, even when it came by a late request.
StopLeavesNoGap == ended => \A e \in 1..shutdownSeq : e \in recorded \cup overflowed

\* Every caller of an accepted command is eventually told something.
EveryCallAnswered == \A c \in Command : reply[c] = "open" ~> reply[c] # "open"

\* While client and hub stay up, every event reaches the journal unless the full deque
\* dropped it.
EveryEventRecorded ==
  \A e \in Seqs : e \in events ~> \/ e \in recorded \cup overflowed
                                  \/ ~Alive \/ hub # "open"

\* The bridge implements at-most-once delivery with truthful replies.
Delivery == INSTANCE CommandDelivery
DeliverySpec == Delivery!Spec
=============================================================================
