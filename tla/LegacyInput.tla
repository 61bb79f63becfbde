---------------------------- MODULE LegacyInput ----------------------------
(***************************************************************************)
(* The two threads of the legacy agent and the two monitors they share,     *)
(* translated from runtime-agent/legacy/.../LegacyAgent.java and            *)
(* LegacyInput.java.  The telemetry thread runs exchange() and the game     *)
(* thread runs frame() and, on LWJGL2, override("Keyboard", "next").        *)
(* exchange(), event() and complete() take the agent's monitor; offer(),    *)
(* frame() and override() take the input's.                                 *)
(*                                                                          *)
(* On GLFW an event reaches the game's callback at once; on LWJGL2 it waits *)
(* in a queue until the game polls it.  Holds and deadlines are what is     *)
(* left of them.                                                            *)
(***************************************************************************)
EXTENDS Integers, Sequences, FiniteSets

CONSTANTS
  Key,           \* the keys (mouse buttons behave alike, in a queue of their own)
  Backend,       \* the backends a client may run on: "glfw", "lwjgl2"
  MaxHold,       \* the longest hold                        (10 s)
  CommandTTL,    \* the deadline of a command that arrives  (10 s)
  LeaseTTL,      \* unreachable for longer: the lease ends  (5 s)
  InboxCap,      \* length of the command queue             (16)
  MaxCommands    \* bound: commands that arrive

ASSUME KeyAssumption == IsFiniteSet(Key) /\ Backend \subseteq {"glfw", "lwjgl2"}
ASSUME CapAssumption ==
  /\ {CommandTTL, LeaseTTL, MaxCommands} \subseteq Nat
  /\ {MaxHold, InboxCap} \subseteq Nat \ {0}

VARIABLES
  backend,               \* what the hook names on every frame; it never changes
  agentLock, inputLock,  \* who holds the monitor: "telemetry", "game" or "none"
  telemetry,             \* "away", "posting" or "offering"
  incoming,              \* the command the telemetry thread brings
  game,                  \* "away", "lease", "expire", "drain", "announce", "finish", "delivered"
  current,               \* the command the game thread works on
  mode,                  \* "interactive" or "controlled" (observe and hidden)
  commands,              \* the command queue
  keyboard,              \* LWJGL2: the events the game has not polled
  told,                  \* the keys the game was told are down
  expiry,                \* keyExpiry: what is left of each hold, Free without one
  leaseExpired,
  gap,                   \* now - agent.lastConnected, up to LeaseTTL + 1
  arrived,               \* number of commands that arrived (bounds the model)
  completed              \* history: how many results each command got

monitorVars == <<agentLock, inputLock>>
threadVars  == <<telemetry, incoming, game, current>>
inputVars   == <<backend, mode, commands, keyboard, told, expiry, leaseExpired>>
vars == <<monitorVars, threadVars, inputVars, gap, arrived, completed>>

-----------------------------------------------------------------------------
Free == -1
Glfw == backend = "glfw"
Id   == 1..MaxCommands
Mode == {"interactive", "controlled"}

Order ==
  [type : {"press"}, key : Key, hold : 1..MaxHold]
    \cup [type : {"release"}, key : Key]
    \cup [type : {"release_all"}]
    \cup [type : {"mode"}, mode : Mode]
Command == [id : Id, order : Order, left : -1..CommandTTL]
NoCommand == [id |-> 0]

Event == [key : Key, down : BOOLEAN, id : Id \cup {0}]
KeyEvent(k, isDown, id) == [key |-> k, down |-> isDown, id |-> id]

\* The ways to queue a release for every key in S.
Releases(S) ==
  {[i \in 1..Cardinality(S) |-> KeyEvent(f[i], FALSE, 0)] :
     f \in {g \in [1..Cardinality(S) -> S] : \A i, j \in 1..Cardinality(S) : g[i] = g[j] => i = j}}

Recorded == {k \in Key : expiry[k] # Free}
\* Input is taken from the agent, and the human's is kept from the game.
Controlled == mode # "interactive" \/ (~Glfw /\ keyboard # << >>)

TypeOK ==
  /\ backend \in Backend
  /\ {agentLock, inputLock} \subseteq {"none", "telemetry", "game"}
  /\ telemetry \in {"away", "posting", "offering"}
  /\ incoming \in Command \cup {NoCommand}
  /\ game \in {"away", "lease", "expire", "drain", "announce", "finish", "delivered"}
  /\ current \in Command \cup {NoCommand} \cup [id : Id]
  /\ mode \in Mode
  /\ commands \in Seq(Command) /\ Len(commands) <= InboxCap
  /\ keyboard \in Seq(Event)
  /\ told \in SUBSET Key
  /\ expiry \in [Key -> Free..MaxHold]
  /\ leaseExpired \in BOOLEAN
  /\ gap \in 0..(LeaseTTL + 1)
  /\ arrived \in 0..MaxCommands
  /\ completed \in [Id -> Nat]

Init ==
  /\ backend \in Backend
  /\ agentLock = "none" /\ inputLock = "none"
  /\ telemetry = "away" /\ incoming = NoCommand
  /\ game = "away" /\ current = NoCommand
  /\ mode \in Mode
  /\ commands = << >> /\ keyboard = << >> /\ told = {}
  /\ expiry = [k \in Key |-> Free]
  /\ leaseExpired = FALSE /\ gap = 0 /\ arrived = 0
  /\ completed = [i \in Id |-> 0]

Complete(id) == completed' = [completed EXCEPT ![id] = @ + 1]
-----------------------------------------------------------------------------
(* The telemetry thread: exchange() holds the agent's monitor throughout.  *)

BeginExchange ==
  /\ telemetry = "away" /\ agentLock = "none"
  /\ agentLock' = "telemetry"
  /\ telemetry' = "posting"
  /\ UNCHANGED <<inputLock, incoming, game, current, inputVars, gap, arrived, completed>>

\* No answer, or one without an input command (lastConnected is set for the latter).
EndExchange ==
  /\ telemetry = "posting"
  /\ telemetry' = "away" /\ agentLock' = "none"
  /\ gap' \in {gap, 0}
  /\ UNCHANGED <<inputLock, incoming, game, current, inputVars, arrived, completed>>

\* The answer brings a command that is in time: on to input.offer().
Receive(o) ==
  /\ telemetry = "posting" /\ arrived < MaxCommands
  /\ arrived' = arrived + 1
  /\ incoming' = [id |-> arrived + 1, order |-> o, left |-> CommandTTL]
  /\ gap' = 0
  /\ telemetry' = "offering"
  /\ UNCHANGED <<monitorVars, game, current, inputVars, completed>>

\* Mutant: the full queue is noticed and the command queued all the same.
OfferPastFull ==
  /\ telemetry = "offering" /\ inputLock = "none"
  /\ commands' = Append(commands, incoming)
  /\ IF Len(commands) < InboxCap THEN UNCHANGED completed ELSE Complete(incoming.id)
  /\ incoming' = NoCommand
  /\ telemetry' = "away" /\ agentLock' = "none"
  /\ UNCHANGED <<inputLock, game, current, backend, mode, keyboard, told, expiry, leaseExpired, gap, arrived>>

\* Mutant: a full queue drops the command without a result.
OfferSilently ==
  /\ telemetry = "offering" /\ inputLock = "none"
  /\ commands' = IF Len(commands) < InboxCap THEN Append(commands, incoming) ELSE commands
  /\ incoming' = NoCommand
  /\ telemetry' = "away" /\ agentLock' = "none"
  /\ UNCHANGED <<inputLock, game, current, backend, mode, keyboard, told, expiry, leaseExpired, gap, arrived, completed>>

\* offer() needs the input's monitor, and returns with the exchange.
Offer ==
  /\ telemetry = "offering" /\ inputLock = "none"
  /\ \/ /\ Len(commands) < InboxCap
        /\ commands' = Append(commands, incoming)
        /\ UNCHANGED completed
     \/ /\ Len(commands) >= InboxCap
        /\ Complete(incoming.id)
        /\ UNCHANGED commands
  /\ incoming' = NoCommand
  /\ telemetry' = "away" /\ agentLock' = "none"
  /\ UNCHANGED <<inputLock, game, current, backend, mode, keyboard, told, expiry, leaseExpired, gap, arrived>>
-----------------------------------------------------------------------------
(* The game thread: frame() and override() hold the input's monitor.       *)

\* Mutant: the holds are forgotten instead of ended.
ForgetHolds ==
  /\ expiry' = [k \in Key |-> Free]
  /\ keyboard' = << >>
  /\ UNCHANGED told

\* releaseAll(): drop the queued events, then let every hold run out.
ReleaseAll ==
  /\ expiry' = [k \in Key |-> Free]
  /\ IF Glfw
     THEN told' = told \ Recorded /\ UNCHANGED keyboard
     ELSE keyboard' \in Releases(Recorded) /\ UNCHANGED told

BeginFrame ==
  /\ game = "away" /\ inputLock = "none"
  /\ inputLock' = "game"
  /\ \/ /\ gap > LeaseTTL /\ ~leaseExpired
        /\ ReleaseAll
        /\ leaseExpired' = TRUE
        /\ game' = "lease"
     \/ /\ gap <= LeaseTTL \/ leaseExpired
        /\ game' = "expire"
        /\ UNCHANGED <<keyboard, told, expiry, leaseExpired>>
  /\ UNCHANGED <<agentLock, telemetry, incoming, current, backend, mode, commands, gap, arrived, completed>>

\* agent.event("input_lease_expired"): needs the agent's monitor.
LeaseEvent ==
  /\ game = "lease" /\ agentLock = "none"
  /\ game' = "expire"
  /\ UNCHANGED <<monitorVars, telemetry, incoming, current, inputVars, gap, arrived, completed>>

\* A contact renews the lease; releaseExpired() ends the holds that are over.
FrameExpire ==
  /\ game = "expire"
  /\ leaseExpired' = (leaseExpired /\ gap > LeaseTTL)
  /\ LET due == {k \in Key : expiry[k] = 0}
     IN  /\ expiry' = [k \in Key |-> IF k \in due THEN Free ELSE expiry[k]]
         /\ IF Glfw
            THEN told' = told \ due /\ UNCHANGED keyboard
            ELSE \E ups \in Releases(due) : keyboard' = keyboard \o ups /\ UNCHANGED told
  /\ game' = "drain"
  /\ UNCHANGED <<monitorVars, telemetry, incoming, current, backend, mode, commands, gap, arrived, completed>>

\* frame() takes the next command; input goes on to announce itself, everything else to
\* its result: mode, release_all, a command that is late, and one execute() throws on
\* (interactive mode, input not ready, an argument it cannot use).
NextCommand ==
  /\ game = "drain" /\ commands # << >>
  /\ current' = Head(commands)
  /\ commands' = Tail(commands)
  /\ LET o == Head(commands).order
         late == Head(commands).left < 0
     IN  \/ /\ ~late /\ o.type \in {"press", "release"} /\ Controlled
            /\ game' = "announce"
            /\ UNCHANGED <<mode, keyboard, told, expiry>>
         \/ /\ late \/ o.type # "release_all"
            /\ game' = "finish"
            /\ UNCHANGED <<mode, keyboard, told, expiry>>
         \/ /\ ~late /\ o.type = "mode"
            /\ ReleaseAll
            /\ mode' = o.mode
            /\ game' = "finish"
         \/ /\ ~late /\ o.type = "release_all"
            /\ ReleaseAll
            /\ game' = "finish"
            /\ UNCHANGED mode
  /\ UNCHANGED <<monitorVars, telemetry, incoming, backend, leaseExpired, gap, arrived, completed>>

\* Mutant: input is completed when it is queued, on LWJGL2 too.
AnnounceAndFinish ==
  /\ game = "announce" /\ agentLock = "none"
  /\ LET o      == current.order
         isDown == o.type = "press"
     IN  /\ expiry' = [expiry EXCEPT ![o.key] = IF isDown THEN o.hold ELSE Free]
         /\ IF Glfw
            THEN /\ told' = IF isDown THEN told \cup {o.key} ELSE told \ {o.key}
                 /\ UNCHANGED keyboard
            ELSE /\ keyboard' = Append(keyboard, KeyEvent(o.key, isDown, current.id))
                 /\ UNCHANGED told
         /\ game' = "finish"
  /\ UNCHANGED <<monitorVars, telemetry, incoming, current, backend, mode, commands, leaseExpired, gap, arrived, completed>>

\* agent.event("input_action"), then the press or release itself.
Announce ==
  /\ game = "announce" /\ agentLock = "none"
  /\ LET o      == current.order
         isDown == o.type = "press"
     IN  /\ expiry' = [expiry EXCEPT ![o.key] = IF isDown THEN o.hold ELSE Free]
         /\ IF Glfw
            THEN /\ told' = IF isDown THEN told \cup {o.key} ELSE told \ {o.key}
                 /\ game' = "finish"
                 /\ UNCHANGED <<keyboard, current>>
            ELSE /\ keyboard' = Append(keyboard, KeyEvent(o.key, isDown, current.id))
                 /\ game' = "drain"
                 /\ current' = NoCommand
                 /\ UNCHANGED told
  /\ UNCHANGED <<monitorVars, telemetry, incoming, backend, mode, commands, leaseExpired, gap, arrived, completed>>

\* agent.complete() of the current command.
Finish ==
  /\ game = "finish" /\ agentLock = "none"
  /\ Complete(current.id)
  /\ current' = NoCommand
  /\ game' = "drain"
  /\ UNCHANGED <<monitorVars, telemetry, incoming, inputVars, gap, arrived>>

EndFrame ==
  /\ game = "drain" /\ commands = << >>
  /\ game' = "away" /\ inputLock' = "none"
  /\ UNCHANGED <<agentLock, telemetry, incoming, current, inputVars, gap, arrived, completed>>

\* LWJGL2: Keyboard.next() polls an event; delivered() needs the agent's monitor.
PollKeyboard ==
  /\ game = "away" /\ inputLock = "none" /\ keyboard # << >>
  /\ keyboard' = Tail(keyboard)
  /\ LET e == Head(keyboard)
     IN  /\ told' = IF e.down THEN told \cup {e.key} ELSE told \ {e.key}
         /\ \/ /\ e.id = 0
               /\ UNCHANGED <<game, inputLock, current>>
            \/ /\ e.id # 0
               /\ game' = "delivered" /\ inputLock' = "game"
               /\ current' = [id |-> e.id]
  /\ UNCHANGED <<agentLock, telemetry, incoming, backend, mode, commands, expiry, leaseExpired,
                 gap, arrived, completed>>

Delivered ==
  /\ game = "delivered" /\ agentLock = "none"
  /\ Complete(current.id)
  /\ current' = NoCommand
  /\ game' = "away" /\ inputLock' = "none"
  /\ UNCHANGED <<agentLock, telemetry, incoming, inputVars, gap, arrived>>
-----------------------------------------------------------------------------
Tick ==
  /\ gap' = IF gap > LeaseTTL THEN gap ELSE gap + 1
  /\ expiry' = [k \in Key |-> IF expiry[k] > 0 THEN expiry[k] - 1 ELSE expiry[k]]
  /\ commands' = [i \in 1..Len(commands) |->
                    [commands[i] EXCEPT !.left = IF @ < 0 THEN @ ELSE @ - 1]]
  /\ UNCHANGED <<monitorVars, threadVars, backend, mode, keyboard, told, leaseExpired, arrived, completed>>

Telemetry == BeginExchange \/ EndExchange \/ Offer \/ \E o \in Order : Receive(o)

Game ==
  \/ BeginFrame \/ LeaseEvent \/ FrameExpire \/ NextCommand
  \/ Announce \/ Finish \/ EndFrame \/ PollKeyboard \/ Delivered

Next == Telemetry \/ Game \/ Tick

Spec == Init /\ [][Next]_vars

\* Both threads run, an exchange ends (its two timeouts see to that), a monitor that is
\* free again and again is obtained, and time passes.
FairSpec ==
  /\ Spec
  /\ WF_vars(Tick)
  /\ SF_vars(Game)
  /\ WF_vars(EndExchange)
  /\ SF_vars(Offer)
  /\ SF_vars(EndFrame)
-----------------------------------------------------------------------------
\* No command gets two results, although it is completed by whichever thread and frame
\* happens to notice its end.
CompletedOnce == \A i \in Id : completed[i] <= 1

\* What the game will believe of a key once it has polled every queued event.
Pending(k) == {i \in 1..Len(keyboard) : keyboard[i].key = k}
WillBeDown(k) ==
  IF Pending(k) = {} THEN k \in told
  ELSE \E i \in Pending(k) : keyboard[i].down /\ \A j \in Pending(k) : j <= i

\* RUNTIME.md:148, "Held keys/buttons expire": a key that is down, or will be, still has
\* the hold that will release it.
HeldHasExpiry == \A k \in Key : WillBeDown(k) => expiry[k] # Free

\* Interactive mode gives a clean keyboard back.
InteractiveIsClean ==
  mode = "interactive" => \A k \in Key : ~WillBeDown(k) /\ expiry[k] = Free

\* Nothing sticks where the callback is called at once, whatever commands cross, fail or
\* come late.  With a queue to poll (LWJGL2) neither part holds: releaseAll() drops a
\* release that waits, and controlled() lets input in while releases wait.
GlfwNothingSticks == Glfw => HeldHasExpiry /\ InteractiveIsClean

\* A command that arrived has its result, or one of the threads is still to give it: no
\* early return leaves a caller without an answer. (On LWJGL2 release_all drops it with the
\* event that waits to be polled.)
Waiting(i) ==
  \/ incoming.id = i \/ current.id = i
  \/ \E j \in 1..Len(commands) : commands[j].id = i
GlfwNoResultLost == Glfw => \A i \in 1..arrived : completed[i] = 1 \/ Waiting(i)

\* RUNTIME.md:148, "Held keys/buttons expire within 10 seconds": they do at some time.
HeldKeyReleased == \A k \in Key : k \in told ~> k \notin told
=============================================================================
