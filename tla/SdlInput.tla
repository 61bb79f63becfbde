------------------------------ MODULE SdlInput ------------------------------
(***************************************************************************)
(* Synthetic keyboard and mouse input of the modern agent, translated from  *)
(* runtime-agent/.../SdlAdapter.java.  The game thread calls poll(), which  *)
(* first runs pump() -- release what the control lease or a hold has        *)
(* outlived, then execute every queued command -- and then hands the game   *)
(* one event of the synthetic queue.  The telemetry thread refreshes        *)
(* lastConnected and offers commands at any moment, also inside a pump.     *)
(*                                                                          *)
(* A key and a mouse button behave alike and are both a Control.  Times are *)
(* what is left of them; a poll takes no time (Tick waits for its end),     *)
(* but between two polls any time may pass: a loading game does not poll.   *)
(***************************************************************************)
EXTENDS Integers, Sequences, FiniteSets

CONSTANTS
  Control,       \* the keys and mouse buttons
  NoControl,     \* the control of an event that is no press or release
  SynthCap,      \* execute() refuses input beyond this queue length     (128)
  MaxHold,       \* the longest hold                                     (10 s)
  CommandTTL,    \* the deadline of a command that arrives               (10 s)
  LeaseTTL,      \* unreachable for longer: the lease is over            (5 s)
  InboxCap,      \* the agent's command queue                            (16)
  MaxCommands    \* bound: commands the telemetry thread offers

ASSUME ControlAssumption == IsFiniteSet(Control) /\ NoControl \notin Control
ASSUME CapAssumption ==
  /\ {SynthCap, CommandTTL, LeaseTTL, MaxCommands} \subseteq Nat
  /\ {MaxHold, InboxCap} \subseteq Nat \ {0}

VARIABLES
  pc,            \* the game thread: "game", or inside poll(): "lease", "expire", "drain", "take"
  mode,          \* "interactive" or "controlled" (observe and hidden)
  synthetic,     \* the events the game has not taken yet
  down,          \* keys and buttons: what the game was told is down
  expiry,        \* what is left of each hold, Free when none is on record
  leaseExpired,
  inbox,         \* agent.commands
  gap,           \* now - agent.lastConnected, up to LeaseTTL + 1
  offered        \* number of commands offered (bounds the model)

gameVars == <<pc, mode, synthetic, down, expiry, leaseExpired>>
linkVars == <<inbox, gap, offered>>
vars == <<gameVars, linkVars>>

-----------------------------------------------------------------------------
Free == -1
Mode == {"interactive", "controlled"}

Event == [control : Control \cup {NoControl}, down : BOOLEAN]
Press(k)   == [control |-> k, down |-> TRUE]
Release(k) == [control |-> k, down |-> FALSE]
Plain      == [control |-> NoControl, down |-> FALSE]

\* What a command asks for, and what is left until its deadline.
Order ==
  [type : {"press"}, control : Control, hold : 1..MaxHold]
    \cup [type : {"release"}, control : Control]
    \cup [type : {"other", "release_all"}]
    \cup [type : {"mode"}, mode : Mode]
Command == [order : Order, left : -1..CommandTTL]

\* The ways to queue a release for every control in S (the maps have no order).
ReleaseOrders(S) ==
  {[i \in 1..Cardinality(S) |-> Release(f[i])] :
     f \in {g \in [1..Cardinality(S) -> S] : \A i, j \in 1..Cardinality(S) : g[i] = g[j] => i = j}}

\* Mutant: holds end only while the bridge answers.
ExpiredInContact == {k \in Control : expiry[k] = 0 /\ gap <= LeaseTTL}
\* The holds that are over.
Expired == {k \in Control : expiry[k] = 0}

\* The types; and the queue stays bounded, although releases are queued without looking
\* at its length.
TypeOK ==
  /\ pc \in {"game", "lease", "expire", "drain", "take"}
  /\ mode \in Mode
  /\ synthetic \in Seq(Event)
  /\ Len(synthetic) + Cardinality({k \in Control : expiry[k] # Free})
       <= SynthCap + 1 + Cardinality(Control)
  /\ down \in SUBSET Control
  /\ expiry \in [Control -> Free..MaxHold]
  /\ leaseExpired \in BOOLEAN
  /\ inbox \in Seq(Command) /\ Len(inbox) <= InboxCap
  /\ gap \in 0..(LeaseTTL + 1)
  /\ offered \in 0..MaxCommands

Init ==
  /\ pc = "game" /\ mode \in Mode
  /\ synthetic = << >> /\ down = {}
  /\ expiry = [k \in Control |-> Free]
  /\ leaseExpired = FALSE
  /\ inbox = << >> /\ gap = 0 /\ offered = 0
-----------------------------------------------------------------------------
(* releaseAll(): drop the queue and the holds, then release what the game   *)
(* holds down; more is appended by applyMode().                             *)
\* Mutant: what is queued stays queued.
ReleaseAfterQueue(more) ==
  /\ expiry' = [k \in Control |-> Free]
  /\ \E ups \in ReleaseOrders(down) : synthetic' = ups \o synthetic \o more

ReleaseAll(more) ==
  /\ expiry' = [k \in Control |-> Free]
  /\ \E ups \in ReleaseOrders(down) : synthetic' = ups \o more

\* The game's event loop enters poll().
Poll ==
  /\ pc = "game"
  /\ pc' = "lease"
  /\ UNCHANGED <<mode, synthetic, down, expiry, leaseExpired, linkVars>>

\* pump(): the lease has just run out.
PumpLeaseEnds ==
  /\ pc = "lease" /\ gap > LeaseTTL /\ ~leaseExpired
  /\ ReleaseAll(<< >>)
  /\ leaseExpired' = TRUE
  /\ pc' = "expire"
  /\ UNCHANGED <<mode, down, linkVars>>

PumpLeaseKept ==
  /\ pc = "lease" /\ (gap <= LeaseTTL \/ leaseExpired)
  /\ pc' = "expire"
  /\ UNCHANGED <<mode, synthetic, down, expiry, leaseExpired, linkVars>>

\* pump(): a contact renews the lease; the holds that are over are released.
PumpExpire ==
  /\ pc = "expire"
  /\ leaseExpired' = (leaseExpired /\ gap > LeaseTTL)
  /\ expiry' = [k \in Control |-> IF k \in Expired THEN Free ELSE expiry[k]]
  /\ \E ups \in ReleaseOrders(Expired) : synthetic' = synthetic \o ups
  /\ pc' = "drain"
  /\ UNCHANGED <<mode, down, linkVars>>

\* The command the pump is looking at.
Current == Head(inbox).order
Draining(type) ==
  /\ pc = "drain" /\ inbox # << >>
  /\ Head(inbox).left >= 0 /\ Current.type = type
  /\ inbox' = Tail(inbox)

\* execute() accepts input: a window exists, the agent is in control, the queue has room.
Accepts == mode = "controlled" /\ Len(synthetic) <= SynthCap

DrainPress ==
  /\ Draining("press") /\ Accepts
  /\ expiry' = [expiry EXCEPT ![Current.control] = Current.hold]
  /\ synthetic' = Append(synthetic, Press(Current.control))
  /\ UNCHANGED <<pc, mode, down, leaseExpired, gap, offered>>

DrainRelease ==
  /\ Draining("release") /\ Accepts
  /\ expiry' = [expiry EXCEPT ![Current.control] = Free]
  /\ synthetic' = Append(synthetic, Release(Current.control))
  /\ UNCHANGED <<pc, mode, down, leaseExpired, gap, offered>>

\* A move, a scroll or a text.
DrainOther ==
  /\ Draining("other") /\ Accepts
  /\ synthetic' = Append(synthetic, Plain)
  /\ UNCHANGED <<pc, mode, down, expiry, leaseExpired, gap, offered>>

DrainReleaseAll ==
  /\ Draining("release_all")
  /\ ReleaseAll(<< >>)
  /\ UNCHANGED <<pc, mode, down, leaseExpired, gap, offered>>

\* applyMode(): release everything, switch, and tell the game it has the focus --
\* unless a window call fails after the switch.
DrainMode ==
  /\ Draining("mode")
  /\ mode' = Current.mode
  /\ \/ ReleaseAll(<< >>)
     \/ Current.mode # "interactive" /\ ReleaseAll(<<Plain>>)
  /\ UNCHANGED <<pc, down, leaseExpired, gap, offered>>

\* The command is completed with an error: past its deadline, interactive mode, a full
\* queue, or execute() throws on its own (no window, an argument it cannot read).
DrainFails ==
  /\ pc = "drain" /\ inbox # << >>
  /\ Head(inbox).left < 0 \/ Current.type # "release_all"
  /\ inbox' = Tail(inbox)
  /\ UNCHANGED <<gameVars, gap, offered>>

DrainEnds ==
  /\ pc = "drain" /\ inbox = << >>
  /\ pc' = "take"
  /\ UNCHANGED <<mode, synthetic, down, expiry, leaseExpired, linkVars>>

\* poll() gives the game the first synthetic event, if there is one.
Take ==
  /\ pc = "take"
  /\ pc' = "game"
  /\ \/ synthetic = << >> /\ UNCHANGED <<synthetic, down>>
     \/ /\ synthetic # << >>
        /\ synthetic' = Tail(synthetic)
        /\ LET e == Head(synthetic)
           IN  down' = IF e.control = NoControl THEN down
                       ELSE IF e.down THEN down \cup {e.control}
                       ELSE down \ {e.control}
  /\ UNCHANGED <<mode, expiry, leaseExpired, linkVars>>
-----------------------------------------------------------------------------
(* The telemetry thread and time.                                          *)

\* An exchange succeeded without bringing a command.
Contact ==
  /\ gap' = 0
  /\ UNCHANGED <<gameVars, inbox, offered>>

\* Mutant: a queue without a bound.
OfferUnbounded(o) ==
  /\ offered < MaxCommands
  /\ gap' = 0
  /\ offered' = offered + 1
  /\ inbox' = Append(inbox, [order |-> o, left |-> CommandTTL])
  /\ UNCHANGED gameVars

\* An exchange brought a command: lastConnected is set, then the command is offered.
Offer(o) ==
  /\ offered < MaxCommands /\ Len(inbox) < InboxCap
  /\ gap' = 0
  /\ offered' = offered + 1
  /\ inbox' = Append(inbox, [order |-> o, left |-> CommandTTL])
  /\ UNCHANGED gameVars

Tick ==
  /\ pc = "game"
  /\ gap' = IF gap > LeaseTTL THEN gap ELSE gap + 1
  /\ expiry' = [k \in Control |-> IF expiry[k] > 0 THEN expiry[k] - 1 ELSE expiry[k]]
  /\ inbox' = [i \in 1..Len(inbox) |->
                 [inbox[i] EXCEPT !.left = IF @ < 0 THEN @ ELSE @ - 1]]
  /\ UNCHANGED <<pc, mode, synthetic, down, leaseExpired, offered>>

Game ==
  \/ Poll \/ PumpLeaseEnds \/ PumpLeaseKept \/ PumpExpire
  \/ DrainPress \/ DrainRelease \/ DrainOther \/ DrainReleaseAll \/ DrainMode
  \/ DrainFails \/ DrainEnds \/ Take

Next == Game \/ Contact \/ (\E o \in Order : Offer(o)) \/ Tick

Spec == Init /\ [][Next]_vars

\* The game's event loop keeps polling, and time passes whether it polls or not (strong,
\* because Tick waits for the end of a poll).
FairSpec == Spec /\ WF_vars(Game) /\ SF_vars(Tick)
-----------------------------------------------------------------------------
\* What the game will believe of a control once it has taken every queued event.
Pending(k) == {i \in 1..Len(synthetic) : synthetic[i].control = k}
WillBeDown(k) ==
  IF Pending(k) = {} THEN k \in down
  ELSE \E i \in Pending(k) : synthetic[i].down /\ \A j \in Pending(k) : j <= i

\* A control that is down, or will be, has a hold on record that will
\* release it, however presses, releases, cancellations and lost leases interleave.
HeldHasExpiry == \A k \in Control : WillBeDown(k) => expiry[k] # Free

\* Interactive mode gives a clean keyboard back: no press is pending and everything held
\* has its release queued.
InteractiveIsClean ==
  mode = "interactive" => \A k \in Control : ~WillBeDown(k) /\ expiry[k] = Free

\* Nothing sticks: both of these, in every state between two steps of the pump.
NothingSticks == HeldHasExpiry /\ InteractiveIsClean

\* A control that is down is released at some later time.
EventuallyReleased == \A k \in Control : k \in down ~> k \notin down
=============================================================================
