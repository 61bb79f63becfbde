-------------------------- MODULE LegacyInputProofs --------------------------
(***************************************************************************)
(* Theorems about LegacyInput, for any keys, backends, capacities and       *)
(* deadlines: each command has one result, and on GLFW none is lost and no  *)
(* key sticks.                                                              *)
(***************************************************************************)
EXTENDS LegacyInput, SequenceTheorems, FiniteSetTheorems, TLAPS

\* The commands in a queue, and that none is in it twice.
Ids(q)  == {q[j].id : j \in 1..Len(q)} \ {0}
Once(q) == \A j, l \in 1..Len(q) : q[j].id = q[l].id /\ q[j].id # 0 => j = l

\* The commands that wait for their result, in the one place where each of them is.
OnWay == ({incoming.id, current.id} \ {0}) \cup Ids(commands) \cup Ids(keyboard)
Apart ==
  /\ Once(commands) /\ Once(keyboard) /\ Ids(commands) \cap Ids(keyboard) = {}
  /\ incoming.id \notin Ids(commands) \cup Ids(keyboard)
  /\ current.id \notin Ids(commands) \cup Ids(keyboard)
  /\ incoming.id = current.id => incoming.id = 0

\* What a thread works on fits where it is.
ThreadInv ==
  /\ incoming \in IF telemetry = "offering" THEN Command ELSE {NoCommand}
  /\ current \in IF game \in {"announce", "finish"} THEN Command
                 ELSE IF game = "delivered" THEN [id : Id] ELSE {NoCommand}
  /\ game = "announce" => current.order.type \in {"press", "release"}

\* A command on its way has no result, and nothing is known of one that never arrived.
CountInv ==
  /\ Apart
  /\ OnWay \subseteq 1..arrived
  /\ \A i \in OnWay : completed[i] = 0
  /\ \A i \in Id : completed[i] \in {0, 1} /\ (i > arrived => completed[i] = 0)

\* On GLFW no event waits, and a key that is down has a hold, unless the human has the keys.
GlfwInv ==
  Glfw =>
    /\ keyboard = << >>
    /\ told \subseteq Recorded
    /\ mode = "interactive" => Recorded = {} /\ game # "announce"
    /\ GlfwNoResultLost
-----------------------------------------------------------------------------
LEMMA Constants ==
  /\ IsFiniteSet(Key) /\ {CommandTTL, LeaseTTL, MaxCommands} \subseteq Nat
  /\ {MaxHold, InboxCap} \subseteq Nat \ {0}
  BY KeyAssumption, CapAssumption

LEMMA OrderTypes ==
  ASSUME NEW o \in Order
  PROVE  /\ o.type \in {"press", "release", "release_all", "mode"}
         /\ o.type \in {"press", "release"} => o.key \in Key
         /\ o.type = "press" => o.hold \in 1..MaxHold
         /\ o.type = "mode" => o.mode \in Mode
  BY DEF Order

LEMMA CommandTypes ==
  ASSUME NEW c \in Command
  PROVE  c.id \in Id /\ c.id # 0 /\ c.order \in Order /\ c.left \in -1..CommandTTL
  BY Constants DEF Command, Id

\* What releaseAll() and releaseExpired() queue belongs to no command.
LEMMA ReleasesTypes ==
  ASSUME NEW S \in SUBSET Key, NEW q \in Releases(S)
  PROVE  q \in Seq(Event) /\ Ids(q) = {} /\ Once(q)
<1> DEFINE n == Cardinality(S)
<1>1. n \in Nat
  BY Constants, FS_Subset, FS_CardinalityType
<1>2. PICK f \in [1..n -> S] : q = [i \in 1..n |-> KeyEvent(f[i], FALSE, 0)]
  BY DEF Releases
<1> HIDE DEF n
<1>3. \A i \in 1..n : KeyEvent(f[i], FALSE, 0) \in Event /\ KeyEvent(f[i], FALSE, 0).id = 0
  BY <1>2 DEF KeyEvent, Event
<1>4. q \in [1..n -> Event] /\ \A i \in 1..n : q[i].id = 0
  BY <1>2, <1>3
<1>5. q \in Seq(Event) /\ Len(q) = n
  BY <1>1, <1>4, SeqDef, LenProperties
<1> QED BY <1>4, <1>5 DEF Ids, Once

LEMMA AppendIds ==
  ASSUME NEW S, NEW q \in Seq(S), NEW x \in S
  PROVE  /\ Append(q, x) \in Seq(S) /\ Len(Append(q, x)) = Len(q) + 1
         /\ Ids(Append(q, x)) \subseteq Ids(q) \cup {x.id}
         /\ Once(q) /\ x.id \notin Ids(q) => Once(Append(q, x))
         /\ \A i : (\E j \in 1..Len(q) : q[j].id = i) \/ x.id = i
                     => \E j \in 1..Len(Append(q, x)) : Append(q, x)[j].id = i
<1>1. /\ Append(q, x) \in Seq(S) /\ Len(Append(q, x)) = Len(q) + 1 /\ Len(q) \in Nat
      /\ \A i \in 1..Len(q) : Append(q, x)[i] = q[i]
      /\ Append(q, x)[Len(q) + 1] = x
  BY AppendProperties
<1>2. \A j \in 1..Len(Append(q, x)) : j \in 1..Len(q) \/ j = Len(q) + 1
  BY <1>1
<1>3. \A j : j \in 1..Len(q) \/ j = Len(q) + 1 => j \in 1..Len(Append(q, x))
  BY <1>1
<1>4. Ids(Append(q, x)) \subseteq Ids(q) \cup {x.id}
  BY <1>1, <1>2 DEF Ids
<1>5. ASSUME Once(q), x.id \notin Ids(q) PROVE Once(Append(q, x))
  BY <1>1, <1>2, <1>5 DEF Once, Ids
<1>6. ASSUME NEW i, (\E j \in 1..Len(q) : q[j].id = i) \/ x.id = i
      PROVE  \E j \in 1..Len(Append(q, x)) : Append(q, x)[j].id = i
  BY <1>1, <1>3, <1>6
<1> QED BY <1>1, <1>4, <1>5, <1>6

LEMMA TailIds ==
  ASSUME NEW S, NEW q \in Seq(S), q # << >>
  PROVE  /\ Tail(q) \in Seq(S) /\ Head(q) \in S /\ Len(Tail(q)) = Len(q) - 1 /\ Len(q) \in Nat \ {0}
         /\ Ids(Tail(q)) \subseteq Ids(q) /\ Head(q).id \in Ids(q) \cup {0}
         /\ Once(q) => Once(Tail(q)) /\ Head(q).id \notin Ids(Tail(q))
         /\ \A i : (\E j \in 1..Len(q) : q[j].id = i)
                     => Head(q).id = i \/ \E j \in 1..Len(Tail(q)) : Tail(q)[j].id = i
<1>1. /\ Len(q) \in Nat \ {0} /\ Tail(q) \in Seq(S) /\ Len(Tail(q)) = Len(q) - 1
      /\ \A i \in 1..Len(Tail(q)) : Tail(q)[i] = q[i + 1]
      /\ Head(q) = q[1] /\ Head(q) \in S
  BY HeadTailProperties, EmptySeq
<1>2. \A i \in 1..Len(Tail(q)) : i + 1 \in 1..Len(q) /\ i + 1 # 1
  BY <1>1
<1>3. Ids(Tail(q)) \subseteq Ids(q) /\ Head(q).id \in Ids(q) \cup {0}
  BY <1>1, <1>2 DEF Ids
<1>4. ASSUME Once(q) PROVE Once(Tail(q)) /\ Head(q).id \notin Ids(Tail(q))
  <2>1. 1 \in 1..Len(q)
    BY <1>1
  <2>2. ASSUME NEW j \in 1..Len(Tail(q)), NEW l \in 1..Len(Tail(q)),
               Tail(q)[j].id = Tail(q)[l].id, Tail(q)[j].id # 0
        PROVE  j = l
    <3>1. j + 1 = l + 1
      BY <1>1, <1>2, <1>4, <2>2 DEF Once
    <3> QED BY <3>1
  <2>3. ASSUME NEW j \in 1..Len(Tail(q)), Tail(q)[j].id # 0 PROVE Tail(q)[j].id # Head(q).id
    BY <1>1, <1>2, <1>4, <2>1, <2>3 DEF Once
  <2> QED BY <2>2, <2>3 DEF Once, Ids
<1>5. ASSUME NEW j \in 1..Len(q), q[j].id # Head(q).id
      PROVE  \E l \in 1..Len(Tail(q)) : Tail(q)[l].id = q[j].id
  <2>1. j - 1 \in 1..Len(Tail(q)) /\ Tail(q)[j - 1] = q[j]
    BY <1>1, <1>5
  <2> QED BY <2>1
<1> QED BY <1>1, <1>3, <1>4, <1>5

LEMMA ConcatIds ==
  ASSUME NEW S, NEW q \in Seq(S), NEW p \in Seq(S), Ids(p) = {}
  PROVE  /\ q \o p \in Seq(S) /\ Ids(q \o p) \subseteq Ids(q)
         /\ Once(q) => Once(q \o p)
<1>1. /\ q \o p \in Seq(S) /\ Len(q \o p) = Len(q) + Len(p) /\ Len(q) \in Nat /\ Len(p) \in Nat
      /\ \A i \in 1..(Len(q) + Len(p)) :
           (q \o p)[i] = IF i <= Len(q) THEN q[i] ELSE p[i - Len(q)]
  BY ConcatProperties, LenProperties
<1>2. \A i \in 1..Len(p) : p[i].id = 0
  BY DEF Ids
<1>3. \A i \in 1..Len(q \o p) : (q \o p)[i].id # 0 => i \in 1..Len(q) /\ (q \o p)[i] = q[i]
  <2> SUFFICES ASSUME NEW i \in 1..Len(q \o p), ~ i \in 1..Len(q) PROVE (q \o p)[i].id = 0
    BY <1>1
  <2>1. i - Len(q) \in 1..Len(p) /\ (q \o p)[i] = p[i - Len(q)]
    BY <1>1
  <2> QED BY <1>2, <2>1
<1> QED BY <1>1, <1>3 DEF Ids, Once

LEMMA NoZero == \A q : 0 \notin Ids(q)
  BY DEF Ids

LEMMA NoIds == << >> \in Seq(Event) /\ Ids(<< >>) = {} /\ Once(<< >>)
  BY EmptySeq DEF Ids, Once
-----------------------------------------------------------------------------
(* Type correctness.                                                        *)

LEMMA InitTypes == Init => TypeOK /\ ThreadInv
<1> SUFFICES ASSUME Init PROVE TypeOK /\ ThreadInv
  OBVIOUS
<1>1. << >> \in Seq(Command) /\ << >> \in Seq(Event) /\ Len(<< >>) = 0
  BY EmptySeq
<1>2. /\ Free \in Free..MaxHold /\ 0 \in 0..(LeaseTTL + 1) /\ 0 \in 0..MaxCommands
      /\ 0 <= InboxCap /\ {} \in SUBSET Key
  BY Constants DEF Free
<1>3. expiry \in [Key -> Free..MaxHold] /\ completed \in [Id -> Nat]
  BY <1>2 DEF Init
<1>4. TypeOK
  BY <1>1, <1>2, <1>3 DEF Init, TypeOK
<1>5. ThreadInv
  BY DEF Init, ThreadInv
<1> QED BY <1>4, <1>5

LEMMA ReleaseAllTypes ==
  ASSUME TypeOK, ReleaseAll
  PROVE  /\ expiry' = [k \in Key |-> Free] /\ expiry' \in [Key -> Free..MaxHold]
         /\ keyboard' \in Seq(Event) /\ told' \subseteq told
         /\ Ids(keyboard') \subseteq Ids(keyboard) /\ (Once(keyboard) => Once(keyboard'))
         /\ Glfw => told' = told \ Recorded /\ keyboard' = keyboard
         /\ ~Glfw => keyboard' \in Releases(Recorded)
<1>1. /\ expiry' = [k \in Key |-> Free]
      /\ Glfw => told' = told \ Recorded /\ keyboard' = keyboard
      /\ ~Glfw => keyboard' \in Releases(Recorded) /\ told' = told
  BY DEF ReleaseAll
<1>2. expiry' \in [Key -> Free..MaxHold]
  BY <1>1, Constants DEF Free
<1>3. ~Glfw => keyboard' \in Seq(Event) /\ Ids(keyboard') = {} /\ Once(keyboard')
  BY <1>1, ReleasesTypes DEF Recorded
<1> QED BY <1>1, <1>2, <1>3 DEF TypeOK

LEMMA TelemetryTypes ==
  ASSUME TypeOK, ThreadInv, Telemetry
  PROVE  TypeOK' /\ ThreadInv'
<1>1. CASE BeginExchange
  BY <1>1 DEF BeginExchange, inputVars, TypeOK, ThreadInv
<1>2. CASE EndExchange
  <2>1. gap' \in 0..(LeaseTTL + 1)
    BY <1>2, Constants DEF EndExchange, TypeOK
  <2> QED BY <1>2, <2>1 DEF EndExchange, inputVars, TypeOK, ThreadInv
<1>3. ASSUME NEW o \in Order, Receive(o) PROVE TypeOK' /\ ThreadInv'
  <2>1. /\ arrived' \in 0..MaxCommands /\ arrived' \in Id /\ gap' \in 0..(LeaseTTL + 1)
        /\ CommandTTL \in -1..CommandTTL
    BY <1>3, Constants DEF Receive, TypeOK, Id
  <2>2. incoming' \in Command
    BY <1>3, <2>1 DEF Receive, Command
  <2>3. TypeOK'
    BY <1>3, <2>1, <2>2 DEF Receive, monitorVars, inputVars, TypeOK
  <2>4. ThreadInv'
    BY <1>3, <2>2 DEF Receive, ThreadInv
  <2> QED BY <2>3, <2>4
<1>4. CASE Offer
  <2>1. incoming \in Command /\ incoming.id \in Id /\ commands \in Seq(Command)
    BY <1>4, CommandTypes DEF Offer, ThreadInv, TypeOK
  <2>2. commands' \in Seq(Command) /\ Len(commands') <= InboxCap
    <3>1. Len(commands) \in Nat /\ InboxCap \in Nat /\ Len(commands) <= InboxCap
      BY <2>1, Constants, LenProperties DEF TypeOK
    <3>2. Append(commands, incoming) \in Seq(Command)
          /\ Len(Append(commands, incoming)) = Len(commands) + 1
      BY <2>1, AppendIds
    <3> QED BY <1>4, <2>1, <3>1, <3>2 DEF Offer
  <2>3. completed' \in [Id -> Nat]
    BY <1>4, <2>1 DEF Offer, Complete, TypeOK
  <2>4. TypeOK'
    BY <1>4, <2>2, <2>3 DEF Offer, TypeOK
  <2>5. ThreadInv'
    BY <1>4 DEF Offer, ThreadInv
  <2> QED BY <2>4, <2>5
<1> QED BY <1>1, <1>2, <1>3, <1>4 DEF Telemetry

\* The game thread takes the next command, or performs the current one.
LEMMA NextCommandTypes ==
  ASSUME TypeOK, ThreadInv, NextCommand
  PROVE  TypeOK' /\ ThreadInv'
<1>1. /\ commands \in Seq(Command) /\ commands # << >> /\ Head(commands) \in Command
      /\ Tail(commands) \in Seq(Command) /\ Len(Tail(commands)) = Len(commands) - 1
      /\ Len(commands) \in Nat /\ Len(commands) <= InboxCap /\ InboxCap \in Nat
      /\ Head(commands).order \in Order
  <2>1. commands \in Seq(Command) /\ Len(commands) <= InboxCap
    BY DEF TypeOK
  <2> QED BY <2>1, TailIds, CommandTypes, Constants DEF NextCommand
<1>2. current' \in Command /\ commands' \in Seq(Command) /\ Len(commands') <= InboxCap
  BY <1>1 DEF NextCommand
<1>3. /\ mode' \in Mode /\ keyboard' \in Seq(Event) /\ told' \in SUBSET Key
      /\ expiry' \in [Key -> Free..MaxHold]
  <2>1. CASE UNCHANGED <<mode, keyboard, told, expiry>>
    BY <2>1 DEF TypeOK
  <2>2. CASE ReleaseAll /\ mode' \in {mode, Head(commands).order.mode}
                        /\ (mode' # mode => Head(commands).order.type = "mode")
    BY <1>1, <2>2, ReleaseAllTypes, OrderTypes DEF TypeOK
  <2> QED BY <2>1, <2>2 DEF NextCommand
<1>4. game' \in {"announce", "finish"} /\ (game' = "announce" => current'.order.type \in {"press", "release"})
  BY DEF NextCommand
<1>5. TypeOK'
  BY <1>2, <1>3, <1>4 DEF NextCommand, monitorVars, TypeOK
<1>6. ThreadInv'
  BY <1>2, <1>4 DEF NextCommand, ThreadInv
<1> QED BY <1>5, <1>6

LEMMA AnnounceTypes ==
  ASSUME TypeOK, ThreadInv, Announce
  PROVE  TypeOK' /\ ThreadInv'
<1>1. /\ current \in Command /\ current.id \in Id /\ current.order \in Order
      /\ current.order.type \in {"press", "release"}
  BY CommandTypes DEF Announce, ThreadInv
<1>2. /\ current.order.key \in Key
      /\ current.order.type = "press" => current.order.hold \in 1..MaxHold
  BY <1>1, OrderTypes
<1> DEFINE e == KeyEvent(current.order.key, current.order.type = "press", current.id)
<1>3. e \in Event
  BY <1>1, <1>2 DEF KeyEvent, Event
<1> HIDE DEF e
<1>4. Append(keyboard, e) \in Seq(Event)
  BY <1>3, AppendProperties DEF TypeOK
<1>5. expiry' \in [Key -> Free..MaxHold]
  <2>1. Free \in Free..MaxHold /\ 1..MaxHold \subseteq Free..MaxHold
    BY Constants DEF Free
  <2> QED BY <1>2, <2>1 DEF Announce, TypeOK
<1>6. keyboard' \in Seq(Event) /\ told' \in SUBSET Key
  <2>1. /\ keyboard' = keyboard \/ keyboard' = Append(keyboard, e)
        /\ told' \in {told, told \cup {current.order.key}, told \ {current.order.key}}
    BY DEF Announce, e
  <2> QED BY <1>2, <1>4, <2>1 DEF TypeOK
<1>7. TypeOK'
  BY <1>5, <1>6 DEF Announce, monitorVars, TypeOK
<1>8. ThreadInv'
  BY <1>1 DEF Announce, ThreadInv
<1> QED BY <1>7, <1>8

LEMMA GameTypes ==
  ASSUME TypeOK, ThreadInv, Game
  PROVE  TypeOK' /\ ThreadInv'
<1>1. CASE BeginFrame
  <2>1. /\ expiry' \in [Key -> Free..MaxHold] /\ keyboard' \in Seq(Event) /\ told' \in SUBSET Key
    BY <1>1, ReleaseAllTypes DEF BeginFrame, TypeOK
  <2>2. TypeOK'
    BY <1>1, <2>1 DEF BeginFrame, TypeOK
  <2>3. ThreadInv'
    BY <1>1 DEF BeginFrame, ThreadInv
  <2> QED BY <2>2, <2>3
<1>2. CASE LeaseEvent
  BY <1>2 DEF LeaseEvent, monitorVars, inputVars, TypeOK, ThreadInv
<1>3. CASE FrameExpire
  <2> DEFINE due == {k \in Key : expiry[k] = 0}
  <2>1. expiry' \in [Key -> Free..MaxHold]
    BY <1>3, Constants DEF FrameExpire, TypeOK, Free
  <2>2. keyboard' \in Seq(Event)
    <3>1. \A ups \in Releases(due) : ups \in Seq(Event)
      BY ReleasesTypes
    <3>2. keyboard \in Seq(Event)
      BY DEF TypeOK
    <3>3. keyboard' = keyboard \/ \E ups \in Releases(due) : keyboard' = keyboard \o ups
      BY <1>3 DEF FrameExpire
    <3> QED BY <3>1, <3>2, <3>3, ConcatProperties
  <2>3. told' \in SUBSET Key /\ leaseExpired' \in BOOLEAN
    BY <1>3 DEF FrameExpire, TypeOK
  <2>4. TypeOK'
    BY <1>3, <2>1, <2>2, <2>3 DEF FrameExpire, monitorVars, TypeOK
  <2>5. ThreadInv'
    BY <1>3 DEF FrameExpire, ThreadInv
  <2> QED BY <2>4, <2>5
<1>4. CASE Finish
  <2>1. current \in Command /\ current.id \in Id
    BY <1>4, CommandTypes DEF Finish, ThreadInv
  <2>2. completed' \in [Id -> Nat]
    BY <1>4, <2>1 DEF Finish, Complete, TypeOK
  <2> QED BY <1>4, <2>2 DEF Finish, monitorVars, inputVars, TypeOK, ThreadInv
<1>5. CASE EndFrame
  BY <1>5 DEF EndFrame, inputVars, TypeOK, ThreadInv
<1>6. CASE PollKeyboard
  <2>1. Head(keyboard) \in Event /\ Tail(keyboard) \in Seq(Event)
    BY <1>6, TailIds DEF PollKeyboard, TypeOK
  <2>2. Head(keyboard).key \in Key /\ Head(keyboard).id \in Id \cup {0}
    BY <2>1 DEF Event
  <2>3. keyboard' \in Seq(Event) /\ told' \in SUBSET Key
    BY <1>6, <2>1, <2>2 DEF PollKeyboard, TypeOK
  <2>4. \/ UNCHANGED <<game, inputLock, current>>
        \/ game' = "delivered" /\ inputLock' = "game" /\ current' \in [id : Id]
    BY <1>6, <2>2 DEF PollKeyboard
  <2>5. TypeOK'
    BY <1>6, <2>3, <2>4 DEF PollKeyboard, TypeOK
  <2>6. ThreadInv'
    BY <1>6, <2>4 DEF PollKeyboard, ThreadInv
  <2> QED BY <2>5, <2>6
<1>7. CASE Delivered
  <2>1. current.id \in Id
    BY <1>7 DEF Delivered, ThreadInv
  <2>2. completed' \in [Id -> Nat]
    BY <1>7, <2>1 DEF Delivered, Complete, TypeOK
  <2> QED BY <1>7, <2>2 DEF Delivered, inputVars, TypeOK, ThreadInv
<1> QED BY <1>1, <1>2, <1>3, <1>4, <1>5, <1>6, <1>7, NextCommandTypes, AnnounceTypes DEF Game

\* Time passes in the queue of commands without moving any.
LEMMA TickTypes ==
  ASSUME TypeOK, ThreadInv, Tick
  PROVE  /\ TypeOK' /\ ThreadInv' /\ Len(commands') = Len(commands)
         /\ \A j \in 1..Len(commands) : commands'[j].id = commands[j].id
<1>1. /\ commands \in Seq(Command) /\ Len(commands) \in Nat
      /\ \A j \in 1..Len(commands) : commands[j] \in Command
  BY LenProperties, ElementOfSeq DEF TypeOK
<1> DEFINE Older(c) == [c EXCEPT !.left = IF @ < 0 THEN @ ELSE @ - 1]
<1>2. ASSUME NEW c \in Command PROVE Older(c) \in Command /\ Older(c).id = c.id
  <2>1. (IF c.left < 0 THEN c.left ELSE c.left - 1) \in -1..CommandTTL
    BY CommandTypes, Constants
  <2> QED BY <2>1 DEF Command
<1>3. commands' = [j \in 1..Len(commands) |-> Older(commands[j])]
  BY DEF Tick
<1> HIDE DEF Older
<1>4. commands' \in [1..Len(commands) -> Command]
      /\ \A j \in 1..Len(commands) : commands'[j].id = commands[j].id
  BY <1>1, <1>2, <1>3
<1>5. commands' \in Seq(Command) /\ Len(commands') = Len(commands)
  BY <1>1, <1>4, SeqDef, LenProperties
<1>6. expiry' \in [Key -> Free..MaxHold]
  BY Constants DEF Tick, TypeOK, Free
<1>7. gap' \in 0..(LeaseTTL + 1)
  BY Constants DEF Tick, TypeOK
<1>8. TypeOK'
  BY <1>5, <1>6, <1>7 DEF Tick, monitorVars, threadVars, TypeOK
<1>9. ThreadInv'
  BY DEF Tick, threadVars, ThreadInv
<1> QED BY <1>4, <1>5, <1>8, <1>9

LEMMA TypesStep == TypeOK /\ ThreadInv /\ [Next]_vars => TypeOK' /\ ThreadInv'
<1> SUFFICES ASSUME TypeOK, ThreadInv, [Next]_vars PROVE TypeOK' /\ ThreadInv'
  OBVIOUS
<1>1. CASE UNCHANGED vars
  BY <1>1 DEF vars, monitorVars, threadVars, inputVars, TypeOK, ThreadInv
<1> QED BY <1>1, TelemetryTypes, GameTypes, TickTypes DEF Next

LEMMA Types == Spec => [](TypeOK /\ ThreadInv)
  BY InitTypes, TypesStep, PTL DEF Spec

\* The state of both threads and of their queues is well-typed: no queue of commands
\* grows beyond its capacity and no hold beyond the longest.
THEOREM Typing == Spec => []TypeOK
  BY Types, PTL
-----------------------------------------------------------------------------
(* A command is in one place until it has its one result.                   *)

\* A step that only moves commands, or drops some.
LEMMA MoveStep ==
  ASSUME CountInv, UNCHANGED <<completed, arrived>>, Apart', OnWay' \subseteq OnWay
  PROVE  CountInv'
  BY DEF CountInv

\* A command that was on its way has its result, and is gone.
LEMMA ResultStep ==
  ASSUME TypeOK, CountInv, NEW c \in OnWay, Complete(c), arrived' = arrived, Apart',
         OnWay' \subseteq OnWay \ {c}
  PROVE  CountInv'
<1>1. c \in Id /\ c <= arrived /\ c \in 1..arrived /\ arrived \in Nat /\ completed[c] = 0
  BY Constants DEF CountInv, TypeOK, Id
<1>2. /\ completed'[c] = 1
      /\ \A i \in Id \ {c} : completed'[i] = completed[i]
  BY <1>1 DEF Complete, TypeOK
<1>3. OnWay \subseteq Id
  BY <1>1, Constants DEF CountInv, TypeOK, Id
<1>4. \A i \in OnWay' : completed'[i] = 0
  BY <1>2, <1>3 DEF CountInv
<1>5. ~ (c > arrived)
  BY ONLY <1>1
<1>6. \A i \in Id : completed'[i] \in {0, 1} /\ (i > arrived => completed'[i] = 0)
  BY <1>2, <1>5 DEF CountInv
<1> QED BY <1>4, <1>6 DEF CountInv

\* The threads keep what they hold; the queues keep what they have, or lose some.
LEMMA QueueStep ==
  ASSUME CountInv, UNCHANGED <<completed, arrived, incoming, current>>,
         Once(commands'), Once(keyboard'),
         Ids(commands') \subseteq Ids(commands), Ids(keyboard') \subseteq Ids(keyboard)
  PROVE  CountInv'
<1>1. Apart'
  BY DEF CountInv, Apart
<1>2. OnWay' \subseteq OnWay
  BY DEF OnWay
<1> QED BY <1>1, <1>2, MoveStep

LEMMA StillStep ==
  ASSUME CountInv, UNCHANGED <<completed, arrived, incoming, current, commands, keyboard>>
  PROVE  CountInv'
  BY QueueStep DEF CountInv, Apart

\* What the threads hold, and the queues, as the two invariants say.
LEMMA Held ==
  ASSUME TypeOK, ThreadInv, CountInv
  PROVE  /\ commands \in Seq(Command) /\ keyboard \in Seq(Event) /\ arrived \in Nat /\ Apart
         /\ telemetry # "offering" => incoming.id = 0
         /\ telemetry = "offering" => incoming \in Command /\ incoming.id \in Id /\ incoming.id # 0
         /\ game \notin {"announce", "finish", "delivered"} => current.id = 0
         /\ game \in {"announce", "finish", "delivered"} => current.id \in Id /\ current.id # 0
         /\ 0 \notin OnWay /\ NoCommand.id = 0
<1>1. 0 \notin Id
  BY DEF Id
<1>2. game = "delivered" => current.id \in Id
  BY DEF ThreadInv
<1>3. game \in {"announce", "finish"} => current.id \in Id
  BY CommandTypes DEF ThreadInv
<1>4. telemetry = "offering" => incoming \in Command /\ incoming.id \in Id
  BY CommandTypes DEF ThreadInv
<1>5. NoCommand.id = 0
  BY DEF NoCommand
<1>6. 0 \notin OnWay
  BY DEF OnWay, Ids
<1> QED BY <1>1, <1>2, <1>3, <1>4, <1>5, <1>6 DEF TypeOK, ThreadInv, CountInv

LEMMA ReceiveCount ==
  ASSUME TypeOK, ThreadInv, CountInv, NEW o \in Order, Receive(o)
  PROVE  CountInv'
<1>1. /\ arrived \in Nat /\ arrived' = arrived + 1 /\ incoming'.id = arrived + 1 /\ incoming.id = 0
      /\ UNCHANGED <<completed, current, commands, keyboard>> /\ Apart /\ 0 \notin OnWay
      /\ arrived + 1 \in Id
  BY Held, Constants DEF Receive, inputVars, Id, TypeOK
<1>2. OnWay \subseteq 1..arrived /\ arrived + 1 \notin OnWay
  BY <1>1 DEF CountInv
<1>3. OnWay' \subseteq OnWay \cup {arrived + 1}
  BY <1>1 DEF OnWay
<1>4. Apart'
  <2>1. incoming'.id \notin Ids(commands) \cup Ids(keyboard) \cup ({current.id} \ {0})
    BY <1>1, <1>2 DEF OnWay
  <2> QED BY <1>1, <2>1 DEF Apart
<1>5. \A i \in OnWay' : i \in 1..arrived'
  BY <1>1, <1>2, <1>3
<1>6. completed[arrived + 1] = 0
  BY <1>1 DEF CountInv
<1>7. \A i \in Id : i > arrived' => i > arrived
  BY <1>1 DEF Id
<1> QED BY <1>1, <1>3, <1>4, <1>5, <1>6, <1>7 DEF CountInv

LEMMA OfferCount ==
  ASSUME TypeOK, ThreadInv, CountInv, Offer
  PROVE  CountInv'
<1>1. /\ incoming \in Command /\ incoming.id # 0 /\ incoming'.id = 0 /\ Apart
      /\ UNCHANGED <<current, keyboard, arrived>> /\ commands \in Seq(Command)
  BY Held DEF Offer
<1>2. incoming.id \in OnWay /\ incoming.id \notin Ids(commands) \cup Ids(keyboard) \cup {current.id}
  BY <1>1 DEF OnWay, Apart
<1>3. CASE commands' = Append(commands, incoming) /\ UNCHANGED completed
  <2>1. Ids(commands') \subseteq Ids(commands) \cup {incoming.id} /\ Once(commands')
    BY <1>1, <1>2, <1>3, AppendIds DEF Apart
  <2>2. Apart'
    BY <1>1, <1>2, <2>1, NoZero DEF Apart
  <2>3. OnWay' \subseteq OnWay
    BY <1>1, <1>2, <2>1 DEF OnWay
  <2> QED BY <1>1, <1>3, <2>2, <2>3, MoveStep
<1>4. CASE Complete(incoming.id) /\ UNCHANGED commands
  <2>1. Apart'
    BY <1>1, <1>4, NoZero DEF Apart
  <2>2. OnWay' \subseteq OnWay \ {incoming.id}
    BY <1>1, <1>2, <1>4 DEF OnWay
  <2> QED BY <1>1, <1>2, <1>4, <2>1, <2>2, ResultStep
<1> QED BY <1>3, <1>4 DEF Offer

LEMMA NextCommandCount ==
  ASSUME TypeOK, ThreadInv, CountInv, NextCommand
  PROVE  CountInv'
<1>1. /\ commands \in Seq(Command) /\ commands # << >> /\ current.id = 0 /\ Apart
      /\ current' = Head(commands) /\ commands' = Tail(commands)
      /\ UNCHANGED <<incoming, arrived, completed>>
  BY Held DEF NextCommand
<1>2. /\ Ids(commands') \subseteq Ids(commands) /\ Once(commands') /\ current'.id \in Ids(commands) \cup {0}
      /\ current'.id \notin Ids(commands')
  BY <1>1, TailIds DEF Apart
<1>3. Ids(keyboard') \subseteq Ids(keyboard) /\ Once(keyboard')
  <2>1. UNCHANGED keyboard \/ ReleaseAll
    BY DEF NextCommand
  <2> QED BY <1>1, <2>1, ReleaseAllTypes DEF Apart
<1>4. Apart'
  BY <1>1, <1>2, <1>3, NoZero DEF Apart
<1>5. OnWay' \subseteq OnWay
  BY <1>1, <1>2, <1>3 DEF OnWay
<1> QED BY <1>1, <1>4, <1>5, MoveStep

LEMMA AnnounceCount ==
  ASSUME TypeOK, ThreadInv, CountInv, Announce
  PROVE  CountInv'
<1>1. /\ UNCHANGED <<incoming, commands, arrived, completed>> /\ Apart /\ keyboard \in Seq(Event)
      /\ current.id # 0 /\ current \in Command /\ current.order \in Order
      /\ current.order.type \in {"press", "release"}
  BY Held, CommandTypes DEF Announce, ThreadInv
<1>2. CASE UNCHANGED <<keyboard, current>>
  BY <1>1, <1>2, StillStep
<1>3. CASE current' = NoCommand /\ keyboard' = Append(keyboard,
             KeyEvent(current.order.key, current.order.type = "press", current.id))
  <2> DEFINE e == KeyEvent(current.order.key, current.order.type = "press", current.id)
  <2>1. e \in Event /\ e.id = current.id
    BY <1>1, CommandTypes, OrderTypes DEF KeyEvent, Event
  <2> HIDE DEF e
  <2>2. Ids(keyboard') \subseteq Ids(keyboard) \cup {current.id} /\ Once(keyboard')
    BY <1>1, <1>3, <2>1, AppendIds DEF Apart, e
  <2>3. current'.id = 0
    BY <1>3 DEF NoCommand
  <2>4. Apart'
    BY <1>1, <2>2, <2>3, NoZero DEF Apart
  <2>5. OnWay' \subseteq OnWay
    BY <1>1, <2>2, <2>3 DEF OnWay
  <2> QED BY <1>1, <2>4, <2>5, MoveStep
<1> QED BY <1>2, <1>3 DEF Announce

\* The agent hears of the end of the current command.
LEMMA CurrentCount ==
  ASSUME TypeOK, ThreadInv, CountInv, current.id # 0, Complete(current.id), current' = NoCommand,
         UNCHANGED <<incoming, commands, keyboard, arrived>>
  PROVE  CountInv'
<1>1. current.id \in OnWay /\ current'.id = 0 /\ Apart
  BY DEF OnWay, NoCommand, CountInv
<1>2. Apart'
  BY <1>1, NoZero DEF Apart
<1>3. OnWay' \subseteq OnWay \ {current.id}
  BY <1>1 DEF OnWay, Apart
<1> QED BY <1>1, <1>2, <1>3, ResultStep

LEMMA PollCount ==
  ASSUME TypeOK, ThreadInv, CountInv, PollKeyboard
  PROVE  CountInv'
<1>1. /\ keyboard \in Seq(Event) /\ keyboard # << >> /\ keyboard' = Tail(keyboard) /\ Apart
      /\ current.id = 0 /\ UNCHANGED <<incoming, commands, arrived, completed>>
      /\ current'.id \in {0, Head(keyboard).id}
  BY Held DEF PollKeyboard
<1>2. /\ Ids(keyboard') \subseteq Ids(keyboard) /\ Once(keyboard')
      /\ Head(keyboard).id \in Ids(keyboard) \cup {0} /\ Head(keyboard).id \notin Ids(keyboard')
  BY <1>1, TailIds DEF Apart
<1>3. Apart'
  BY <1>1, <1>2, NoZero DEF Apart
<1>4. OnWay' \subseteq OnWay
  BY <1>1, <1>2 DEF OnWay
<1> QED BY <1>1, <1>3, <1>4, MoveStep

LEMMA CountStep == TypeOK /\ ThreadInv /\ CountInv /\ [Next]_vars => CountInv'
<1> SUFFICES ASSUME TypeOK, ThreadInv, CountInv, [Next]_vars PROVE CountInv'
  OBVIOUS
<1>1. CASE BeginExchange \/ EndExchange \/ LeaseEvent \/ EndFrame \/ UNCHANGED vars
  <2>1. UNCHANGED <<completed, arrived, incoming, current, commands, keyboard>>
    BY <1>1 DEF BeginExchange, EndExchange, LeaseEvent, EndFrame, vars, monitorVars, threadVars, inputVars
  <2> QED BY <2>1, StillStep
<1>2. CASE BeginFrame
  <2>1. UNCHANGED <<completed, arrived, incoming, current, commands>> /\ (UNCHANGED keyboard \/ ReleaseAll)
    BY <1>2 DEF BeginFrame
  <2> QED BY <2>1, ReleaseAllTypes, QueueStep DEF CountInv, Apart
<1>3. CASE FrameExpire
  <2> DEFINE due == {k \in Key : expiry[k] = 0}
  <2>1. /\ UNCHANGED <<completed, arrived, incoming, current, commands>>
        /\ keyboard' = keyboard \/ \E ups \in Releases(due) : keyboard' = keyboard \o ups
    BY <1>3 DEF FrameExpire
  <2>2. \A ups \in Releases(due) : ups \in Seq(Event) /\ Ids(ups) = {}
    BY ReleasesTypes
  <2>3. Ids(keyboard') \subseteq Ids(keyboard) /\ Once(keyboard')
    <3>1. keyboard \in Seq(Event) /\ Once(keyboard)
      BY DEF TypeOK, CountInv, Apart
    <3>2. CASE keyboard' = keyboard
      BY <3>1, <3>2
    <3>3. ASSUME NEW ups \in Releases(due), keyboard' = keyboard \o ups
          PROVE  Ids(keyboard') \subseteq Ids(keyboard) /\ Once(keyboard')
      BY ONLY <2>2, <3>1, <3>3, ConcatIds
    <3> QED BY <2>1, <3>2, <3>3
  <2> QED BY <2>1, <2>3, QueueStep DEF CountInv, Apart
<1>4. CASE Finish \/ Delivered
  <2>1. /\ Complete(current.id) /\ current' = NoCommand /\ current.id # 0
        /\ UNCHANGED <<incoming, commands, keyboard, arrived>>
    BY <1>4, Held DEF Finish, Delivered, inputVars
  <2> QED BY <2>1, CurrentCount
<1>5. CASE Tick
  <2>1. Len(commands') = Len(commands) /\ \A j \in 1..Len(commands) : commands'[j].id = commands[j].id
    BY <1>5, TickTypes
  <2>2. Ids(commands') = Ids(commands) /\ (Once(commands) => Once(commands'))
    BY <2>1 DEF Ids, Once
  <2>3. UNCHANGED <<completed, arrived, incoming, current, keyboard>>
    BY <1>5 DEF Tick, threadVars
  <2> QED BY <2>2, <2>3, QueueStep DEF CountInv, Apart
<1> QED BY <1>1, <1>2, <1>3, <1>4, <1>5, ReceiveCount, OfferCount, NextCommandCount, AnnounceCount,
           PollCount DEF Next, Telemetry, Game

LEMMA InitCount == Init => CountInv
<1> SUFFICES ASSUME Init PROVE CountInv
  OBVIOUS
<1>1. OnWay = {} /\ Apart
  BY NoIds DEF Init, NoCommand, OnWay, Apart
<1>2. \A i \in Id : completed[i] = 0
  BY DEF Init
<1> QED BY <1>1, <1>2 DEF CountInv

LEMMA Counts == Spec => []CountInv
  BY InitCount, CountStep, Types, PTL DEF Spec

\* No command gets two results, although offer(), frame() and delivered() complete commands
\* in two threads, under two monitors.
THEOREM OneResult == Spec => []CompletedOnce
<1>1. CountInv => CompletedOnce
  BY DEF CountInv, CompletedOnce
<1> QED BY <1>1, Counts, PTL
-----------------------------------------------------------------------------
(* GLFW: the game's callback is called at once.                             *)

LEMMA SameBackend == [Next]_vars => Glfw' = Glfw
<1> SUFFICES ASSUME [Next]_vars PROVE backend' = backend
  BY DEF Glfw
<1>1. CASE Telemetry
  BY <1>1 DEF Telemetry, BeginExchange, EndExchange, Receive, Offer, inputVars
<1>2. CASE Game
  BY <1>2 DEF Game, BeginFrame, LeaseEvent, FrameExpire, NextCommand, Announce, Finish, EndFrame,
              PollKeyboard, Delivered, inputVars
<1> QED BY <1>1, <1>2 DEF Next, Tick, vars, inputVars

\* releaseAll() leaves nothing behind.
LEMMA Released ==
  ASSUME TypeOK, GlfwInv, Glfw, ReleaseAll
  PROVE  keyboard' = << >> /\ told' = {} /\ Recorded' = {}
<1>1. told \subseteq Recorded /\ keyboard = << >>
  BY DEF GlfwInv
<1>2. told' = told \ Recorded /\ keyboard' = keyboard /\ expiry' = [k \in Key |-> Free]
  BY DEF ReleaseAll
<1>3. Recorded' = {}
  BY <1>2 DEF Recorded
<1> QED BY <1>1, <1>2, <1>3

LEMMA HoldsStep ==
  ASSUME TypeOK, ThreadInv, GlfwInv, [Next]_vars, Glfw
  PROVE  /\ keyboard' = << >> /\ told' \subseteq Recorded'
         /\ mode' = "interactive" => Recorded' = {} /\ game' # "announce"
<1>1. /\ keyboard = << >> /\ told \subseteq Recorded
      /\ mode = "interactive" => Recorded = {} /\ game # "announce"
  BY DEF GlfwInv
<1>2. CASE \/ Telemetry \/ LeaseEvent \/ Finish \/ EndFrame \/ Delivered \/ UNCHANGED vars
  <2>1. UNCHANGED <<mode, keyboard, told, expiry>> /\ (game' = game \/ game' # "announce")
    <3>1. CASE Telemetry
      BY <3>1 DEF Telemetry, BeginExchange, EndExchange, Receive, Offer, inputVars
    <3> QED BY <1>2, <3>1 DEF LeaseEvent, Finish, EndFrame, Delivered, inputVars, vars, threadVars
  <2> QED BY <1>1, <2>1 DEF Recorded
<1>3. CASE BeginFrame
  <2>1. /\ mode' = mode /\ game' # "announce"
        /\ ReleaseAll \/ UNCHANGED <<keyboard, told, expiry>>
    BY <1>3 DEF BeginFrame
  <2>2. CASE ReleaseAll
    BY <2>1, <2>2, Released
  <2>3. CASE UNCHANGED <<keyboard, told, expiry>>
    BY <1>1, <2>1, <2>3 DEF Recorded
  <2> QED BY <2>1, <2>2, <2>3
<1>4. CASE FrameExpire
  <2> DEFINE due == {k \in Key : expiry[k] = 0}
  <2>1. /\ mode' = mode /\ game' # "announce" /\ keyboard' = keyboard /\ told' = told \ due
        /\ expiry' = [k \in Key |-> IF k \in due THEN Free ELSE expiry[k]]
    BY <1>4 DEF FrameExpire
  <2>2. Recorded' = Recorded \ due
    BY <2>1 DEF Recorded
  <2> HIDE DEF due
  <2> QED BY <1>1, <2>1, <2>2
<1>5. CASE NextCommand
  <2>1. CASE ReleaseAll /\ game' = "finish"
    BY <2>1, Released
  <2>2. CASE UNCHANGED <<mode, keyboard, told, expiry>> /\ (game' = "announce" => Controlled)
    <3>1. Controlled => mode # "interactive"
      BY DEF Controlled
    <3> QED BY <1>1, <2>2, <3>1 DEF Recorded
  <2> QED BY <1>5, <2>1, <2>2 DEF NextCommand
<1>6. CASE Announce
  <2>1. /\ current.order \in Order /\ current.order.type \in {"press", "release"}
        /\ mode' = mode /\ mode # "interactive" /\ keyboard' = keyboard
    BY <1>1, <1>6, CommandTypes DEF Announce, ThreadInv
  <2>2. PICK k \in Key : k = current.order.key
    BY <2>1, OrderTypes
  <2>3. CASE current.order.type = "press"
    <3>1. expiry' = [expiry EXCEPT ![k] = current.order.hold] /\ told' = told \cup {k}
      BY <1>6, <2>2, <2>3 DEF Announce
    <3>2. current.order.hold # Free
      <4>1. current.order.hold \in 1..MaxHold
        BY <2>1, <2>3, OrderTypes
      <4> QED BY <4>1, Constants DEF Free
    <3>3. Recorded' = Recorded \cup {k}
      BY <3>1, <3>2 DEF Recorded, TypeOK
    <3> QED BY <1>1, <2>1, <3>1, <3>3
  <2>4. CASE current.order.type = "release"
    <3>1. expiry' = [expiry EXCEPT ![k] = Free] /\ told' = told \ {k}
      BY <1>6, <2>2, <2>4 DEF Announce
    <3>2. Recorded' = Recorded \ {k}
      BY <3>1 DEF Recorded, TypeOK
    <3> QED BY <1>1, <2>1, <3>1, <3>2
  <2> QED BY <2>1, <2>3, <2>4
<1>7. CASE PollKeyboard
  BY <1>1, <1>7 DEF PollKeyboard
<1>8. CASE Tick
  <2>1. /\ UNCHANGED <<mode, keyboard, told, game>>
        /\ expiry' = [k \in Key |-> IF expiry[k] > 0 THEN expiry[k] - 1 ELSE expiry[k]]
    BY <1>8 DEF Tick, threadVars
  <2>2. ASSUME NEW k \in Key PROVE expiry'[k] = Free <=> expiry[k] = Free
    <3>1. expiry[k] \in Free..MaxHold
      BY DEF TypeOK
    <3> QED BY <2>1, <3>1, Constants DEF Free
  <2>3. Recorded' = Recorded
    BY <2>2 DEF Recorded
  <2> QED BY <1>1, <2>1, <2>3
<1> QED BY <1>2, <1>3, <1>4, <1>5, <1>6, <1>7, <1>8 DEF Next, Game

\* A command that has a result keeps it; one that has none goes from thread to queue to thread.
LEMMA ResultsStep ==
  ASSUME TypeOK, ThreadInv, CountInv, GlfwInv, [Next]_vars, Glfw
  PROVE  \A i \in 1..arrived' : completed'[i] = 1 \/ Waiting(i)'
<1> DEFINE Known(i) == completed[i] = 1 \/ Waiting(i)
<1>1. /\ \A i \in 1..arrived : Known(i)
      /\ keyboard = << >> /\ arrived \in Nat /\ 1..arrived \subseteq Id
  BY Constants DEF GlfwInv, GlfwNoResultLost, TypeOK, Id
<1>2. CASE UNCHANGED <<completed, arrived, incoming, current, commands>>
  BY <1>1, <1>2 DEF Waiting
<1>3. ASSUME NEW o \in Order, Receive(o) PROVE \A i \in 1..arrived' : Known(i)'
  <2>1. /\ arrived' = arrived + 1 /\ incoming'.id = arrived + 1 /\ incoming.id = 0
        /\ UNCHANGED <<completed, current, commands>>
    BY <1>3, Held DEF Receive, inputVars
  <2>2. ASSUME NEW i \in 1..arrived' PROVE Known(i)'
    <3>1. CASE i = arrived + 1
      BY <2>1, <3>1 DEF Waiting
    <3>2. CASE i # arrived + 1
      <4>1. i \in 1..arrived /\ i # 0
        BY <1>1, <2>1, <3>2
      <4> QED BY <1>1, <2>1, <4>1 DEF Waiting
    <3> QED BY <3>1, <3>2
  <2> QED BY <2>2
<1>4. CASE Offer
  <2>1. /\ incoming \in Command /\ incoming.id \in OnWay /\ incoming.id \in Id
        /\ UNCHANGED <<current, arrived>> /\ commands \in Seq(Command)
    BY <1>4, Held DEF Offer, OnWay
  <2>2. CASE commands' = Append(commands, incoming) /\ UNCHANGED completed
    <3>1. \A i : (\E j \in 1..Len(commands) : commands[j].id = i) \/ incoming.id = i
                   => \E j \in 1..Len(commands') : commands'[j].id = i
      BY <2>1, <2>2, AppendIds
    <3> QED BY <1>1, <2>1, <2>2, <3>1 DEF Waiting
  <2>3. CASE Complete(incoming.id) /\ UNCHANGED commands
    <3>1. completed[incoming.id] = 0
      BY <2>1 DEF CountInv
    <3>2. completed'[incoming.id] = 1 /\ \A i \in Id \ {incoming.id} : completed'[i] = completed[i]
      BY <2>1, <2>3, <3>1 DEF Complete, TypeOK
    <3> QED BY <1>1, <2>1, <2>3, <3>2 DEF Waiting
  <2> QED BY <1>4, <2>2, <2>3 DEF Offer
<1>5. CASE NextCommand
  <2>1. /\ commands \in Seq(Command) /\ commands # << >> /\ current.id = 0
        /\ current' = Head(commands) /\ commands' = Tail(commands)
        /\ UNCHANGED <<incoming, arrived, completed>>
    BY <1>5, Held DEF NextCommand
  <2>2. \A i : (\E j \in 1..Len(commands) : commands[j].id = i)
                 => current'.id = i \/ \E j \in 1..Len(commands') : commands'[j].id = i
    <3>1. \A i : (\E j \in 1..Len(commands) : commands[j].id = i)
                   => \/ Head(commands).id = i
                      \/ \E j \in 1..Len(Tail(commands)) : Tail(commands)[j].id = i
      <4>1. commands \in Seq(Command) /\ commands # << >>
        BY <2>1
      <4> QED BY ONLY <4>1, TailIds
    <3> QED BY ONLY <2>1, <3>1
  <2>3. \A i \in 1..arrived : i # 0
    OBVIOUS
  <2>4. ASSUME NEW i \in 1..arrived', Waiting(i) PROVE Waiting(i)'
    <3>1. incoming.id = i \/ \E j \in 1..Len(commands) : commands[j].id = i
      BY <2>1, <2>3, <2>4 DEF Waiting
    <3>2. incoming' = incoming
      BY <2>1
    <3> QED BY ONLY <2>2, <3>1, <3>2 DEF Waiting
  <2> QED BY <1>1, <2>1, <2>4
<1>6. CASE Finish \/ Delivered
  <2>1. /\ Complete(current.id) /\ current.id \in Id /\ current.id \in OnWay
        /\ UNCHANGED <<incoming, commands, arrived>>
    BY <1>6, Held DEF Finish, Delivered, inputVars, OnWay
  <2>2. completed[current.id] = 0
    BY <2>1 DEF CountInv
  <2>3. completed'[current.id] = 1 /\ \A i \in Id \ {current.id} : completed'[i] = completed[i]
    BY <2>1, <2>2 DEF Complete, TypeOK
  <2> QED BY <1>1, <2>1, <2>3 DEF Waiting
<1>7. CASE Tick
  <2>1. /\ Len(commands') = Len(commands) /\ \A j \in 1..Len(commands) : commands'[j].id = commands[j].id
        /\ UNCHANGED <<completed, arrived, incoming, current>>
    BY <1>7, TickTypes DEF Tick, threadVars
  <2> QED BY <1>1, <2>1 DEF Waiting
<1>8. CASE BeginExchange \/ EndExchange \/ BeginFrame \/ LeaseEvent \/ FrameExpire \/ Announce
           \/ EndFrame \/ UNCHANGED vars
  <2>1. UNCHANGED <<completed, arrived, incoming, current, commands>>
    BY <1>8 DEF BeginExchange, EndExchange, BeginFrame, LeaseEvent, FrameExpire, Announce, EndFrame,
                vars, monitorVars, threadVars, inputVars
  <2> QED BY <1>2, <2>1
<1>9. CASE PollKeyboard
  BY <1>1, <1>9 DEF PollKeyboard
<1> QED BY <1>3, <1>4, <1>5, <1>6, <1>7, <1>8, <1>9 DEF Next, Telemetry, Game

LEMMA GlfwStep == TypeOK /\ ThreadInv /\ CountInv /\ GlfwInv /\ [Next]_vars => GlfwInv'
<1> SUFFICES ASSUME TypeOK, ThreadInv, CountInv, GlfwInv, [Next]_vars, Glfw'
             PROVE  /\ keyboard' = << >> /\ told' \subseteq Recorded'
                    /\ mode' = "interactive" => Recorded' = {} /\ game' # "announce"
                    /\ \A i \in 1..arrived' : completed'[i] = 1 \/ Waiting(i)'
  BY DEF GlfwInv, GlfwNoResultLost
<1>1. Glfw
  BY SameBackend
<1> QED BY <1>1, HoldsStep, ResultsStep

LEMMA InitGlfw == Init => GlfwInv
<1> SUFFICES ASSUME Init PROVE GlfwInv
  OBVIOUS
<1>1. keyboard = << >> /\ told = {} /\ Recorded = {} /\ game # "announce" /\ 1..arrived = {}
  BY DEF Init, Recorded
<1> QED BY <1>1 DEF GlfwInv, GlfwNoResultLost

LEMMA Glfws == Spec => []GlfwInv
  BY InitGlfw, GlfwStep, Types, Counts, PTL DEF Spec

\* On GLFW no early return of offer() and frame() leaves a caller without an answer.
THEOREM NoResultLost == Spec => []GlfwNoResultLost
<1>1. GlfwInv => GlfwNoResultLost
  BY DEF GlfwInv, GlfwNoResultLost
<1> QED BY <1>1, Glfws, PTL

\* On GLFW a key that is down has the hold that will release it, and the human gets a
\* clean keyboard back.
THEOREM NothingSticks == Spec => []GlfwNothingSticks
<1>1. ASSUME TypeOK, GlfwInv PROVE GlfwNothingSticks
  <2> SUFFICES ASSUME Glfw PROVE HeldHasExpiry /\ InteractiveIsClean
    BY DEF GlfwNothingSticks
  <2>1. /\ keyboard = << >> /\ told \subseteq Recorded
        /\ mode = "interactive" => Recorded = {}
    BY <1>1 DEF GlfwInv
  <2>2. ASSUME NEW k \in Key PROVE WillBeDown(k) <=> k \in told
    <3>1. Pending(k) = {}
      BY <2>1, EmptySeq DEF Pending
    <3> QED BY <3>1 DEF WillBeDown
  <2>3. HeldHasExpiry
    BY <2>1, <2>2 DEF HeldHasExpiry, Recorded
  <2>4. InteractiveIsClean
    BY <2>1, <2>2 DEF InteractiveIsClean, Recorded
  <2> QED BY <2>3, <2>4
<1> QED BY <1>1, Types, Glfws, PTL
=============================================================================
