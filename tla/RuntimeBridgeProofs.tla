------------------------- MODULE RuntimeBridgeProofs -------------------------
(***************************************************************************)
(* Theorems about RuntimeBridge: facts about the operators it is built from *)
(* and its type correctness; what becomes of events; what becomes of        *)
(* commands, up to the refinement of CommandDelivery.                       *)
(***************************************************************************)
EXTENDS RuntimeBridge, WellFoundedInduction, FiniteSetTheorems, SequenceTheorems, TLAPS

\* A nonempty set of numbers has a least one.
LEMMA LeastInSet ==
  ASSUME NEW S \in SUBSET Nat, S # {}
  PROVE  Least(S) \in S /\ \A y \in S : Least(S) <= y
<1> DEFINE R == OpToRel(<, Nat)
<1>1. PICK x \in S : \A y \in S : ~(<<y, x>> \in R)
  <2>1. IsWellFoundedOn(R, Nat)
    BY NatLessThanWellFounded
  <2> HIDE DEF R
  <2> QED BY <2>1, WFMin
<1>2. \A y, z \in Nat : <<y, z>> \in R <=> y < z
  BY DEF OpToRel
<1> HIDE DEF R
<1>3. ASSUME NEW y \in S PROVE x <= y
  <2>1. x \in Nat /\ y \in Nat /\ ~(<<y, x>> \in R)
    BY <1>1
  <2>2. ~(y < x)
    BY <2>1, <1>2
  <2> QED BY <2>1, <2>2
<1> QED BY <1>3 DEF Least

\* A nonempty set of numbers up to n has a greatest one.
LEMMA GreatestInSet ==
  ASSUME NEW n \in Nat, NEW S \in SUBSET (0..n), S # {}
  PROVE  Greatest(S) \in S /\ \A y \in S : Greatest(S) >= y
<1> DEFINE Above == {m \in Nat : \A y \in S : y <= m}
<1>1. n \in Above
  OBVIOUS
<1>2. PICK m \in Above : \A k \in Above : m <= k
  <2> HIDE DEF Above
  <2>1. Above \in SUBSET Nat
    BY DEF Above
  <2> QED BY <1>1, <2>1, LeastInSet
<1>3. m \in Nat /\ \A y \in S : y <= m
  OBVIOUS
<1>4. m \in S
  <2> SUFFICES ASSUME m \notin S PROVE FALSE
    OBVIOUS
  <2>1. \A y \in S : y <= m - 1
    BY <1>3
  <2>2. m - 1 \in Nat
    <3>1. PICK y \in S : TRUE
      OBVIOUS
    <3>2. y \in Nat /\ y <= m - 1
      BY <2>1
    <3> QED BY <3>2, <1>3
  <2>3. m - 1 \in Above
    BY <2>1, <2>2
  <2> QED BY <2>3, <1>2, <1>3
<1> QED BY <1>3, <1>4 DEF Greatest

\* Event numbers are finite in number, and so is every set of commands.
LEMMA SeqsFinite ==
  /\ Seqs \subseteq Nat
  /\ IsFiniteSet(Seqs) /\ \A S \in SUBSET Seqs : IsFiniteSet(S)
<1>1. IsFiniteSet(Seqs) /\ Seqs \subseteq Nat
  BY FS_Interval, BoundAssumption DEF Seqs
<1> QED BY <1>1, FS_Subset

LEMMA CommandsFinite ==
  ASSUME NEW S \in SUBSET Command
  PROVE  IsFiniteSet(S) /\ Cardinality(S) \in Nat
BY CommandAssumption, FS_Subset, FS_CardinalityType

\* Rank numbers the members of a set of event numbers 1, 2, ... in their order.
LEMMA RankOrder ==
  ASSUME NEW S \in SUBSET Seqs, NEW x \in S, NEW y \in S
  PROVE  /\ Rank(x, S) \in 1..Cardinality(S)
         /\ Cardinality(S) \in Nat
         /\ x < y => Rank(x, S) < Rank(y, S)
         /\ x = y <=> Rank(x, S) = Rank(y, S)
<1> USE DEF Rank
<1>1. S \subseteq Nat /\ IsFiniteSet(S) /\ Cardinality(S) \in Nat
  BY SeqsFinite, FS_CardinalityType
<1>2. ASSUME NEW z \in S
      PROVE  /\ IsFiniteSet(UpTo(z, S)) /\ z \in UpTo(z, S)
             /\ Rank(z, S) \in Nat /\ Rank(z, S) <= Cardinality(S)
             /\ Rank(z, S) # 0
  <2>1. UpTo(z, S) \in SUBSET S /\ z \in UpTo(z, S)
    BY <1>1 DEF UpTo
  <2>2. IsFiniteSet(UpTo(z, S)) /\ Cardinality(UpTo(z, S)) <= Cardinality(S)
    BY <2>1, <1>1, FS_Subset
  <2> QED BY <2>1, <2>2, FS_CardinalityType, FS_EmptySet
<1>3. ASSUME NEW u \in S, NEW v \in S, u < v
      PROVE  Rank(u, S) < Rank(v, S)
  <2>1. UpTo(u, S) \subseteq UpTo(v, S) /\ v \in UpTo(v, S) /\ v \notin UpTo(u, S)
    <3>1. \A z \in UpTo(u, S) : z \in UpTo(v, S)
      BY <1>1, <1>3 DEF UpTo
    <3>2. v \in UpTo(v, S) /\ v \notin UpTo(u, S)
      BY <1>1, <1>3 DEF UpTo
    <3> QED BY <3>1, <3>2
  <2>2. Cardinality(UpTo(u, S)) <= Cardinality(UpTo(v, S))
        /\ Cardinality(UpTo(u, S)) # Cardinality(UpTo(v, S))
    BY <2>1, <1>2, FS_Subset
  <2> QED BY <2>2, <1>2
<1> QED BY <1>1, <1>2, <1>3

\* FirstOf takes a prefix: with an event it takes every older one of the set.
LEMMA FirstOfPrefix ==
  ASSUME NEW S \in SUBSET Seqs, NEW x \in FirstOf(S), NEW y \in S, y <= x
  PROVE  y \in FirstOf(S)
<1>1. BatchSize \in Nat
  BY CapAssumption
<1>2. x \in S /\ Rank(x, S) <= BatchSize
  BY DEF FirstOf
<1>3. Rank(x, S) \in Nat /\ Rank(y, S) \in Nat /\ Rank(y, S) <= Rank(x, S)
  <2>1. CASE y = x
    BY <2>1, <1>2, RankOrder
  <2>2. CASE y # x
    <3>1. y < x
      BY <2>2, <1>2, BoundAssumption DEF Seqs
    <3> QED BY <3>1, <1>2, RankOrder
  <2> QED BY <2>1, <2>2
<1> QED BY <1>1, <1>2, <1>3 DEF FirstOf

\* Taking the head of a queue without duplicates removes that member and no other.
Distinct(s) == \A i, j \in 1..Len(s) : s[i] = s[j] => i = j

LEMMA TailMembers ==
  ASSUME NEW S, NEW s \in Seq(S), s # << >>, Distinct(s)
  PROVE  /\ Head(s) \in S /\ Head(s) \in Members(s)
         /\ Tail(s) \in Seq(S) /\ Distinct(Tail(s))
         /\ Members(Tail(s)) = Members(s) \ {Head(s)}
<1>1. /\ Len(s) \in Nat \ {0} /\ Tail(s) \in Seq(S) /\ Len(Tail(s)) = Len(s) - 1
      /\ \A i \in 1..Len(Tail(s)) : Tail(s)[i] = s[i + 1]
      /\ Head(s) = s[1] /\ Head(s) \in S
  BY HeadTailProperties, EmptySeq
<1>2. Distinct(Tail(s))
  BY <1>1 DEF Distinct
<1>3. Head(s) \in Members(s)
  BY <1>1 DEF Members
<1>4. Members(Tail(s)) \subseteq Members(s) \ {Head(s)}
  BY <1>1 DEF Members, Distinct
<1>5. ASSUME NEW x \in Members(s), x # Head(s)
      PROVE  x \in Members(Tail(s))
  <2>1. PICK i \in 1..Len(s) : x = s[i]
    BY DEF Members
  <2>2. i # 1 /\ i - 1 \in 1..Len(Tail(s)) /\ Tail(s)[i - 1] = x
    BY <2>1, <1>1, <1>5
  <2> QED BY <2>2 DEF Members
<1> QED BY <1>1, <1>2, <1>3, <1>4, <1>5

\* Appending adds exactly the new member.
LEMMA AppendMembers ==
  ASSUME NEW S, NEW s \in Seq(S), NEW x \in S
  PROVE  /\ Append(s, x) \in Seq(S)
         /\ Members(Append(s, x)) = Members(s) \cup {x}
         /\ Distinct(s) /\ x \notin Members(s) => Distinct(Append(s, x))
<1>1. /\ Append(s, x) \in Seq(S) /\ Len(s) \in Nat /\ Len(Append(s, x)) = Len(s) + 1
      /\ \A i \in 1..Len(s) : Append(s, x)[i] = s[i]
      /\ Append(s, x)[Len(s) + 1] = x
  BY AppendProperties, LenProperties
<1>2. Members(Append(s, x)) \subseteq Members(s) \cup {x}
  BY <1>1 DEF Members
<1>3. Members(s) \cup {x} \subseteq Members(Append(s, x))
  BY <1>1 DEF Members
<1>4. Distinct(s) /\ x \notin Members(s) => Distinct(Append(s, x))
  BY <1>1 DEF Members, Distinct
<1> QED BY <1>1, <1>2, <1>3, <1>4
-----------------------------------------------------------------------------
(* What each helper of the actions leaves behind.                          *)

LEMMA FirstOfSubset ==
  ASSUME NEW S \in SUBSET Seqs
  PROVE  FirstOf(S) \in SUBSET Seqs /\ FirstOf(S) \subseteq S
BY DEF FirstOf

LEMMA PushEventType ==
  ASSUME TypeOK, PushEvent
  PROVE  /\ seqNo' = seqNo + 1 /\ seqNo' \in 1..MaxSeq
         /\ events' \in SUBSET Seqs /\ overflowed' \in SUBSET Seqs
<1>1. seqNo + 1 \in Seqs /\ seqNo' = seqNo + 1 /\ seqNo' \in 1..MaxSeq
  BY BoundAssumption DEF PushEvent, TypeOK, AgentType, Seqs
<1> DEFINE full == Cardinality(events) >= EventCap
           drop == IF full THEN {Least(events)} ELSE {}
<1>2. drop \in SUBSET Seqs
  <2>1. events \in SUBSET Seqs
    BY DEF TypeOK, AgentType
  <2>2. CASE full
    <3>1. events # {}
      <4>1. EventCap \in Nat \ {0}
        BY CapAssumption
      <4>2. Cardinality({}) = 0
        BY FS_EmptySet
      <4> QED BY <2>2, <4>1, <4>2
    <3>2. events \in SUBSET Nat
      BY <2>1, SeqsFinite
    <3>3. Least(events) \in events
      BY <3>1, <3>2, LeastInSet
    <3> QED BY <3>3, <2>1
  <2>3. CASE ~full
    BY <2>3
  <2> QED BY <2>2, <2>3
<1>3. events' = (events \ drop) \cup {seqNo + 1} /\ overflowed' = overflowed \cup drop
  BY DEF PushEvent
<1> HIDE DEF drop
<1> QED BY <1>1, <1>2, <1>3 DEF TypeOK, AgentType

LEMMA MayPushEventType ==
  ASSUME TypeOK, MayPushEvent, UNCHANGED <<phase, shutdownSeq, pump>>
  PROVE  AgentType'
<1>1. CASE PushEvent
  <2>1. seqNo' \in 0..MaxSeq
    BY <1>1, PushEventType, BoundAssumption
  <2> QED BY <1>1, <2>1, PushEventType DEF TypeOK, AgentType
<1>2. CASE UNCHANGED <<seqNo, events, overflowed>>
  BY <1>2 DEF TypeOK, AgentType
<1> QED BY <1>1, <1>2 DEF MayPushEvent

\* What Complete() leaves: a result queued, a verdict, a place in the order.
LEMMA CompleteType ==
  ASSUME TypeOK, NEW c \in Command, NEW v \in Verdict, NEW R \in SUBSET Command,
         Complete(c, v, R)
  PROVE  /\ results' \in SUBSET Command /\ results' \subseteq R \cup {c}
         /\ verdict' \in [Command -> Verdict \cup {"none"}]
         /\ finished' \in [Command -> Nat]
         /\ \E n \in Nat \ {0} : finished' = [finished EXCEPT ![c] = n]
<1> DEFINE n == 1 + Cardinality({d \in Command : finished[d] > 0})
<1>1. n \in Nat \ {0}
  BY CommandsFinite
<1>2. finished' = [finished EXCEPT ![c] = n] /\ verdict' = [verdict EXCEPT ![c] = v]
  BY DEF Complete
<1>3. results' \subseteq R \cup {c}
  BY DEF Complete
<1> HIDE DEF n
<1> QED BY <1>1, <1>2, <1>3 DEF TypeOK, WorkType

LEMMA RememberType ==
  ASSUME TypeOK, NEW c \in Command, Remember(c)
  PROVE  received' \in Seq(Command)
<1> DEFINE longer == Append(received, c)
<1>0. received \in Seq(Command)
  BY DEF TypeOK, WorkType
<1>1. longer \in Seq(Command) /\ longer # << >>
  BY <1>0, AppendProperties
<1>2. Tail(longer) \in Seq(Command)
  BY <1>1, HeadTailProperties
<1>3. received' = IF Len(longer) > ReceivedCap THEN Tail(longer) ELSE longer
  BY DEF Remember
<1> HIDE DEF longer
<1> QED BY <1>1, <1>2, <1>3

LEMMA NextCommandType ==
  ASSUME TypeOK, NEW D
  PROVE  NextCommand(D) = NoCommand \/ NextCommand(D) \in (table \ handed) \ D
<1> SUFFICES ASSUME Sendable(D) # {}
             PROVE  NextCommand(D) \in Sendable(D)
  BY DEF NextCommand, Sendable
<1> DEFINE T == {ticket[c] : c \in Sendable(D)}
<1>1. Sendable(D) \subseteq Command /\ \A c \in Sendable(D) : ticket[c] \in Nat
  BY DEF Sendable, TypeOK, CallType
<1>2. T \in SUBSET Nat /\ T # {}
  BY <1>1
<1>3. PICK t \in T : \A u \in T : t <= u
  <2> HIDE DEF T
  <2> QED BY <1>2, LeastInSet
<1>4. PICK c \in Sendable(D) : t = ticket[c]
  OBVIOUS
<1>5. \A d \in Sendable(D) : ticket[c] <= ticket[d]
  BY <1>3, <1>4
<1> QED BY <1>5 DEF NextCommand

\* add() keeps the journal a set of entries and the cursor a number.
LEMMA AddType ==
  ASSUME TypeOK, NEW H, H = {} \/ H \in {{"started"}, {"lost"}, {"restored"}},
         NEW F \in SUBSET Seqs, Add(H, F)
  PROVE  journal' \in SUBSET Entry /\ cursor' \in Nat /\ recorded' \in SUBSET Seqs
<1>1. Cardinality(H) \in Nat /\ Cardinality(F) \in Nat
  BY SeqsFinite, FS_CardinalityType, FS_EmptySet, FS_Singleton
<1> DEFINE base  == cursor + Cardinality(H)
           heads == {[cursor |-> cursor + 1, kind |-> k, seq |-> 0] : k \in H}
           tails == {[cursor |-> base + Rank(e, F), kind |-> "agent", seq |-> e] : e \in F}
<1>2. cursor \in Nat /\ journal \in SUBSET Entry /\ recorded \in SUBSET Seqs
  BY DEF TypeOK, LogType
<1>3. \A x \in heads : x \in Entry
  BY <1>2, BoundAssumption DEF Entry
<1>4. \A x \in tails : x \in Entry
  <2> SUFFICES ASSUME NEW e \in F
               PROVE  [cursor |-> base + Rank(e, F), kind |-> "agent", seq |-> e] \in Entry
    OBVIOUS
  <2>1. Rank(e, F) \in Nat \ {0}
    BY RankOrder, <1>1
  <2>2. base + Rank(e, F) \in Nat \ {0} /\ e \in 0..MaxSeq
    BY <2>1, <1>1, <1>2, BoundAssumption DEF Seqs
  <2> QED BY <2>2 DEF Entry
<1>5. /\ journal' = Newest(journal \cup (heads \cup tails))
      /\ cursor' = base + Cardinality(F) /\ recorded' = recorded \cup F
  BY DEF Add
<1>6. \A x \in journal' : x \in Entry
  <2> HIDE DEF heads, tails
  <2> QED BY <1>2, <1>3, <1>4, <1>5 DEF Newest
<1> QED BY <1>1, <1>2, <1>5, <1>6

\* accept() for any packet.
LEMMA AcceptType ==
  ASSUME TypeOK, NEW p \in Packet, Accept(p)
  PROVE  /\ HubType' /\ CallType' /\ LogType'
         /\ [ack |-> lastSeq', cmd |-> NextCommand(p.done)] \in Answer
<1> DEFINE F == NewEvents(p)
<1>1. F \in SUBSET Seqs /\ p.done \in SUBSET Command
  BY DEF Packet, NewEvents
<1>2. lastSeq' \in 0..MaxSeq
  <2>1. lastSeq' = IF F = {} THEN lastSeq ELSE Greatest(F)
    BY DEF Accept
  <2>2. F # {} => Greatest(F) \in F
    <3>1. F \in SUBSET (0..MaxSeq) /\ MaxSeq \in Nat
      BY <1>1, BoundAssumption DEF Seqs
    <3> HIDE DEF F
    <3> QED BY <3>1, GreatestInSet
  <2> HIDE DEF F
  <2> QED BY <2>1, <2>2, <1>1, BoundAssumption DEF TypeOK, HubType, Seqs
<1>3. HubType'
  <2>1. /\ known' = TRUE /\ disconnected' = FALSE /\ silence' = 0 /\ hub' = hub
        /\ ended' = (ended \/ (shutdownSeq # 0 /\ shutdownSeq \in F))
    BY DEF Accept
  <2>2. 0 \in 0..(HeartbeatTTL + 1)
    BY TimeAssumption
  <2> QED BY <2>1, <2>2, <1>2 DEF TypeOK, HubType
<1>4. NextCommand(p.done) \in Command \cup {NoCommand}
  BY NextCommandType DEF TypeOK, CallType
<1>5. CallType'
  <2>1. table' \in SUBSET Command /\ handed' \in SUBSET Command
    BY <1>4 DEF Accept, TypeOK, CallType
  <2>2. reply' \in [Command -> {"none", "open", "refused", "ok", "error", "timeout", "closed"}]
    <3>1. \A c \in Command : reply[c] = "open" /\ c \in p.done =>
            verdict[c] \in {"none", "ok", "error"}
      BY DEF TypeOK, WorkType, Verdict
    <3> QED BY <3>1 DEF Accept, TypeOK, CallType, WorkType, Verdict
  <2> QED BY <2>1, <2>2 DEF Accept, TypeOK, CallType
<1>6. LogType'
  <2>1. Add(Header, F) /\ losses' = losses
    BY DEF Accept
  <2>2. Header = {} \/ Header \in {{"started"}, {"lost"}, {"restored"}}
    BY DEF Header
  <2> HIDE DEF F
  <2> QED BY <2>1, <2>2, <1>1, AddType DEF TypeOK, LogType
<1> QED BY <1>2, <1>3, <1>4, <1>5, <1>6 DEF Answer
-----------------------------------------------------------------------------
(* Type correctness: one step per action.                                  *)

LEMMA InitType == Init => TypeOK
<1> SUFFICES ASSUME Init PROVE TypeOK
  OBVIOUS
<1> USE BoundAssumption, TimeAssumption
<1>1. AgentType
  BY DEF Init, AgentType, NoPump, Pump
<1>2. WorkType
  BY EmptySeq DEF Init, WorkType
<1>3. LinkType
  BY DEF Init, LinkType, NoPacket, NoAnswer, Packet, Answer
<1>4. HubType
  <2>1. 0 \in 0..(HeartbeatTTL + 1) /\ 0 \in 0..MaxSeq
    OBVIOUS
  <2> QED BY <2>1 DEF Init, HubType
<1>5. CallType
  BY DEF Init, CallType, Expiry
<1>6. LogType
  BY DEF Init, LogType
<1> QED BY <1>1, <1>2, <1>3, <1>4, <1>5, <1>6 DEF TypeOK

\* A group of variables that an action leaves alone keeps its type.
LEMMA Unchanged ==
  ASSUME TypeOK
  PROVE  /\ UNCHANGED agentVars => AgentType'
         /\ UNCHANGED workVars => WorkType'
         /\ UNCHANGED linkVars => LinkType'
         /\ UNCHANGED hubVars => HubType'
         /\ UNCHANGED callVars => CallType'
         /\ UNCHANGED logVars => LogType'
<1>1. UNCHANGED agentVars => AgentType'
  BY DEF TypeOK, AgentType, agentVars
<1>2. UNCHANGED workVars => WorkType'
  BY DEF TypeOK, WorkType, workVars
<1>3. UNCHANGED linkVars => LinkType'
  BY DEF TypeOK, LinkType, linkVars
<1>4. UNCHANGED hubVars => HubType'
  BY DEF TypeOK, HubType, hubVars
<1>5. UNCHANGED callVars => CallType'
  BY DEF TypeOK, CallType, callVars
<1>6. UNCHANGED logVars => LogType'
  BY DEF TypeOK, LogType, logVars
<1> QED BY <1>1, <1>2, <1>3, <1>4, <1>5, <1>6

LEMMA InboxHead ==
  ASSUME NEW s \in Seq(Command), s # << >>
  PROVE  Head(s) \in Command /\ Tail(s) \in Seq(Command)
BY HeadTailProperties

LEMMA TakeEffectType ==
  ASSUME TypeOK, NEW c \in Command, TakeEffect(c)
  PROVE  effects' \in [Command -> Nat]
BY DEF TypeOK, WorkType, TakeEffect

LEMMA EndExchangeType ==
  ASSUME TypeOK, EndExchange
  PROVE  /\ exchange' = "idle" /\ packet' \in Packet /\ answer' \in Answer
         /\ phase' \in {"up", "stopping", "gone"}
BY BoundAssumption DEF TypeOK, EndExchange, AgentType, NoPacket, NoAnswer, Packet, Answer

LEMMA TypeStep == TypeOK /\ [Next]_vars => TypeOK'
<1> SUFFICES ASSUME TypeOK, [Next]_vars PROVE TypeOK'
  OBVIOUS
<1> USE DEF TypeOK
<1>1. ASSUME RaiseEvent PROVE TypeOK'
  <2>1. MayPushEvent /\ UNCHANGED <<phase, shutdownSeq, pump>>
    BY <1>1 DEF RaiseEvent, MayPushEvent
  <2> QED BY <1>1, <2>1, MayPushEventType, Unchanged DEF RaiseEvent
<1>2. ASSUME PumpExpired \/ PumpRejected PROVE TypeOK'
  <2>1. Head(inbox) \in Command /\ inbox' \in Seq(Command)
    BY <1>2, InboxHead DEF PumpExpired, PumpRejected, Pumping, WorkType
  <2>2. AgentType'
    BY <1>2, MayPushEventType, Unchanged DEF PumpExpired, PumpRejected
  <2>3. Complete(Head(inbox), "error", results)
        /\ UNCHANGED <<ioJobs, running, received, effects>>
    BY <1>2 DEF PumpExpired, PumpRejected
  <2>4. WorkType'
    BY <2>1, <2>3, CompleteType DEF WorkType, Verdict
  <2> QED BY <1>2, <2>2, <2>4, Unchanged DEF PumpExpired, PumpRejected
<1>3. ASSUME PumpControl PROVE TypeOK'
  <2>1. Head(inbox) \in Command /\ inbox' \in Seq(Command)
    BY <1>3, InboxHead DEF PumpControl, Pumping, WorkType
  <2>2. AgentType'
    BY <1>3, MayPushEventType DEF PumpControl
  <2>3. /\ Complete(Head(inbox), "ok", results) /\ TakeEffect(Head(inbox))
        /\ running' \in SUBSET running /\ UNCHANGED <<ioJobs, received>>
    BY <1>3 DEF PumpControl
  <2>4. WorkType'
    BY <2>1, <2>3, CompleteType, TakeEffectType DEF WorkType, Verdict
  <2> QED BY <1>3, <2>2, <2>4, Unchanged DEF PumpControl
<1>4. ASSUME PumpQueued PROVE TypeOK'
  <2>1. Head(inbox) \in Command /\ inbox' \in Seq(Command)
    BY <1>4, InboxHead DEF PumpQueued, Pumping, WorkType
  <2>2. AgentType'
    BY <1>4, MayPushEventType DEF PumpQueued
  <2>3. WorkType'
    BY <1>4, <2>1 DEF PumpQueued, WorkType
  <2> QED BY <1>4, <2>2, <2>3, Unchanged DEF PumpQueued
<1>5. ASSUME NEW c \in Command, Deliver(c) PROVE TypeOK'
  <2>1. PICK v \in Verdict : Complete(c, v, results)
    BY <1>5 DEF Deliver
  <2>2. TakeEffect(c) /\ running' \in SUBSET Command /\ UNCHANGED <<inbox, ioJobs, received>>
    BY <1>5 DEF Deliver, WorkType
  <2>3. WorkType'
    BY <2>1, <2>2, CompleteType, TakeEffectType DEF WorkType
  <2> QED BY <1>5, <2>3, Unchanged DEF Deliver
<1>6. ASSUME LeaseExpires PROVE TypeOK'
  <2>1. MayPushEvent /\ UNCHANGED <<phase, shutdownSeq, pump>>
    BY <1>6 DEF LeaseExpires, MayPushEvent
  <2>2. WorkType'
    BY <1>6 DEF LeaseExpires, WorkType
  <2> QED BY <1>6, <2>1, <2>2, MayPushEventType, Unchanged DEF LeaseExpires
<1>7. ASSUME RunDiagnostic PROVE TypeOK'
  <2>1. Head(ioJobs) \in Command /\ ioJobs' \in Seq(Command)
    BY <1>7, InboxHead DEF RunDiagnostic, WorkType
  <2>2. effects' \in [Command -> Nat]
    BY <1>7, <2>1, TakeEffectType DEF RunDiagnostic, WorkType
  <2>3. PICK v \in Verdict : Complete(Head(ioJobs), v, results)
    BY <1>7 DEF RunDiagnostic, Verdict
  <2>4. WorkType'
    BY <1>7, <2>1, <2>2, <2>3, CompleteType DEF RunDiagnostic, WorkType
  <2> QED BY <1>7, <2>4, Unchanged DEF RunDiagnostic
<1>8. ASSUME BeginShutdown PROVE TypeOK'
  <2>1. AgentType'
    BY <1>8, PushEventType, BoundAssumption DEF BeginShutdown, AgentType
  <2> QED BY <1>8, <2>1, Unchanged DEF BeginShutdown
<1>9. ASSUME Halt PROVE TypeOK'
  <2>1. AgentType'
    BY <1>9, TimeAssumption DEF Halt, AgentType, NoPump, Pump
  <2>2. LinkType'
    BY <1>9, BoundAssumption DEF Halt, LinkType, NoPacket, NoAnswer, Packet, Answer
  <2> QED BY <1>9, <2>1, <2>2, Unchanged DEF Halt
<1>10. ASSUME NEW hook \in BOOLEAN, StartExchange(hook) PROVE TypeOK'
  <2>1. FirstOf(events) \in SUBSET Seqs /\ results \in SUBSET Command
    BY FirstOfSubset DEF AgentType, WorkType
  <2>2. LinkType'
    BY <1>10, <2>1 DEF StartExchange, LinkType, Packet
  <2> QED BY <1>10, <2>2, Unchanged DEF StartExchange
<1>11. ASSUME FailExchange PROVE TypeOK'
  <2>1. AgentType'
    BY <1>11, EndExchangeType DEF FailExchange, AgentType
  <2>2. LinkType'
    BY <1>11, EndExchangeType DEF FailExchange, LinkType
  <2> QED BY <1>11, <2>1, <2>2, Unchanged DEF FailExchange
<1>12. ASSUME HandleAnswer PROVE TypeOK'
  <2>1. AgentType'
    BY <1>12, EndExchangeType DEF HandleAnswer, Acknowledge, AgentType
  <2>2. LinkType'
    BY <1>12, EndExchangeType DEF HandleAnswer, LinkType
  <2> DEFINE c    == answer.cmd
             left == results \ packet.done
  <2>3. left \in SUBSET Command
    BY DEF WorkType
  <2>4. UNCHANGED <<running, effects>>
    BY <1>12 DEF HandleAnswer
  <2>5. WorkType'
    <3>1. CASE UNCHANGED <<inbox, ioJobs, received, verdict, finished>> /\ results' = left
      BY <3>1, <2>3, <2>4 DEF WorkType
    <3>2. CASE /\ c \in Command /\ Remember(c) /\ ioJobs' = Append(ioJobs, c) /\ results' = left
               /\ UNCHANGED <<inbox, verdict, finished>>
      BY <3>2, <2>3, <2>4, RememberType, AppendProperties DEF WorkType
    <3>3. CASE /\ c \in Command /\ Remember(c) /\ inbox' = Append(inbox, c) /\ results' = left
               /\ UNCHANGED <<ioJobs, verdict, finished>>
      BY <3>3, <2>3, <2>4, RememberType, AppendProperties DEF WorkType
    <3>4. CASE c \in Command /\ Remember(c) /\ Complete(c, "error", left) /\ UNCHANGED <<inbox, ioJobs>>
      BY <3>4, <2>3, <2>4, RememberType, CompleteType DEF WorkType, Verdict
    <3>5. New(c) => c \in Command
      BY DEF New, LinkType, Answer
    <3> QED BY <1>12, <3>1, <3>2, <3>3, <3>4, <3>5 DEF HandleAnswer
  <2> QED BY <1>12, <2>1, <2>2, <2>5, Unchanged DEF HandleAnswer
<1>13. ASSUME AcceptCurrent PROVE TypeOK'
  <2>1. packet \in Packet
    BY DEF LinkType
  <2>2. HubType' /\ CallType' /\ LogType' /\ answer' \in Answer
    BY <1>13, <2>1, AcceptType DEF AcceptCurrent
  <2>3. LinkType'
    BY <1>13, <2>2 DEF AcceptCurrent, LinkType
  <2> QED BY <1>13, <2>2, <2>3, Unchanged DEF AcceptCurrent
<1>14. ASSUME NEW p \in orphans, AcceptOrphan(p) PROVE TypeOK'
  <2>1. p \in Packet
    BY DEF LinkType
  <2>2. HubType' /\ CallType' /\ LogType'
    BY <1>14, <2>1, AcceptType DEF AcceptOrphan
  <2>3. LinkType'
    BY <1>14 DEF AcceptOrphan, LinkType
  <2> QED BY <1>14, <2>2, <2>3, Unchanged DEF AcceptOrphan
<1>15. ASSUME NEW p \in orphans, LoseOrphan(p) PROVE TypeOK'
  <2>1. LinkType'
    BY <1>15 DEF LoseOrphan, LinkType
  <2> QED BY <1>15, <2>1, Unchanged DEF LoseOrphan
<1>16. ASSUME NEW c \in Command, Submit(c) PROVE TypeOK'
  <2>1. 1 + Cardinality({d \in Command : ticket[d] > 0}) \in Nat /\ 0 \in 0..Expiry
    BY CommandsFinite, TimeAssumption DEF Expiry
  <2>2. CallType'
    BY <1>16, <2>1 DEF Submit, CallType
  <2> QED BY <1>16, <2>2, Unchanged DEF Submit
<1>17. ASSUME NEW c \in Command, Refuse(c) PROVE TypeOK'
  <2>1. CallType'
    BY <1>17 DEF Refuse, CallType
  <2> QED BY <1>17, <2>1, Unchanged DEF Refuse
<1>18. ASSUME NEW c \in Command, Expire(c) PROVE TypeOK'
  <2>1. CallType'
    BY <1>18 DEF Expire, CallType
  <2> QED BY <1>18, <2>1, Unchanged DEF Expire
<1>19. ASSUME Monitor PROVE TypeOK'
  <2>1. LogType'
    BY <1>19, AddType DEF Monitor, LogType
  <2>2. HubType'
    BY <1>19 DEF Monitor, HubType
  <2> QED BY <1>19, <2>1, <2>2, Unchanged DEF Monitor
<1>20. ASSUME BeginClose PROVE TypeOK'
  <2>1. HubType' /\ CallType'
    BY <1>20 DEF BeginClose, HubType, CallType
  <2> QED BY <1>20, <2>1, Unchanged DEF BeginClose
<1>21. ASSUME EndClose PROVE TypeOK'
  <2>1. HubType' /\ LinkType'
    BY <1>21 DEF EndClose, HubType, LinkType
  <2> QED BY <1>21, <2>1, Unchanged DEF EndClose
<1>22. ASSUME Tick PROVE TypeOK'
  <2>0. AgentType'
    <3>1. /\ UNCHANGED <<phase, seqNo, events, overflowed, shutdownSeq>>
          /\ pump' = [pump EXCEPT !.time = IF pump.on /\ pump.time < Grace THEN pump.time + 1
                                           ELSE pump.time]
      BY <1>22 DEF Tick
    <3>2. pump \in Pump /\ Grace \in Nat
      BY TimeAssumption DEF AgentType
    <3>3. pump' \in Pump
      BY <3>1, <3>2 DEF Pump
    <3> QED BY <3>1, <3>3 DEF AgentType
  <2>1. HubType'
    BY <1>22, TimeAssumption DEF Tick, HubType
  <2>2. CallType'
    BY <1>22, TimeAssumption DEF Tick, CallType, Expiry
  <2> QED BY <1>22, <2>0, <2>1, <2>2, Unchanged DEF Tick
<1>23. ASSUME BeginPump \/ EndPump PROVE TypeOK'
  <2>1. 0 \in 0..Grace
    BY TimeAssumption
  <2>2. pump' \in Pump
    <3>1. CASE BeginPump
      <4>1. {c \in Command \ Diagnostic : age[c] > CommandTTL} \in SUBSET Command
        OBVIOUS
      <4> QED BY <3>1, <4>1, <2>1 DEF BeginPump, Pump
    <3>2. CASE EndPump
      BY <3>2, <2>1 DEF EndPump, NoPump, Pump
    <3> QED BY <1>23, <3>1, <3>2
  <2>3. UNCHANGED <<phase, seqNo, events, overflowed, shutdownSeq>>
    BY <1>23 DEF BeginPump, EndPump
  <2>4. AgentType'
    BY <2>2, <2>3 DEF AgentType
  <2> QED BY <1>23, <2>4, Unchanged DEF BeginPump, EndPump
<1>24. ASSUME UNCHANGED vars PROVE TypeOK'
  BY <1>24, Unchanged DEF vars
<1> QED
  BY <1>1, <1>2, <1>3, <1>4, <1>5, <1>6, <1>7, <1>8, <1>9, <1>10, <1>11, <1>12, <1>13, <1>14,
     <1>15, <1>16, <1>17, <1>18, <1>19, <1>20, <1>21, <1>22, <1>23, <1>24 DEF Next, Agent, Hub

\* Every state of the bridge is well-typed.
THEOREM Typing == Spec => []TypeOK
<1>1. Init => TypeOK
  BY InitType
<1>2. TypeOK /\ [Next]_vars => TypeOK'
  BY TypeStep
<1> QED BY <1>1, <1>2, PTL DEF Spec
-----------------------------------------------------------------------------
(* No event is lost by an acknowledgement, a reported stop leaves no gap,   *)
(* and the journal holds the client's events in their order.  The inductive *)
(* invariant follows an event from the deque through packets, also late     *)
(* ones, to the journal.                                                    *)

\* The events the hub has, or never can have.
Settled == recorded \cup overflowed

\* A batch is a prefix of what was not settled when it was sent: any older event is in it
\* or is settled.
PrefixBatch(p) == \A b \in p.batch : \A e \in 1..b : e \in p.batch \cup Settled

EventInv ==
  /\ events \subseteq 1..seqNo
  /\ NoEventLost
  /\ \A p \in orphans \cup {packet} : PrefixBatch(p)
  /\ \A e \in 1..lastSeq : e \in Settled
  /\ answer.ack <= lastSeq

StopInv ==
  /\ phase = "up" => shutdownSeq = 0
  /\ ended => shutdownSeq # 0 /\ shutdownSeq <= lastSeq

JournalInv ==
  /\ \A x \in journal : x.cursor <= cursor /\ x.seq <= lastSeq
  /\ JournalInOrder

HistoryInv == EventInv /\ StopInv /\ JournalInv
-----------------------------------------------------------------------------
LEMMA InitHistory == Init => HistoryInv
<1> SUFFICES ASSUME Init PROVE HistoryInv
  OBVIOUS
<1>1. \A p \in orphans \cup {packet} : PrefixBatch(p)
  BY DEF Init, NoPacket, PrefixBatch
<1>2. EventInv
  BY <1>1 DEF Init, NoAnswer, EventInv, NoEventLost
<1>3. StopInv /\ JournalInv
  BY DEF Init, StopInv, JournalInv, JournalInOrder
<1> QED BY <1>2, <1>3 DEF HistoryInv

\* A step that raises an event, or none, and leaves the exchange and the hub alone.
LEMMA PushStep ==
  ASSUME TypeOK, HistoryInv, MayPushEvent, UNCHANGED <<linkVars, hubVars, logVars>>
  PROVE  EventInv' /\ JournalInv'
<1> USE DEF HistoryInv, EventInv, linkVars, hubVars, logVars
<1>1. JournalInv'
  BY DEF JournalInv, JournalInOrder
<1>2. \A e \in Settled : e \in Settled'
  BY DEF MayPushEvent, PushEvent, Settled
<1>3. (\A p \in orphans \cup {packet} : PrefixBatch(p))'
  BY <1>2 DEF PrefixBatch, Settled
<1>4. (\A e \in 1..lastSeq : e \in Settled)' /\ (answer.ack <= lastSeq)'
  BY <1>2
<1>5. (events \subseteq 1..seqNo)' /\ NoEventLost'
  <2>1. CASE UNCHANGED <<seqNo, events, overflowed>>
    BY <2>1 DEF NoEventLost
  <2>2. CASE PushEvent
    <3>1. seqNo \in Nat /\ seqNo' = seqNo + 1
      BY <2>2, BoundAssumption DEF PushEvent, TypeOK, AgentType
    <3>2. \A e \in events' : e \in 1..seqNo'
      BY <2>2, <3>1 DEF PushEvent
    <3>3. ASSUME NEW e \in 1..seqNo'
          PROVE  e \in events' \cup recorded' \cup overflowed'
      <4>1. e \in 1..seqNo \/ e = seqNo + 1
        BY <3>1
      <4> QED BY <2>2, <4>1 DEF PushEvent, NoEventLost
    <3> QED BY <3>2, <3>3 DEF NoEventLost
  <2> QED BY <2>1, <2>2 DEF MayPushEvent
<1> QED BY <1>1, <1>3, <1>4, <1>5

\* accept() of a packet whose batch is a prefix: what it adds to the journal.
LEMMA AcceptStep ==
  ASSUME TypeOK, HistoryInv, NEW p \in Packet, PrefixBatch(p), Accept(p), UNCHANGED agentVars
  PROVE  /\ JournalInv' /\ StopInv'
         /\ lastSeq <= lastSeq'
         /\ \A e \in Settled : e \in Settled'
         /\ \A e \in 1..lastSeq' : e \in Settled'
<1> DEFINE F == NewEvents(p)
<1> USE DEF NewEvents
<1>1. F \in SUBSET Seqs /\ lastSeq \in 0..MaxSeq /\ MaxSeq \in Nat
  BY BoundAssumption DEF Packet, TypeOK, HubType
<1>2. /\ F = {} => lastSeq' = lastSeq
      /\ F # {} => lastSeq' \in F /\ \A e \in F : e <= lastSeq'
  <2>1. F \in SUBSET (0..MaxSeq)
    BY <1>1 DEF Seqs
  <2>2. lastSeq' = IF F = {} THEN lastSeq ELSE Greatest(F)
    BY DEF Accept
  <2> HIDE DEF F
  <2>3. F # {} => Greatest(F) \in F /\ \A e \in F : Greatest(F) >= e
    BY <2>1, <1>1, GreatestInSet
  <2>4. \A e \in F : e \in Nat
    BY <1>1, SeqsFinite
  <2> QED BY <2>2, <2>3, <2>4
<1>3. Add(Header, F) /\ recorded' = recorded \cup F
  BY DEF Accept, Add
<1>4. /\ lastSeq' \in Nat /\ lastSeq <= lastSeq'
      /\ \A e \in F : e \in Nat /\ e > lastSeq /\ e <= lastSeq'
  <2>1. \A e \in F : e \in Nat /\ e > lastSeq
    BY <1>1 DEF Seqs
  <2> QED BY <1>1, <1>2, <2>1
<1>5. \A e \in Settled : e \in Settled'
  BY <1>3 DEF Settled, agentVars
<1>6. ASSUME NEW e \in 1..lastSeq' PROVE e \in Settled'
  <2>1. CASE e <= lastSeq
    <3>1. e \in 1..lastSeq
      BY <2>1, <1>1
    <3> QED BY <3>1, <1>5 DEF HistoryInv, EventInv
  <2>2. CASE e > lastSeq
    <3>1. F # {}
      BY <2>2, <1>2, <1>1
    <3>2. lastSeq' \in p.batch
      BY <3>1, <1>2
    <3>3. e \in p.batch \cup Settled
      BY <3>2 DEF PrefixBatch
    <3>4. e \in p.batch => e \in F
      BY <2>2
    <3> QED BY <3>3, <3>4, <1>3, <1>5 DEF Settled
  <2> QED BY <2>1, <2>2, <1>1, <1>4
<1>7. StopInv'
  <2>1. /\ ended' = (ended \/ (shutdownSeq # 0 /\ shutdownSeq \in F))
        /\ shutdownSeq' = shutdownSeq /\ phase' = phase /\ shutdownSeq \in Nat
    BY BoundAssumption DEF Accept, agentVars, TypeOK, AgentType
  <2>2. lastSeq \in Nat /\ lastSeq' \in Nat /\ lastSeq <= lastSeq'
    BY <1>1, <1>4
  <2>3. shutdownSeq \in F => shutdownSeq <= lastSeq'
    BY <1>4
  <2> HIDE DEF F
  <2>4. ended => shutdownSeq # 0 /\ shutdownSeq <= lastSeq
    BY DEF HistoryInv, StopInv
  <2>5. ended => shutdownSeq # 0 /\ shutdownSeq <= lastSeq'
    BY <2>1, <2>2, <2>4
  <2>6. ended' => ended \/ (shutdownSeq # 0 /\ shutdownSeq \in F)
    BY <2>1, Zenon
  <2>7. ended' => shutdownSeq # 0 /\ shutdownSeq <= lastSeq'
    BY <2>3, <2>5, <2>6, Zenon
  <2> QED BY <2>1, <2>7 DEF HistoryInv, StopInv
<1>8. JournalInv'
  <2> DEFINE base  == cursor + Cardinality(Header)
             heads == {[cursor |-> cursor + 1, kind |-> k, seq |-> 0] : k \in Header}
             tails == {[cursor |-> base + Rank(e, F), kind |-> "agent", seq |-> e] : e \in F}
             all   == journal \cup (heads \cup tails)
  <2>1. journal' = Newest(all) /\ cursor' = base + Cardinality(F)
    BY <1>3 DEF Add
  <2>2. \A x \in journal' : x \in all
    BY <2>1 DEF Newest
  <2>3. /\ cursor \in Nat /\ Cardinality(Header) \in {0, 1} /\ Cardinality(F) \in Nat
        /\ Header # {} => Cardinality(Header) = 1
        /\ \A k, l \in Header : k = l
        /\ \A k \in Header : k # "agent"
    BY <1>1, SeqsFinite, FS_CardinalityType, FS_EmptySet, FS_Singleton
    DEF Header, TypeOK, LogType
  <2>4. \A x \in journal : x \in Entry /\ x.cursor \in Nat /\ x.cursor <= cursor /\ x.seq <= lastSeq
    BY DEF HistoryInv, JournalInv, TypeOK, LogType, Entry
  <2>5. \A e \in F : Rank(e, F) \in 1..Cardinality(F)
    BY <1>1, RankOrder
  <2>6. \A d, e \in F : /\ d < e => Rank(d, F) < Rank(e, F)
                        /\ Rank(d, F) = Rank(e, F) => d = e
    BY <1>1, RankOrder
  <2> HIDE DEF F
  <2>7. \A x \in heads : /\ x.cursor = cursor + 1 /\ x.cursor <= base
                         /\ x.kind # "agent" /\ x.seq = 0
                         /\ \A y \in heads : x = y
    BY <2>3
  <2>8. \A x \in tails : /\ x.cursor > base /\ x.cursor <= base + Cardinality(F)
                         /\ x.cursor \in Nat /\ x.seq \in F
                         /\ x.cursor = base + Rank(x.seq, F) /\ x.kind = "agent"
                         /\ x = [cursor |-> base + Rank(x.seq, F), kind |-> "agent", seq |-> x.seq]
    BY <2>3, <2>5
  <2> HIDE DEF heads, tails
  <2>9. base \in Nat /\ cursor <= base /\ base <= cursor'
    BY <2>1, <2>3
  <2>10. \A x \in all : x.cursor <= cursor' /\ x.seq <= lastSeq'
    <3>1. \A x \in journal : x.cursor <= cursor' /\ x.seq <= lastSeq'
      <4>1. \A x \in journal : x.seq \in Nat
        BY <2>4, BoundAssumption DEF Entry
      <4> QED BY <2>4, <4>1, <2>9, <2>3, <1>1, <1>4, <2>1
    <3>2. \A x \in heads : x.cursor <= cursor' /\ x.seq <= lastSeq'
      BY <2>7, <2>9, <2>3, <1>4, <2>1
    <3>3. \A x \in tails : x.cursor <= cursor' /\ x.seq <= lastSeq'
      BY <2>8, <2>1, <1>4
    <3> QED BY <3>1, <3>2, <3>3
  <2>11. ASSUME NEW a \in all, NEW b \in all
         PROVE  /\ a.cursor = b.cursor => a = b
                /\ (a.kind = "agent" /\ b.kind = "agent" /\ a.cursor < b.cursor) => a.seq < b.seq
    <3>1. CASE a \in journal /\ b \in journal
      BY <3>1 DEF HistoryInv, JournalInv, JournalInOrder
    <3>2. CASE a \in journal /\ b \in heads
      BY <3>2, <2>4, <2>7, <2>3
    <3>3. CASE a \in heads /\ b \in journal
      BY <3>3, <2>4, <2>7, <2>3
    <3>4. CASE a \in journal /\ b \in tails
      <4>1. a.seq \in Nat
        BY <3>4, <2>4, BoundAssumption DEF Entry
      <4>2. a.cursor < b.cursor /\ a.cursor \in Nat /\ b.cursor \in Nat
        BY <3>4, <2>4, <2>8, <2>9, <2>3
      <4>3. a.seq <= lastSeq /\ lastSeq < b.seq /\ b.seq \in Nat
        BY <3>4, <2>4, <2>8, <1>4, <1>1
      <4> QED BY <4>1, <4>2, <4>3, <1>1
    <3>5. CASE a \in tails /\ b \in journal
      <4>1. b.cursor < a.cursor /\ a.cursor \in Nat /\ b.cursor \in Nat
        BY <3>5, <2>4, <2>8, <2>9, <2>3
      <4> QED BY <4>1
    <3>6. CASE a \in heads /\ b \in heads
      BY <3>6, <2>7
    <3>7. CASE a \in heads /\ b \in tails
      BY <3>7, <2>7, <2>8, <2>9, <2>3
    <3>8. CASE a \in tails /\ b \in heads
      BY <3>8, <2>7, <2>8, <2>9, <2>3
    <3>9. CASE a \in tails /\ b \in tails
      <4>1. /\ a.seq \in F /\ b.seq \in F /\ a.seq \in Nat /\ b.seq \in Nat
            /\ Rank(a.seq, F) \in Nat /\ Rank(b.seq, F) \in Nat
            /\ a.cursor = base + Rank(a.seq, F) /\ b.cursor = base + Rank(b.seq, F)
        BY <3>9, <2>8, <2>5, <2>3, <1>4
      <4>2. a.cursor = b.cursor => a = b
        <5>1. a.cursor = b.cursor => Rank(a.seq, F) = Rank(b.seq, F)
          BY <4>1, <2>9
        <5>2. a.cursor = b.cursor => a.seq = b.seq
          BY <4>1, <5>1, <2>6
        <5> QED BY <5>2, <3>9, <2>8
      <4>3. a.cursor < b.cursor => a.seq < b.seq
        <5>1. a.cursor < b.cursor => Rank(a.seq, F) < Rank(b.seq, F)
          BY <4>1, <2>9
        <5>2. ~(b.seq < a.seq) \/ Rank(b.seq, F) < Rank(a.seq, F)
          BY <4>1, <2>6
        <5> QED BY <5>1, <5>2, <4>1
      <4> QED BY <4>2, <4>3
    <3> QED BY <3>1, <3>2, <3>3, <3>4, <3>5, <3>6, <3>7, <3>8, <3>9
  <2> QED BY <2>2, <2>10, <2>11 DEF JournalInv, JournalInOrder
<1> QED BY <1>4, <1>5, <1>6, <1>7, <1>8

\* A step that leaves the hub, its journal and the events alone, and whose packets are old ones.
LEMMA LinkStep ==
  ASSUME TypeOK, HistoryInv, UNCHANGED <<seqNo, overflowed, shutdownSeq, hubVars, logVars>>,
         events' \subseteq events,
         \A e \in events : e \in events' \/ e \in Settled,
         \A p \in orphans' \cup {packet'} : PrefixBatch(p),
         answer'.ack <= lastSeq,
         phase' = "up" => phase = "up"
  PROVE  HistoryInv'
<1>1. Settled' = Settled
  BY DEF Settled, logVars
<1>2. (\A p \in orphans \cup {packet} : PrefixBatch(p))'
  BY <1>1 DEF PrefixBatch
<1>3. NoEventLost'
  BY DEF HistoryInv, EventInv, NoEventLost, logVars, Settled
<1>4. EventInv'
  BY <1>1, <1>2, <1>3 DEF HistoryInv, EventInv, hubVars
<1>5. StopInv' /\ JournalInv'
  BY DEF HistoryInv, StopInv, JournalInv, JournalInOrder, hubVars, logVars
<1> QED BY <1>4, <1>5 DEF HistoryInv

\* Once accept() is done with a packet, the link may only lose packets.
LEMMA HubStep ==
  ASSUME TypeOK, HistoryInv, NEW p \in Packet, PrefixBatch(p), Accept(p), UNCHANGED agentVars,
         orphans' \subseteq orphans, packet' = packet,
         answer'.ack \in {answer.ack, lastSeq'}
  PROVE  HistoryInv'
<1>1. /\ JournalInv' /\ StopInv' /\ lastSeq <= lastSeq'
      /\ \A e \in Settled : e \in Settled'
      /\ \A e \in 1..lastSeq' : e \in Settled'
  BY AcceptStep
<1>2. lastSeq \in Nat /\ lastSeq' \in Nat /\ answer.ack \in Nat
  <2>1. HubType'
    BY AcceptType
  <2> QED BY <2>1, BoundAssumption DEF TypeOK, HubType, LinkType, Answer
<1>3. answer'.ack <= lastSeq'
  BY <1>1, <1>2 DEF HistoryInv, EventInv
<1>4. (\A q \in orphans \cup {packet} : PrefixBatch(q))'
  BY <1>1 DEF HistoryInv, EventInv, PrefixBatch
<1>5. NoEventLost'
  <2>1. \A e \in recorded \cup overflowed : e \in recorded' \cup overflowed'
    BY <1>1 DEF Settled
  <2> QED BY <2>1 DEF HistoryInv, EventInv, NoEventLost, agentVars
<1>6. (events \subseteq 1..seqNo)'
  BY DEF HistoryInv, EventInv, agentVars
<1> QED BY <1>1, <1>3, <1>4, <1>5, <1>6 DEF HistoryInv, EventInv
-----------------------------------------------------------------------------
(* One step per action.                                                    *)

LEMMA EventStep == TypeOK /\ HistoryInv /\ [Next]_vars => HistoryInv'
<1> SUFFICES ASSUME TypeOK, HistoryInv, [Next]_vars PROVE HistoryInv'
  OBVIOUS
<1>1. ASSUME MayPushEvent, UNCHANGED <<phase, shutdownSeq, linkVars, hubVars, logVars>>
      PROVE  HistoryInv'
  BY <1>1, PushStep DEF HistoryInv, StopInv, hubVars
<1>2. ASSUME RaiseEvent \/ PumpRejected \/ PumpControl \/ PumpQueued \/ LeaseExpires PROVE HistoryInv'
  BY <1>1, <1>2 DEF RaiseEvent, PumpRejected, PumpControl, PumpQueued, LeaseExpires, MayPushEvent
<1>3. ASSUME PumpExpired \/ RunDiagnostic \/ \E c \in Command : Deliver(c) PROVE HistoryInv'
  BY <1>1, <1>3 DEF PumpExpired, RunDiagnostic, Deliver, MayPushEvent, agentVars
<1>4. ASSUME BeginShutdown PROVE HistoryInv'
  <2>1. MayPushEvent /\ UNCHANGED <<linkVars, hubVars, logVars>>
    BY <1>4 DEF BeginShutdown, MayPushEvent
  <2>2. ~ended
    BY <1>4 DEF BeginShutdown, HistoryInv, StopInv
  <2>3. StopInv'
    BY <1>4, <2>1, <2>2 DEF BeginShutdown, StopInv, hubVars
  <2> QED BY <2>1, <2>3, PushStep DEF HistoryInv
<1>5. ASSUME Halt PROVE HistoryInv'
  <2>1. PrefixBatch(NoPacket) /\ NoAnswer.ack = 0 /\ lastSeq \in Nat
    BY BoundAssumption DEF PrefixBatch, NoPacket, NoAnswer, TypeOK, HubType
  <2>2. \A p \in orphans' \cup {packet'} : PrefixBatch(p)
    BY <1>5, <2>1 DEF Halt, HistoryInv, EventInv
  <2> QED BY <1>5, <2>1, <2>2, LinkStep DEF Halt
<1>6. ASSUME NEW hook \in BOOLEAN, StartExchange(hook) PROVE HistoryInv'
  <2>1. ASSUME NEW b \in FirstOf(events), NEW e \in 1..b
        PROVE  e \in FirstOf(events) \cup Settled
    <3>1. events \in SUBSET Seqs /\ b \in events /\ b \in 1..seqNo /\ seqNo \in Nat
      BY BoundAssumption DEF TypeOK, AgentType, FirstOf, HistoryInv, EventInv
    <3>2. e \in 1..seqNo /\ e <= b
      BY <3>1
    <3>3. e \in events \/ e \in Settled
      BY <3>2 DEF HistoryInv, EventInv, NoEventLost, Settled
    <3> QED BY <3>1, <3>2, <3>3, FirstOfPrefix
  <2>2. packet'.batch = FirstOf(events)
    BY <1>6 DEF StartExchange
  <2>3. \A p \in orphans' \cup {packet'} : PrefixBatch(p)
    BY <1>6, <2>1, <2>2 DEF StartExchange, HistoryInv, EventInv, PrefixBatch
  <2>4. /\ UNCHANGED <<seqNo, overflowed, shutdownSeq, hubVars, logVars>>
        /\ events' = events /\ answer' = answer /\ phase' = phase
    BY <1>6 DEF StartExchange, agentVars
  <2> QED BY <2>3, <2>4, LinkStep DEF HistoryInv, EventInv
<1>7. ASSUME FailExchange PROVE HistoryInv'
  <2>1. PrefixBatch(NoPacket) /\ NoAnswer.ack = 0 /\ lastSeq \in Nat
    BY BoundAssumption DEF PrefixBatch, NoPacket, NoAnswer, TypeOK, HubType
  <2>2. \A p \in orphans' \cup {packet'} : PrefixBatch(p)
    BY <1>7, <2>1 DEF FailExchange, EndExchange, HistoryInv, EventInv
  <2> QED BY <1>7, <2>1, <2>2, LinkStep DEF FailExchange, EndExchange
<1>8. ASSUME HandleAnswer PROVE HistoryInv'
  <2>1. PrefixBatch(NoPacket) /\ NoAnswer.ack = 0 /\ lastSeq \in Nat
    BY BoundAssumption DEF PrefixBatch, NoPacket, NoAnswer, TypeOK, HubType
  <2>2. \A p \in orphans' \cup {packet'} : PrefixBatch(p)
    BY <1>8, <2>1 DEF HandleAnswer, EndExchange, HistoryInv, EventInv
  <2>3. events' = {e \in events : e > answer.ack} /\ answer'.ack = 0
        /\ (phase' = "up" => phase = "up")
        /\ UNCHANGED <<seqNo, overflowed, shutdownSeq, hubVars, logVars>>
    BY <1>8, <2>1 DEF HandleAnswer, Acknowledge, EndExchange
  <2>4. ASSUME NEW e \in events PROVE e \in events' \/ e \in Settled
    <3>1. e \in Nat \ {0} /\ answer.ack \in Nat /\ answer.ack <= lastSeq
      BY BoundAssumption DEF TypeOK, AgentType, LinkType, Answer, Seqs, HistoryInv, EventInv
    <3>2. e > answer.ack \/ e \in 1..lastSeq
      BY <3>1, <2>1
    <3> QED BY <3>2, <2>3 DEF HistoryInv, EventInv
  <2> QED BY <2>1, <2>2, <2>3, <2>4, LinkStep
<1>9. ASSUME EndClose \/ \E p \in orphans : LoseOrphan(p) PROVE HistoryInv'
  <2>1. /\ orphans' \subseteq orphans /\ UNCHANGED <<packet, answer, agentVars, logVars>>
        /\ UNCHANGED <<known, silence, lastSeq, disconnected, ended>>
    BY <1>9 DEF EndClose, LoseOrphan, hubVars
  <2>2. Settled' = Settled
    BY <2>1 DEF Settled, agentVars, logVars
  <2>3. EventInv'
    BY <2>1, <2>2 DEF HistoryInv, EventInv, NoEventLost, PrefixBatch, agentVars, logVars
  <2>4. StopInv' /\ JournalInv'
    BY <2>1 DEF HistoryInv, StopInv, JournalInv, JournalInOrder, agentVars, logVars
  <2> QED BY <2>3, <2>4 DEF HistoryInv
<1>10. ASSUME AcceptCurrent PROVE HistoryInv'
  <2>1. packet \in Packet /\ PrefixBatch(packet)
    BY DEF TypeOK, LinkType, HistoryInv, EventInv
  <2>2. Accept(packet) /\ answer'.ack = lastSeq' /\ UNCHANGED <<agentVars, packet, orphans>>
    BY <1>10 DEF AcceptCurrent
  <2> QED BY <2>1, <2>2, HubStep
<1>11. ASSUME NEW p \in orphans, AcceptOrphan(p) PROVE HistoryInv'
  <2>1. p \in Packet /\ PrefixBatch(p)
    BY DEF TypeOK, LinkType, HistoryInv, EventInv
  <2>2. /\ Accept(p) /\ orphans' \subseteq orphans /\ UNCHANGED <<agentVars, packet, answer>>
    BY <1>11 DEF AcceptOrphan
  <2> QED BY <2>1, <2>2, HubStep
<1>12. ASSUME \/ BeginPump \/ EndPump \/ Tick \/ BeginClose
              \/ \E c \in Command : Submit(c) \/ Refuse(c) \/ Expire(c)
       PROVE HistoryInv'
  <2>1. /\ UNCHANGED <<phase, seqNo, events, overflowed, shutdownSeq, linkVars, logVars>>
        /\ UNCHANGED <<lastSeq, ended>>
    BY <1>12 DEF BeginPump, EndPump, agentVars, Tick, BeginClose, Submit, Refuse, Expire, hubVars
  <2>2. EventInv'
    BY <2>1 DEF HistoryInv, EventInv, NoEventLost, PrefixBatch, Settled, linkVars, logVars
  <2>3. StopInv' /\ JournalInv'
    BY <2>1 DEF HistoryInv, StopInv, JournalInv, JournalInOrder, logVars
  <2> QED BY <2>2, <2>3 DEF HistoryInv
<1>13. ASSUME Monitor PROVE HistoryInv'
  <2>1. /\ Add({"lost"}, {}) /\ UNCHANGED <<agentVars, linkVars>>
        /\ UNCHANGED <<lastSeq, ended>>
    BY <1>13 DEF Monitor
  <2>2. recorded' = recorded
    BY <2>1 DEF Add
  <2>3. EventInv' /\ StopInv'
    BY <2>1, <2>2 DEF HistoryInv, EventInv, StopInv, NoEventLost, PrefixBatch, Settled, agentVars, linkVars
  <2> DEFINE x == [cursor |-> cursor + 1, kind |-> "lost", seq |-> 0]
  <2>4. cursor' = cursor + 1 /\ \A y \in journal' : y \in journal \/ y = x
    <3>1. Cardinality({"lost"}) = 1 /\ Cardinality({}) = 0 /\ cursor \in Nat
      BY FS_EmptySet, FS_Singleton DEF TypeOK, LogType
    <3>2. cursor' = cursor + Cardinality({"lost"}) + Cardinality({})
      BY <2>1 DEF Add
    <3>3. \A y \in journal' : y \in journal \/ y = x
      BY <2>1 DEF Add, Newest
    <3> QED BY <3>1, <3>2, <3>3
  <2>5. cursor \in Nat /\ lastSeq \in Nat /\ \A y \in journal : y.cursor \in Nat /\ y.cursor <= cursor
    BY BoundAssumption DEF TypeOK, LogType, HubType, Entry, HistoryInv, JournalInv
  <2>6. \A y \in journal' : y.cursor <= cursor' /\ y.seq <= lastSeq'
    BY <2>1, <2>4, <2>5 DEF HistoryInv, JournalInv
  <2>7. JournalInOrder'
    BY <2>4, <2>5 DEF HistoryInv, JournalInv, JournalInOrder
  <2> QED BY <2>3, <2>6, <2>7 DEF HistoryInv, JournalInv
<1>14. ASSUME UNCHANGED vars PROVE HistoryInv'
  BY <1>14 DEF vars, agentVars, linkVars, hubVars, logVars, HistoryInv, EventInv, StopInv, JournalInv,
     NoEventLost, JournalInOrder, PrefixBatch, Settled
<1> QED
  BY <1>2, <1>3, <1>4, <1>5, <1>6, <1>7, <1>8, <1>9, <1>10, <1>11, <1>12, <1>13, <1>14
  DEF Next, Agent, Hub

\* Acknowledgements never discard an event the hub has not journaled, for any capacity,
\* batch size and number of late requests.
THEOREM NoLoss == Spec => []NoEventLost
<1>1. HistoryInv => NoEventLost
  BY DEF HistoryInv, EventInv
<1> QED BY <1>1, InitHistory, EventStep, Typing, PTL DEF Spec

\* The journal never holds an agent event twice, nor two of them out of order.
THEOREM InOrder == Spec => []JournalInOrder
<1>1. HistoryInv => JournalInOrder
  BY DEF HistoryInv, JournalInv
<1> QED BY <1>1, InitHistory, EventStep, Typing, PTL DEF Spec

\* When the hub calls a session ended, nothing raised before the stop is missing.
THEOREM NoGap == Spec => []StopLeavesNoGap
<1>1. TypeOK /\ HistoryInv => StopLeavesNoGap
  <2> SUFFICES ASSUME TypeOK, HistoryInv, ended, NEW e \in 1..shutdownSeq
               PROVE  e \in recorded \cup overflowed
    BY DEF StopLeavesNoGap
  <2>1. shutdownSeq <= lastSeq /\ lastSeq \in Nat /\ shutdownSeq \in Nat
    BY BoundAssumption DEF HistoryInv, StopInv, TypeOK, AgentType, HubType
  <2>2. e \in 1..lastSeq
    BY <2>1
  <2> QED BY <2>2 DEF HistoryInv, EventInv, Settled
<1> QED BY <1>1, InitHistory, EventStep, Typing, PTL DEF Spec
-----------------------------------------------------------------------------
(* Connection events.                                                      *)

\* A session the hub does not know is not disconnected; the journal is a finite set, so
\* that "the newest" is defined.
ConnectionInv ==
  /\ ~known => ~disconnected
  /\ IsFiniteSet(journal)
  /\ ConnectionAlternates

\* What add() keeps of the journal, it keeps with everything newer.
LEMMA NewestKept ==
  ASSUME NEW J, IsFiniteSet(J), \A x \in J : x.cursor \in Nat,
         NEW x \in Newest(J), NEW y \in J, y.cursor > x.cursor
  PROVE  y \in Newest(J)
<1> DEFINE Over(z) == {u \in J : u.cursor > z.cursor}
<1>1. x \in J /\ Cardinality(Over(x)) < JournalCap
  BY DEF Newest
<1>2. Over(y) \in SUBSET Over(x)
  BY <1>1
<1>3. IsFiniteSet(Over(x)) /\ IsFiniteSet(Over(y)) /\ Cardinality(Over(y)) <= Cardinality(Over(x))
  BY <1>2, FS_Subset
<1>4. Cardinality(Over(x)) \in Nat /\ Cardinality(Over(y)) \in Nat /\ JournalCap \in Nat
  BY <1>3, FS_CardinalityType, CapAssumption
<1>5. Cardinality(Over(y)) < JournalCap
  BY <1>1, <1>3, <1>4
<1> QED BY <1>5 DEF Newest

\* add() of one event of the hub at most, and of agent events: the journal stays finite, a
\* connection event it gains is the newest, and of those it had it drops only the oldest.
LEMMA AddConnection ==
  ASSUME TypeOK, JournalInv, IsFiniteSet(journal),
         NEW H, H \in {{}, {"started"}, {"lost"}, {"restored"}},
         NEW F \in SUBSET Seqs, Add(H, F)
  PROVE  /\ IsFiniteSet(journal')
         /\ \A x \in ConnectionEvents' :
              \/ x \in ConnectionEvents
              \/ x.cursor = cursor + 1 /\ x.kind \in H
         /\ \A k \in H \cap {"lost", "restored"} :
              \A x \in ConnectionEvents' : x \in ConnectionEvents =>
                 \E h \in ConnectionEvents' : h.cursor = cursor + 1 /\ h.kind = k
         /\ \A x \in ConnectionEvents', y \in ConnectionEvents :
              y.cursor > x.cursor => y \in ConnectionEvents'
<1> DEFINE base  == cursor + Cardinality(H)
           heads == {[cursor |-> cursor + 1, kind |-> k, seq |-> 0] : k \in H}
           tails == {[cursor |-> base + Rank(e, F), kind |-> "agent", seq |-> e] : e \in F}
           all   == journal \cup (heads \cup tails)
<1>1. journal' = Newest(all)
  BY DEF Add
<1>2. cursor \in Nat /\ Cardinality(H) \in Nat /\ IsFiniteSet(F)
  <2>1. Cardinality(H) \in {0, 1}
    <3>1. Cardinality({}) = 0 /\ \A k : Cardinality({k}) = 1
      BY FS_EmptySet, FS_Singleton
    <3> QED BY <3>1
  <2>2. IsFiniteSet(F) /\ cursor \in Nat
    BY SeqsFinite DEF TypeOK, LogType
  <2> QED BY <2>1, <2>2
<1>3. \A x \in journal : x.cursor \in Nat /\ x.cursor <= cursor
  BY DEF JournalInv, TypeOK, LogType, Entry
<1>4. \A x \in heads : x.cursor = cursor + 1 /\ x.kind \in H
  OBVIOUS
<1>5. \A x \in tails : x.cursor \in Nat /\ x.kind = "agent"
  <2> SUFFICES ASSUME NEW e \in F PROVE base + Rank(e, F) \in Nat
    OBVIOUS
  <2>1. Rank(e, F) \in 1..Cardinality(F) /\ Cardinality(F) \in Nat
    BY RankOrder
  <2> QED BY <2>1, <1>2
<1>6. \A k \in H : \E h \in heads : h.cursor = cursor + 1 /\ h.kind = k
  <2> SUFFICES ASSUME NEW k \in H PROVE \E h \in heads : h.cursor = cursor + 1 /\ h.kind = k
    OBVIOUS
  <2> WITNESS [cursor |-> cursor + 1, kind |-> k, seq |-> 0] \in heads
  <2> QED OBVIOUS
<1>7. IsFiniteSet(all)
  <2>1. IsFiniteSet(heads)
    <3>1. CASE H = {}
      BY <3>1, FS_EmptySet
    <3>2. CASE \E k : H = {k}
      <4>1. PICK k : H = {k}
        BY <3>2
      <4>2. heads = {[cursor |-> cursor + 1, kind |-> k, seq |-> 0]}
        BY <4>1
      <4>3. \A x : IsFiniteSet({x})
        BY FS_Singleton
      <4> HIDE DEF heads
      <4> QED BY <4>2, <4>3
    <3> QED BY <3>1, <3>2
  <2>2. IsFiniteSet(tails)
    <3> DEFINE f == [e \in F |-> [cursor |-> base + Rank(e, F), kind |-> "agent", seq |-> e]]
    <3>1. f \in Surjection(F, tails)
      BY DEF Surjection
    <3> QED BY <3>1, <1>2, FS_Surjection
  <2> HIDE DEF heads, tails
  <2> QED BY <2>1, <2>2, FS_Union
<1> HIDE DEF heads, tails
<1>8. \A x \in all : x.cursor \in Nat
  BY <1>2, <1>3, <1>4, <1>5
<1>9. \A x \in journal', y \in all : y.cursor > x.cursor => y \in journal'
  BY <1>1, <1>7, <1>8, NewestKept
<1>10. journal' \in SUBSET all
  BY <1>1 DEF Newest
<1>11. IsFiniteSet(journal')
  BY <1>7, <1>10, FS_Subset
<1>12. \A x \in ConnectionEvents' : x \in ConnectionEvents \/ (x.cursor = cursor + 1 /\ x.kind \in H)
  <2> SUFFICES ASSUME NEW x \in ConnectionEvents'
               PROVE  x \in ConnectionEvents \/ (x.cursor = cursor + 1 /\ x.kind \in H)
    OBVIOUS
  <2>1. x \in all /\ x.kind \in {"lost", "restored"}
    BY <1>10 DEF ConnectionEvents
  <2>2. x \notin tails
    BY <2>1, <1>5
  <2> QED BY <2>1, <2>2, <1>4 DEF ConnectionEvents
<1>13. \A k \in H \cap {"lost", "restored"} :
         \A x \in ConnectionEvents' : x \in ConnectionEvents =>
            \E h \in ConnectionEvents' : h.cursor = cursor + 1 /\ h.kind = k
  <2> SUFFICES ASSUME NEW k \in H \cap {"lost", "restored"}, NEW x \in ConnectionEvents',
                      x \in ConnectionEvents
               PROVE  \E h \in ConnectionEvents' : h.cursor = cursor + 1 /\ h.kind = k
    OBVIOUS
  <2>1. PICK h \in heads : h.cursor = cursor + 1 /\ h.kind = k
    BY <1>6
  <2>2. x \in journal' /\ x \in journal
    BY DEF ConnectionEvents
  <2>3. h.cursor > x.cursor
    BY <2>1, <2>2, <1>2, <1>3
  <2>4. h \in journal'
    BY <2>2, <2>3, <1>9
  <2> QED BY <2>1, <2>4 DEF ConnectionEvents
<1>14. \A x \in ConnectionEvents', y \in ConnectionEvents :
         y.cursor > x.cursor => y \in ConnectionEvents'
  BY <1>9 DEF ConnectionEvents
<1> QED BY <1>11, <1>12, <1>13, <1>14

\* A loss is announced to a session in contact, a return to one that was lost, and nothing
\* else changes the state.
LEMMA ConnectionStep ==
  ASSUME TypeOK, TypeOK', HistoryInv, ConnectionInv,
         NEW H, H \in {{}, {"started"}, {"lost"}, {"restored"}},
         NEW F \in SUBSET Seqs, Add(H, F),
         known',
         H = {"lost"} => ~disconnected /\ disconnected',
         H = {"restored"} => disconnected /\ ~disconnected',
         H \in {{}, {"started"}} => (disconnected' <=> disconnected)
  PROVE  ConnectionInv'
<1> DEFINE C == ConnectionEvents
           Later(a, S) == {b \in S : b.cursor > a.cursor}
<1>1. IsFiniteSet(journal)
  BY DEF ConnectionInv
<1>2. /\ IsFiniteSet(journal')
      /\ \A x \in C' : x \in C \/ (x.cursor = cursor + 1 /\ x.kind \in H)
      /\ \A k \in H \cap {"lost", "restored"} :
           \A x \in C' : x \in C => \E h \in C' : h.cursor = cursor + 1 /\ h.kind = k
      /\ \A x \in C', y \in C : y.cursor > x.cursor => y \in C'
  BY <1>1, AddConnection DEF HistoryInv
<1>3. cursor \in Nat /\ \A x \in C : x.cursor \in Nat /\ x.cursor <= cursor
  BY DEF HistoryInv, JournalInv, TypeOK, LogType, Entry, ConnectionEvents
<1>4. \A x \in C' : x.kind \in {"lost", "restored"}
  BY DEF ConnectionEvents
<1>5. disconnected \in BOOLEAN /\ disconnected' \in BOOLEAN
  BY DEF TypeOK, HubType
<1>6. \A a \in C : IF Later(a, C) = {} THEN disconnected = (a.kind = "lost")
                   ELSE \E b \in Later(a, C) : /\ \A d \in Later(a, C) : b.cursor <= d.cursor
                                               /\ b.kind # a.kind
  BY DEF ConnectionInv, ConnectionAlternates
<1>7. \A a \in C : a.kind \in {"lost", "restored"}
  BY DEF ConnectionEvents
<1> HIDE DEF C
<1>8. ASSUME NEW a \in C'
      PROVE  IF Later(a, C') = {} THEN disconnected' = (a.kind = "lost")
             ELSE \E b \in Later(a, C') : /\ \A d \in Later(a, C') : b.cursor <= d.cursor
                                          /\ b.kind # a.kind
  <2>1. CASE a \notin C
    <3>1. a.cursor = cursor + 1 /\ a.kind \in H /\ a.kind \in {"lost", "restored"}
      BY <2>1, <1>2, <1>4
    <3>2. Later(a, C') = {}
      BY <3>1, <1>2, <1>3
    <3>3. disconnected' = (a.kind = "lost")
      BY <3>1, <1>5
    <3> QED BY <3>2, <3>3
  <2>2. CASE a \in C /\ Later(a, C) # {}
    <3>1. PICK b \in Later(a, C) : (\A d \in Later(a, C) : b.cursor <= d.cursor) /\ b.kind # a.kind
      BY <2>2, <1>6
    <3>2. b \in Later(a, C')
      BY <3>1, <1>2
    <3>3. \A d \in Later(a, C') : b.cursor <= d.cursor
      BY <3>1, <1>2, <1>3
    <3> QED BY <3>1, <3>2, <3>3
  <2>3. CASE a \in C /\ Later(a, C) = {} /\ H \in {{"lost"}, {"restored"}}
    <3>1. PICK k : k \in H /\ k \in {"lost", "restored"} /\ H = {k}
      BY <2>3
    <3>2. PICK h \in C' : h.cursor = cursor + 1 /\ h.kind = k
      BY <2>3, <3>1, <1>2
    <3>3. disconnected = (a.kind = "lost")
      BY <2>3, <1>6
    <3>4. h.kind # a.kind
      BY <3>1, <3>2, <3>3, <2>3, <1>5, <1>7
    <3>5. h \in Later(a, C')
      BY <3>2, <1>3, <2>3
    <3>6. \A d \in Later(a, C') : h.cursor <= d.cursor
      BY <3>2, <2>3, <1>2, <1>3
    <3> QED BY <3>4, <3>5, <3>6
  <2>4. CASE a \in C /\ Later(a, C) = {} /\ H \in {{}, {"started"}}
    <3>1. Later(a, C') = {}
      BY <2>4, <1>2, <1>3, <1>4
    <3>2. disconnected' = (a.kind = "lost")
      BY <2>4, <1>5, <1>6
    <3> QED BY <3>1, <3>2
  <2> QED BY <2>1, <2>2, <2>3, <2>4
<1>9. ConnectionAlternates'
  <2> USE DEF C
  <2> QED BY <1>8 DEF ConnectionAlternates
<1> QED BY <1>2, <1>9 DEF ConnectionInv

LEMMA ConnectionNext == TypeOK /\ TypeOK' /\ HistoryInv /\ ConnectionInv /\ [Next]_vars => ConnectionInv'
<1> SUFFICES ASSUME TypeOK, TypeOK', HistoryInv, ConnectionInv, [Next]_vars PROVE ConnectionInv'
  OBVIOUS
<1>1. ASSUME UNCHANGED <<journal, known, disconnected>> PROVE ConnectionInv'
  BY <1>1 DEF ConnectionInv, ConnectionAlternates, ConnectionEvents
<1>2. ASSUME Agent \/ UNCHANGED vars PROVE ConnectionInv'
  <2>1. UNCHANGED <<hubVars, logVars>>
    BY <1>2 DEF Agent, RaiseEvent, BeginPump, EndPump, PumpExpired, PumpRejected, PumpControl,
       PumpQueued, Deliver, LeaseExpires, RunDiagnostic, BeginShutdown, Halt, StartExchange,
       FailExchange, HandleAnswer, vars
  <2> QED BY <2>1, <1>1 DEF hubVars, logVars
<1>3. ASSUME \/ Tick \/ BeginClose \/ EndClose
             \/ \E p \in orphans : LoseOrphan(p)
             \/ \E c \in Command : Submit(c) \/ Refuse(c) \/ Expire(c)
      PROVE ConnectionInv'
  <2>1. UNCHANGED <<journal, known, disconnected>>
    BY <1>3 DEF Tick, BeginClose, EndClose, LoseOrphan, Submit, Refuse, Expire, hubVars, logVars
  <2> QED BY <2>1, <1>1
<1>4. ASSUME NEW p \in orphans \cup {packet}, Accept(p) PROVE ConnectionInv'
  <2>1. p \in Packet
    BY DEF TypeOK, LinkType
  <2>2. NewEvents(p) \in SUBSET Seqs
    BY <2>1 DEF NewEvents, Packet
  <2>3. Add(Header, NewEvents(p)) /\ known' /\ ~disconnected'
    BY <1>4 DEF Accept
  <2>4. /\ Header \in {{}, {"started"}, {"lost"}, {"restored"}}
        /\ Header # {"lost"}
        /\ Header = {"restored"} => disconnected
        /\ Header \in {{}, {"started"}} => ~disconnected
    BY DEF Header, ConnectionInv
  <2> QED BY <2>2, <2>3, <2>4, ConnectionStep
<1>5. ASSUME Monitor PROVE ConnectionInv'
  <2>1. Add({"lost"}, {}) /\ known' /\ ~disconnected /\ disconnected'
    BY <1>5 DEF Monitor
  <2> QED BY <2>1, ConnectionStep
<1> QED
  BY <1>2, <1>3, <1>4, <1>5 DEF Next, Hub, AcceptCurrent, AcceptOrphan

\* connection_lost and connection_restored alternate in what is kept of the journal, and the
\* newest of them agrees with the session's state, whatever requests come late.
THEOREM Alternating == Spec => []ConnectionAlternates
<1>1. Init => ConnectionInv
  BY FS_EmptySet DEF Init, ConnectionInv, ConnectionAlternates, ConnectionEvents
<1>2. ConnectionInv => ConnectionAlternates
  BY DEF ConnectionInv
<1> QED BY <1>1, <1>2, InitHistory, EventStep, ConnectionNext, Typing, PTL DEF Spec
-----------------------------------------------------------------------------
(* A command takes effect at most once, its caller is told the truth, and   *)
(* the bridge implements CommandDelivery.  The inductive invariant follows  *)
(* a command from the answer that brings it through the agent's queues to   *)
(* its one completion.                                                      *)

\* The commands on their way to their completion: in the answer, queued, or running.
Carried == {c \in Command : \/ answer.cmd = c \/ c \in running
                            \/ c \in Members(inbox) \/ c \in Members(ioJobs)}

\* A command is in one place, once.
OnePlace ==
  /\ Distinct(inbox) /\ Distinct(ioJobs)
  /\ Members(inbox) \cap Members(ioJobs) = {}
  /\ running \cap (Members(inbox) \cup Members(ioJobs)) = {}
  /\ answer.cmd \notin running \cup Members(inbox) \cup Members(ioJobs)

\* The results that are queued or sent, also in late requests.
Reported == {c \in Command : c \in results \/ \E p \in orphans \cup {packet} : c \in p.done}

\* A command that is not handed out or still on its way has neither effect nor result.
Untouched(c) == finished[c] = 0 /\ effects[c] = 0
Concluded(c) ==
  /\ finished[c] > 0 /\ verdict[c] \in Verdict
  /\ effects[c] \in {0, 1}
  /\ verdict[c] = "ok" => effects[c] = 1

WorkInv ==
  /\ \A c \in Command : Untouched(c) \/ Concluded(c)
  /\ \A c \in Carried : c \in handed /\ Untouched(c)
  /\ \A c \in Command : c \notin handed => Untouched(c)
  /\ \A c \in Reported : Concluded(c)

\* What the caller was told agrees with where the command is.
ReplyInv ==
  \A c \in Command :
    /\ reply[c] \in {"none", "refused"} => c \notin handed /\ c \notin table
    /\ c \in table => reply[c] \in {"open", "closed"}
    /\ reply[c] = "ok" => effects[c] = 1
    /\ reply[c] \in {"ok", "error"} => Concluded(c)
    /\ reply[c] = "timeout" => age[c] = Expiry

DeliveryInv == OnePlace /\ WorkInv /\ ReplyInv

\* One command's part of a step of CommandDelivery.
StepOf(c) == Delivery!Call(c) \/ Delivery!Act(c) \/ Delivery!Report(c) \/ Delivery!Same(c)
-----------------------------------------------------------------------------
LEMMA InitWork == Init => DeliveryInv
<1> SUFFICES ASSUME Init PROVE DeliveryInv
  OBVIOUS
<1>1. Members(<< >>) = {} /\ Distinct(<< >>)
  BY DEF Members, Distinct
<1>2. OnePlace
  BY <1>1 DEF Init, OnePlace
<1>3. Carried = {} /\ Reported = {}
  BY <1>1, CommandAssumption DEF Init, Carried, Reported, NoAnswer, NoPacket
<1>4. WorkInv
  BY <1>3 DEF Init, WorkInv, Untouched
<1>5. ReplyInv
  BY DEF Init, ReplyInv
<1> QED BY <1>2, <1>4, <1>5 DEF DeliveryInv

\* A step that only moves commands from place to place, or drops some.
LEMMA Moved ==
  ASSUME DeliveryInv, OnePlace', Carried' \subseteq Carried, Reported' \subseteq Reported,
         UNCHANGED <<verdict, finished, effects, callVars>>
  PROVE  DeliveryInv' /\ \A d \in Command : StepOf(d)
<1> USE DEF DeliveryInv, callVars
<1>1. \A d \in Command : Untouched(d)' = Untouched(d) /\ Concluded(d)' = Concluded(d)
  BY DEF Untouched, Concluded
<1>2. Carried \subseteq Command /\ Reported \subseteq Command
  BY DEF Carried, Reported
<1>3. WorkInv'
  BY <1>1, <1>2 DEF WorkInv
<1>4. ReplyInv'
  BY <1>1 DEF ReplyInv
<1> QED BY <1>3, <1>4 DEF StepOf, Delivery!Same

\* A step that completes a command that was on its way, with or without its effect.
LEMMA Finished ==
  ASSUME TypeOK, DeliveryInv, NEW c \in Carried, NEW v \in Verdict, NEW R \in SUBSET Command,
         Complete(c, v, R), TakeEffect(c) \/ (v = "error" /\ effects' = effects),
         OnePlace', Carried' \subseteq Carried \ {c}, Reported' \subseteq Reported \cup {c},
         UNCHANGED callVars
  PROVE  DeliveryInv' /\ \A d \in Command : StepOf(d)
<1> USE DEF DeliveryInv, callVars
<1>1. Carried \subseteq Command /\ Reported \subseteq Command
  BY DEF Carried, Reported
<1>2. c \in Command /\ c \in handed /\ Untouched(c)
  BY <1>1 DEF WorkInv
<1>3. PICK n \in Nat \ {0} : finished' = [finished EXCEPT ![c] = n]
  BY <1>2, CompleteType
<1>4. verdict' = [verdict EXCEPT ![c] = v]
  BY DEF Complete
<1>5. /\ finished'[c] > 0 /\ verdict'[c] = v
      /\ effects'[c] \in {0, 1} /\ (v = "ok" => effects'[c] = 1)
  BY <1>2, <1>3, <1>4 DEF TypeOK, WorkType, TakeEffect, Untouched, Verdict
<1>6. Concluded(c)'
  BY <1>5 DEF Concluded
<1>7. ASSUME NEW d \in Command, d # c
      PROVE  /\ finished'[d] = finished[d] /\ verdict'[d] = verdict[d]
             /\ effects'[d] = effects[d]
             /\ Untouched(d)' = Untouched(d) /\ Concluded(d)' = Concluded(d)
  <2>1. /\ finished'[d] = finished[d] /\ verdict'[d] = verdict[d]
        /\ effects'[d] = effects[d]
    BY <1>2, <1>3, <1>4, <1>7 DEF TypeOK, WorkType, TakeEffect
  <2> QED BY <2>1 DEF Untouched, Concluded
<1>8. WorkInv'
  BY <1>1, <1>2, <1>6, <1>7 DEF WorkInv
<1>9. reply[c] \in {"open", "timeout", "closed"}
  BY <1>2 DEF ReplyInv, TypeOK, CallType, Untouched, Concluded
<1>10. ReplyInv'
  BY <1>6, <1>7, <1>9 DEF ReplyInv
<1>11. StepOf(c)
  <2>1. CASE effects'[c] = effects[c]
    BY <2>1 DEF StepOf, Delivery!Same
  <2>2. CASE effects'[c] # effects[c]
    BY <2>2, <1>2, <1>5, <1>9 DEF Untouched, StepOf, Delivery!Act
  <2> QED BY <2>1, <2>2
<1>12. \A d \in Command : d # c => StepOf(d)
  BY <1>7 DEF StepOf, Delivery!Same
<1> QED BY <1>8, <1>10, <1>11, <1>12
-----------------------------------------------------------------------------
(* Where the commands are after each queue has moved.                      *)

LEMMA InboxPopped ==
  ASSUME TypeOK, OnePlace, inbox # << >>, inbox' = Tail(inbox),
         running' \subseteq running, UNCHANGED <<ioJobs, answer>>
  PROVE  Head(inbox) \in Carried /\ OnePlace' /\ Carried' \subseteq Carried \ {Head(inbox)}
<1>1. /\ Head(inbox) \in Command /\ Head(inbox) \in Members(inbox)
      /\ Distinct(inbox') /\ Members(inbox') = Members(inbox) \ {Head(inbox)}
  BY TailMembers DEF OnePlace, TypeOK, WorkType
<1>2. Distinct(ioJobs)' /\ Members(ioJobs)' = Members(ioJobs) /\ Members(inbox)' = Members(inbox')
  BY DEF OnePlace, Distinct, Members
<1>3. OnePlace'
  BY <1>1, <1>2 DEF OnePlace, Distinct
<1>4. Carried' \subseteq Carried \ {Head(inbox)}
  BY <1>1, <1>2 DEF Carried, OnePlace
<1> QED BY <1>1, <1>3, <1>4 DEF Carried

LEMMA JobPopped ==
  ASSUME TypeOK, OnePlace, ioJobs # << >>, ioJobs' = Tail(ioJobs),
         UNCHANGED <<inbox, running, answer>>
  PROVE  Head(ioJobs) \in Carried /\ OnePlace' /\ Carried' \subseteq Carried \ {Head(ioJobs)}
<1>1. /\ Head(ioJobs) \in Command /\ Head(ioJobs) \in Members(ioJobs)
      /\ Distinct(ioJobs') /\ Members(ioJobs') = Members(ioJobs) \ {Head(ioJobs)}
  BY TailMembers DEF OnePlace, TypeOK, WorkType
<1>2. Distinct(inbox)' /\ Members(inbox)' = Members(inbox) /\ Members(ioJobs)' = Members(ioJobs')
  BY DEF OnePlace, Distinct, Members
<1>3. OnePlace'
  BY <1>1, <1>2 DEF OnePlace, Distinct
<1>4. Carried' \subseteq Carried \ {Head(ioJobs)}
  BY <1>1, <1>2 DEF Carried, OnePlace
<1> QED BY <1>1, <1>3, <1>4 DEF Carried
-----------------------------------------------------------------------------
(* accept(): the reported commands are settled, one command is handed out.  *)

LEMMA AcceptCalls ==
  ASSUME TypeOK, DeliveryInv, NEW p \in Packet, \A c \in p.done : Concluded(c),
         Accept(p), UNCHANGED workVars
  PROVE  /\ ReplyInv' /\ \A d \in Command : StepOf(d)
         /\ handed' = handed \cup ({NextCommand(p.done)} \ {NoCommand})
         /\ NextCommand(p.done) \in Command => NextCommand(p.done) \notin handed
<1> USE DEF DeliveryInv, workVars
<1> DEFINE n == NextCommand(p.done)
<1>1. n = NoCommand \/ n \in (table \ handed) \ p.done
  BY NextCommandType
<1>2. /\ handed' = handed \cup ({n} \ {NoCommand}) /\ table' = table \ p.done /\ age' = age
      /\ \A c \in Command :
           reply'[c] = IF c \in table \cap p.done /\ reply[c] = "open" THEN verdict[c] ELSE reply[c]
  BY DEF Accept
<1> HIDE DEF n
<1>3. \A d \in Command : Concluded(d)' = Concluded(d)
  BY DEF Concluded
<1>4. table \subseteq Command /\ NoCommand \notin Command
  BY CommandAssumption DEF TypeOK, CallType
<1>5. \A d \in p.done : verdict[d] \in {"ok", "error"} /\ (verdict[d] = "ok" => effects[d] = 1)
  BY DEF Concluded, Verdict
<1>6. ASSUME NEW d \in Command
      PROVE  /\ reply'[d] \in {"none", "refused"} => d \notin handed' /\ d \notin table'
             /\ d \in table' => reply'[d] \in {"open", "closed"}
             /\ reply'[d] = "ok" => effects'[d] = 1
             /\ reply'[d] \in {"ok", "error"} => Concluded(d)'
             /\ reply'[d] = "timeout" => age'[d] = Expiry
             /\ StepOf(d)
  <2>1. CASE d \in table \cap p.done /\ reply[d] = "open"
    <3>1. reply'[d] = verdict[d] /\ verdict[d] \in {"ok", "error"} /\ d \notin table'
          /\ effects' = effects /\ (verdict[d] = "ok" => effects[d] = 1) /\ Concluded(d)'
      BY <2>1, <1>2, <1>3, <1>5
    <3>2. StepOf(d)
      BY <2>1, <3>1 DEF StepOf, Delivery!Report
    <3> QED BY <3>1, <3>2
  <2>2. CASE ~(d \in table \cap p.done /\ reply[d] = "open")
    <3>1. reply'[d] = reply[d] /\ effects' = effects
      BY <2>2, <1>2
    <3>2. d \in handed' => d \in handed \/ d \in table
      BY <1>1, <1>2
    <3>3. StepOf(d)
      BY <3>1 DEF StepOf, Delivery!Same
    <3> QED BY <3>1, <3>2, <3>3, <1>2, <1>3 DEF ReplyInv
  <2> QED BY <2>1, <2>2
<1>7. ReplyInv'
  BY <1>6 DEF ReplyInv
<1>8. n \in Command => n \notin handed
  BY <1>1, <1>4
<1> QED BY <1>2, <1>6, <1>7, <1>8 DEF n

\* A step of the hub that touches no command of the agent.
LEMMA Called ==
  ASSUME DeliveryInv, ReplyInv', handed' = handed, UNCHANGED <<workVars, linkVars>>
  PROVE  DeliveryInv'
<1> USE DEF DeliveryInv, workVars, linkVars
<1>1. OnePlace' /\ Carried' = Carried /\ Reported' = Reported
  BY DEF OnePlace, Carried, Reported, Distinct, Members
<1>2. \A d \in Command : Untouched(d)' = Untouched(d) /\ Concluded(d)' = Concluded(d)
  BY DEF Untouched, Concluded
<1>3. WorkInv'
  BY <1>1, <1>2 DEF WorkInv, Carried, Reported
<1> QED BY <1>1, <1>3
-----------------------------------------------------------------------------
(* The invariant and the refinement step, one step per action.             *)

\* The packets on their way shrink, or the current one joins the late ones.
LEMMA ReportedSame ==
  ASSUME UNCHANGED <<orphans, packet>>, NEW R, results' \subseteq results \cup R
  PROVE  Reported' \subseteq Reported \cup R
BY DEF Reported

LEMMA DeliveryStep == TypeOK /\ DeliveryInv /\ [Next]_vars => DeliveryInv' /\ \A d \in Command : StepOf(d)
<1> SUFFICES ASSUME TypeOK, DeliveryInv, [Next]_vars
             PROVE  DeliveryInv' /\ \A d \in Command : StepOf(d)
  OBVIOUS
<1> DEFINE Goal == DeliveryInv' /\ \A d \in Command : StepOf(d)
<1>a. OnePlace /\ WorkInv /\ ReplyInv
  BY DEF DeliveryInv
<1>b. Members(inbox) \subseteq Command /\ Members(ioJobs) \subseteq Command
      /\ NoCommand \notin Command /\ running \subseteq Command /\ results \subseteq Command
  BY CommandAssumption DEF Members, TypeOK, WorkType
\* An action that leaves work and calls alone, and sends at most what is queued.
<1>c. ASSUME UNCHANGED <<workVars, callVars>>, answer' \in {answer, NoAnswer},
             \A p \in orphans' \cup {packet'} : p \in orphans \cup {packet, NoPacket}
                                                 \/ p.done \subseteq results
      PROVE  Goal
  <2> USE DEF workVars
  <2>1. Members(inbox)' = Members(inbox) /\ Members(ioJobs)' = Members(ioJobs)
        /\ Distinct(inbox)' = Distinct(inbox) /\ Distinct(ioJobs)' = Distinct(ioJobs)
    BY <1>c DEF Members, Distinct
  <2>2. answer'.cmd = answer.cmd \/ answer'.cmd = NoCommand
    BY <1>c DEF NoAnswer
  <2>3. OnePlace'
    BY <1>a, <1>b, <1>c, <2>1, <2>2 DEF OnePlace
  <2>4. Carried' \subseteq Carried
    BY <1>b, <1>c, <2>1, <2>2 DEF Carried
  <2>5. Reported' \subseteq Reported
    BY <1>c DEF Reported, NoPacket
  <2> QED BY <2>3, <2>4, <2>5, <1>c, Moved
<1>1. CASE RaiseEvent \/ BeginShutdown \/ BeginPump \/ EndPump
  BY <1>1, <1>c DEF RaiseEvent, BeginShutdown, BeginPump, EndPump, linkVars
<1>2. CASE PumpExpired \/ PumpRejected
  <2>1. OnePlace' /\ Head(inbox) \in Carried /\ Carried' \subseteq Carried \ {Head(inbox)}
    BY <1>2, <1>a, InboxPopped DEF PumpExpired, PumpRejected, Pumping, linkVars
  <2>2. Complete(Head(inbox), "error", results) /\ effects' = effects /\ UNCHANGED callVars
        /\ UNCHANGED <<orphans, packet>>
    BY <1>2 DEF PumpExpired, PumpRejected, linkVars
  <2>3. results' \subseteq results \cup {Head(inbox)}
    BY <2>2 DEF Complete
  <2>4. Reported' \subseteq Reported \cup {Head(inbox)}
    BY <2>2, <2>3, ReportedSame
  <2> QED BY <2>1, <2>2, <2>4, <1>b, Finished DEF Verdict
<1>3. CASE PumpControl
  <2>1. OnePlace' /\ Head(inbox) \in Carried /\ Carried' \subseteq Carried \ {Head(inbox)}
    BY <1>3, <1>a, InboxPopped DEF PumpControl, Pumping, linkVars
  <2>2. Complete(Head(inbox), "ok", results) /\ TakeEffect(Head(inbox)) /\ UNCHANGED callVars
        /\ UNCHANGED <<orphans, packet>>
    BY <1>3 DEF PumpControl, linkVars
  <2>3. results' \subseteq results \cup {Head(inbox)}
    BY <2>2 DEF Complete
  <2>4. Reported' \subseteq Reported \cup {Head(inbox)}
    BY <2>2, <2>3, ReportedSame
  <2> QED BY <2>1, <2>2, <2>4, <1>b, Finished DEF Verdict
<1>4. CASE PumpQueued
  <2>1. /\ Head(inbox) \in Command /\ Head(inbox) \in Members(inbox)
        /\ Distinct(inbox') /\ Members(inbox') = Members(inbox) \ {Head(inbox)}
    BY <1>4, <1>a, TailMembers DEF PumpQueued, Pumping, OnePlace, TypeOK, WorkType
  <2>2. /\ running' = running \cup {Head(inbox)} /\ answer' = answer
        /\ Distinct(ioJobs)' = Distinct(ioJobs) /\ Members(ioJobs)' = Members(ioJobs)
        /\ Members(inbox)' = Members(inbox') /\ Distinct(inbox)' = Distinct(inbox')
    BY <1>4 DEF PumpQueued, linkVars, Members, Distinct
  <2>3. OnePlace'
    BY <1>a, <2>1, <2>2 DEF OnePlace
  <2>4. Carried' \subseteq Carried
    BY <2>1, <2>2 DEF Carried
  <2>5. Reported' \subseteq Reported
    BY <1>4 DEF PumpQueued, linkVars, Reported
  <2> QED BY <2>3, <2>4, <2>5, <1>4, Moved DEF PumpQueued
<1>5. ASSUME NEW c \in Command, Deliver(c) PROVE Goal
  <2>1. PICK v \in Verdict : Complete(c, v, results)
    BY <1>5 DEF Deliver
  <2>2. /\ c \in running /\ running' = running \ {c} /\ TakeEffect(c) /\ UNCHANGED callVars
        /\ UNCHANGED <<inbox, ioJobs, answer, orphans, packet>>
    BY <1>5 DEF Deliver, linkVars
  <2>3. Members(inbox)' = Members(inbox) /\ Members(ioJobs)' = Members(ioJobs)
        /\ Distinct(inbox)' = Distinct(inbox) /\ Distinct(ioJobs)' = Distinct(ioJobs)
    BY <2>2 DEF Members, Distinct
  <2>4. OnePlace' /\ c \in Carried /\ Carried' \subseteq Carried \ {c}
    BY <1>a, <2>2, <2>3 DEF OnePlace, Carried
  <2>5. results' \subseteq results \cup {c}
    BY <2>1 DEF Complete
  <2>6. Reported' \subseteq Reported \cup {c}
    BY <2>2, <2>5, ReportedSame
  <2> QED BY <2>1, <2>2, <2>4, <2>6, <1>b, Finished
<1>6. CASE LeaseExpires
  <2>1. Members(inbox)' = Members(inbox) /\ Members(ioJobs)' = Members(ioJobs)
        /\ Distinct(inbox)' = Distinct(inbox) /\ Distinct(ioJobs)' = Distinct(ioJobs)
    BY <1>6 DEF LeaseExpires, Members, Distinct
  <2>2. OnePlace' /\ Carried' \subseteq Carried
    BY <1>6, <1>a, <2>1 DEF LeaseExpires, linkVars, OnePlace, Carried
  <2>3. Reported' \subseteq Reported
    BY <1>6 DEF LeaseExpires, linkVars, Reported
  <2> QED BY <2>2, <2>3, <1>6, Moved DEF LeaseExpires
<1>7. CASE RunDiagnostic
  <2> DEFINE c == Head(ioJobs)
  <2>1. OnePlace' /\ c \in Carried /\ Carried' \subseteq Carried \ {c}
    BY <1>7, <1>a, JobPopped DEF RunDiagnostic, linkVars
  <2>2. UNCHANGED callVars /\ UNCHANGED <<orphans, packet>>
    BY <1>7 DEF RunDiagnostic, linkVars
  <2>3. \E v \in Verdict : /\ Complete(c, v, results)
                          /\ (TakeEffect(c) \/ (v = "error" /\ effects' = effects))
    <3>1. CASE TakeEffect(c) /\ \E v \in Verdict : Complete(c, v, results)
      BY <3>1
    <3>2. CASE UNCHANGED effects /\ Complete(c, "error", results)
      BY <3>2 DEF Verdict
    <3> QED BY <1>7, <3>1, <3>2 DEF RunDiagnostic
  <2> HIDE DEF c
  <2>4. PICK v \in Verdict : /\ Complete(c, v, results)
                            /\ (TakeEffect(c) \/ (v = "error" /\ effects' = effects))
    BY <2>3
  <2>5. Complete(c, v, results)
    BY <2>4
  <2>6. TakeEffect(c) \/ (v = "error" /\ effects' = effects)
    BY <2>4
  <2>7. results' \subseteq results \cup {c}
    BY <2>5 DEF Complete
  <2>8. Reported' \subseteq Reported \cup {c}
    BY <2>2, <2>7, ReportedSame
  <2> QED BY <2>1, <2>2, <2>5, <2>6, <2>8, <1>b, Finished
<1>8. CASE Halt
  BY <1>8, <1>c DEF Halt
<1>9. ASSUME NEW hook \in BOOLEAN, StartExchange(hook) PROVE Goal
  <2>1. packet'.done = results /\ orphans' = orphans /\ answer' = answer
        /\ UNCHANGED <<workVars, callVars>>
    BY <1>9 DEF StartExchange
  <2> QED BY <2>1, <1>c
<1>10. CASE FailExchange
  BY <1>10, <1>c DEF FailExchange, EndExchange
<1>11. CASE HandleAnswer
  <2> DEFINE c == answer.cmd
             left == results \ packet.done
  <2>1. /\ answer' = NoAnswer /\ packet' = NoPacket
        /\ UNCHANGED <<running, effects, orphans, callVars>>
    BY <1>11 DEF HandleAnswer, EndExchange
  <2>2. New(c) => c \in Carried /\ c \in Command
    BY DEF New, TypeOK, LinkType, Answer, Carried
  <2>3. answer'.cmd = NoCommand
    BY <2>1 DEF NoAnswer
  <2>4. ASSUME NEW R, results' \subseteq results \cup R
        PROVE  Reported' \subseteq Reported \cup R
    BY <2>1, <2>4 DEF Reported, NoPacket
  <2>5. CASE UNCHANGED <<inbox, ioJobs>>
    <3>1. Members(inbox)' = Members(inbox) /\ Members(ioJobs)' = Members(ioJobs)
          /\ Distinct(inbox)' = Distinct(inbox) /\ Distinct(ioJobs)' = Distinct(ioJobs)
      BY <2>5 DEF Members, Distinct
    <3>2. OnePlace'
      BY <1>a, <1>b, <2>1, <2>3, <3>1 DEF OnePlace
    <3>3. Carried' \subseteq Carried \ {c}
      BY <1>a, <1>b, <2>1, <2>3, <3>1 DEF OnePlace, Carried
    <3>4. CASE results' = left /\ UNCHANGED <<verdict, finished>>
      <4>1. Reported' \subseteq Reported
        BY <3>4, <2>4
      <4> QED BY <3>2, <3>3, <3>4, <4>1, <2>1, Moved
    <3>5. CASE New(c) /\ Complete(c, "error", left)
      <4>1. results' \subseteq results \cup {c} /\ left \in SUBSET Command
        BY <1>b, <3>5 DEF Complete
      <4>2. Reported' \subseteq Reported \cup {c}
        BY <4>1, <2>4
      <4> HIDE DEF c, left
      <4> QED BY <4>1, <4>2, <2>1, <2>2, <3>2, <3>3, <3>5, Finished DEF Verdict
    <3> QED BY <1>11, <3>4, <3>5, <2>5 DEF HandleAnswer
  <2>6. CASE /\ New(c) /\ inbox' = Append(inbox, c) /\ results' = left
             /\ UNCHANGED <<ioJobs, verdict, finished>>
    <3>1. Members(inbox') = Members(inbox) \cup {c} /\ Distinct(inbox')
      BY <2>2, <2>6, <1>a, AppendMembers DEF OnePlace, TypeOK, WorkType
    <3>2. Members(ioJobs)' = Members(ioJobs) /\ Distinct(ioJobs)' = Distinct(ioJobs)
          /\ Members(inbox)' = Members(inbox') /\ Distinct(inbox)' = Distinct(inbox')
      BY <2>6 DEF Members, Distinct
    <3>3. OnePlace' /\ Carried' \subseteq Carried
      BY <1>a, <1>b, <2>1, <2>2, <2>3, <2>6, <3>1, <3>2 DEF OnePlace, Carried
    <3>4. Reported' \subseteq Reported
      BY <2>6, <2>4
    <3> QED BY <3>3, <3>4, <2>1, <2>6, Moved
  <2>7. CASE /\ New(c) /\ ioJobs' = Append(ioJobs, c) /\ results' = left
             /\ UNCHANGED <<inbox, verdict, finished>>
    <3>1. Members(ioJobs') = Members(ioJobs) \cup {c} /\ Distinct(ioJobs')
      BY <2>2, <2>7, <1>a, AppendMembers DEF OnePlace, TypeOK, WorkType
    <3>2. Members(inbox)' = Members(inbox) /\ Distinct(inbox)' = Distinct(inbox)
          /\ Members(ioJobs)' = Members(ioJobs') /\ Distinct(ioJobs)' = Distinct(ioJobs')
      BY <2>7 DEF Members, Distinct
    <3>3. OnePlace' /\ Carried' \subseteq Carried
      BY <1>a, <1>b, <2>1, <2>2, <2>3, <2>7, <3>1, <3>2 DEF OnePlace, Carried
    <3>4. Reported' \subseteq Reported
      BY <2>7, <2>4
    <3> QED BY <3>3, <3>4, <2>1, <2>7, Moved
  <2> QED BY <1>11, <2>5, <2>6, <2>7 DEF HandleAnswer
\* accept() of a packet on its way.
<1>d. ASSUME NEW p \in orphans \cup {packet}, Accept(p), UNCHANGED workVars
      PROVE  /\ ReplyInv' /\ \A d \in Command : StepOf(d)
             /\ handed' = handed \cup ({NextCommand(p.done)} \ {NoCommand})
             /\ NextCommand(p.done) \in Command => NextCommand(p.done) \notin handed
  <2>1. p \in Packet
    BY DEF TypeOK, LinkType
  <2>2. p.done \subseteq Command
    BY <2>1 DEF Packet
  <2>3. \A d \in p.done : Concluded(d)
    BY <1>a, <2>2 DEF WorkInv, Reported
  <2> QED BY <1>d, <2>1, <2>3, AcceptCalls
<1>e. UNCHANGED workVars =>
        /\ Members(inbox)' = Members(inbox) /\ Members(ioJobs)' = Members(ioJobs)
        /\ Distinct(inbox)' = Distinct(inbox) /\ Distinct(ioJobs)' = Distinct(ioJobs)
        /\ \A d \in Command : Untouched(d)' = Untouched(d) /\ Concluded(d)' = Concluded(d)
  BY DEF workVars, Members, Distinct, Untouched, Concluded
<1>12. CASE AcceptCurrent
  <2> DEFINE n == NextCommand(packet.done)
  <2>1. Accept(packet) /\ UNCHANGED workVars /\ answer'.cmd = n /\ UNCHANGED <<orphans, packet>>
    BY <1>12 DEF AcceptCurrent
  <2>2. /\ ReplyInv' /\ \A d \in Command : StepOf(d)
        /\ handed' = handed \cup ({n} \ {NoCommand}) /\ (n \in Command => n \notin handed)
    BY <1>d, <2>1
  <2> HIDE DEF n
  <2>3. n \in Command => Untouched(n) /\ n \notin Carried
    BY <1>a, <2>2 DEF WorkInv
  <2>4. OnePlace'
    BY <1>a, <1>b, <1>e, <2>1, <2>3 DEF OnePlace, Carried, workVars
  <2>5. Carried' \subseteq Carried \cup {n} /\ Reported' \subseteq Reported
    BY <1>e, <2>1 DEF Carried, Reported, workVars
  <2>6. WorkInv'
    <3>1. \A d \in Carried' : d \in Command
      BY DEF Carried
    <3>2. \A d \in Carried' : d \in handed' /\ Untouched(d)
      BY <1>a, <1>b, <2>2, <2>3, <2>5, <3>1 DEF WorkInv
    <3>3. \A d \in Reported' : d \in Command
      BY DEF Reported
    <3> QED BY <1>a, <1>e, <2>1, <2>2, <2>5, <3>1, <3>2, <3>3 DEF WorkInv
  <2> QED BY <2>2, <2>4, <2>6 DEF DeliveryInv
<1>13. ASSUME NEW p \in orphans, AcceptOrphan(p) PROVE Goal
  <2>1. Accept(p) /\ UNCHANGED workVars /\ answer' = answer
        /\ packet' = packet /\ orphans' \subseteq orphans
    BY <1>13 DEF AcceptOrphan
  <2>2. ReplyInv' /\ (\A d \in Command : StepOf(d)) /\ handed \subseteq handed'
    BY <1>d, <2>1
  <2>3. OnePlace'
    BY <1>a, <1>e, <2>1 DEF OnePlace, workVars
  <2>4. Carried' = Carried /\ Reported' \subseteq Reported
    BY <1>e, <2>1 DEF Carried, Reported, workVars
  <2>5. WorkInv'
    <3>1. \A d \in Carried \cup Reported : d \in Command
      BY DEF Carried, Reported
    <3> QED BY <1>a, <1>e, <2>1, <2>2, <2>4, <3>1 DEF WorkInv
  <2> QED BY <2>2, <2>3, <2>5 DEF DeliveryInv
<1>14. ASSUME NEW p \in orphans, LoseOrphan(p) PROVE Goal
  BY <1>14, <1>c DEF LoseOrphan
<1>15. ASSUME NEW c \in Command, Submit(c) PROVE Goal
  <2>1. ReplyInv'
    BY <1>15, <1>a DEF Submit, ReplyInv, workVars, Concluded, TypeOK, CallType
  <2>2. \A d \in Command : StepOf(d)
    BY <1>15 DEF Submit, workVars, StepOf, Delivery!Call, Delivery!Same, TypeOK, CallType
  <2>3. handed' = handed /\ UNCHANGED <<workVars, linkVars>>
    BY <1>15 DEF Submit
  <2> QED BY <2>1, <2>2, <2>3, Called
<1>16. ASSUME NEW c \in Command, Refuse(c) PROVE Goal
  <2>1. ReplyInv'
    BY <1>16, <1>a DEF Refuse, ReplyInv, workVars, Concluded, TypeOK, CallType
  <2>2. \A d \in Command : StepOf(d)
    BY <1>16 DEF Refuse, workVars, StepOf, Delivery!Call, Delivery!Same, TypeOK, CallType
  <2>3. handed' = handed /\ UNCHANGED <<workVars, linkVars>>
    BY <1>16 DEF Refuse
  <2> QED BY <2>1, <2>2, <2>3, Called
<1>17. ASSUME NEW c \in Command, Expire(c) PROVE Goal
  <2>1. age[c] = Expiry
    BY <1>17, TimeAssumption DEF Expire, TypeOK, CallType, Expiry
  <2>2. ReplyInv'
    BY <1>17, <1>a, <2>1 DEF Expire, ReplyInv, workVars, Concluded, TypeOK, CallType
  <2>3. \A d \in Command : StepOf(d)
    BY <1>17 DEF Expire, workVars, StepOf, Delivery!Report, Delivery!Same, TypeOK, CallType
  <2>4. handed' = handed /\ UNCHANGED <<workVars, linkVars>>
    BY <1>17 DEF Expire
  <2> QED BY <2>2, <2>3, <2>4, Called
<1>18. CASE Monitor
  BY <1>18, <1>c DEF Monitor, linkVars
<1>19. CASE BeginClose
  <2>1. \A d \in Command :
          reply'[d] = IF d \in table /\ reply[d] = "open" THEN "closed" ELSE reply[d]
    BY <1>19 DEF BeginClose
  <2>2. ReplyInv'
    BY <1>19, <1>a, <2>1 DEF BeginClose, ReplyInv, workVars, Concluded
  <2>3. \A d \in Command : StepOf(d)
    BY <1>19, <2>1 DEF BeginClose, workVars, StepOf, Delivery!Report, Delivery!Same
  <2>4. handed' = handed /\ UNCHANGED <<workVars, linkVars>>
    BY <1>19 DEF BeginClose
  <2> QED BY <2>2, <2>3, <2>4, Called
<1>20. CASE EndClose
  BY <1>20, <1>c DEF EndClose
<1>21. CASE Tick
  <2>1. \A d \in Command : reply'[d] = reply[d] /\ (age[d] = Expiry => age'[d] = Expiry)
    BY <1>21, TimeAssumption DEF Tick, Expiry
  <2>2. handed' = handed /\ table' = table /\ UNCHANGED <<workVars, linkVars>>
    BY <1>21 DEF Tick
  <2>3. ReplyInv'
    BY <1>a, <2>1, <2>2 DEF ReplyInv, workVars, Concluded
  <2>4. \A d \in Command : StepOf(d)
    BY <2>1, <2>2 DEF workVars, StepOf, Delivery!Same
  <2> QED BY <2>2, <2>3, <2>4, Called
<1>22. CASE UNCHANGED vars
  BY <1>22, <1>c DEF vars, linkVars
<1> QED
  BY <1>1, <1>2, <1>3, <1>4, <1>5, <1>6, <1>7, <1>8, <1>9, <1>10, <1>11, <1>12, <1>13, <1>14,
     <1>15, <1>16, <1>17, <1>18, <1>19, <1>20, <1>21, <1>22 DEF Next, Agent, Hub
-----------------------------------------------------------------------------
LEMMA DeliveryInvariant == Spec => [](TypeOK /\ DeliveryInv)
<1>1. Init => TypeOK /\ DeliveryInv
  BY InitType, InitWork
<1>2. TypeOK /\ DeliveryInv /\ [Next]_vars => TypeOK' /\ DeliveryInv'
  BY TypeStep, DeliveryStep
<1> QED BY <1>1, <1>2, PTL DEF Spec

\* No command takes effect twice, whatever is lost, late or repeated.
THEOREM Once == Spec => []AtMostOnce
<1>1. TypeOK /\ DeliveryInv => AtMostOnce
  BY DEF DeliveryInv, WorkInv, Untouched, Concluded, AtMostOnce
<1> QED BY <1>1, DeliveryInvariant, PTL

\* Success is reported only after the one effect; what was refused never reaches the client.
THEOREM Truthful == Spec => []TruthfulReply
<1>1. TypeOK /\ DeliveryInv => TruthfulReply
  BY DEF DeliveryInv, WorkInv, ReplyInv, Untouched, TruthfulReply
<1> QED BY <1>1, DeliveryInvariant, PTL

\* What the running pump does not take for overdue was in time when it read its clock.
PumpInv ==
  pump.on => \A c \in Command \ (Diagnostic \cup pump.overdue) : age[c] <= CommandTTL + pump.time

LEMMA PumpStep == TypeOK /\ PumpInv /\ [Next]_vars => PumpInv'
<1> SUFFICES ASSUME TypeOK, PumpInv, [Next]_vars PROVE PumpInv'
  OBVIOUS
<1>1. CASE UNCHANGED <<pump, age>>
  BY <1>1 DEF PumpInv
<1>2. CASE BeginPump
  <2>1. age' = age /\ pump'.time = 0
        /\ pump'.overdue = {c \in Command \ Diagnostic : age[c] > CommandTTL}
    BY <1>2 DEF BeginPump, callVars
  <2>2. CommandTTL \in Nat /\ \A c \in Command : age[c] \in Nat
    BY TimeAssumption DEF TypeOK, CallType, Expiry
  <2> QED BY <2>1, <2>2 DEF PumpInv
<1>3. CASE EndPump \/ Halt
  BY <1>3 DEF EndPump, Halt, NoPump, PumpInv
<1>4. ASSUME NEW c \in Command, Submit(c) PROVE PumpInv'
  <2>1. pump' = pump /\ age' = [age EXCEPT ![c] = 0]
    BY <1>4 DEF Submit, agentVars
  <2>2. CommandTTL \in Nat /\ pump.time \in Nat /\ age \in [Command -> 0..Expiry]
    BY TimeAssumption DEF TypeOK, AgentType, CallType, Pump
  <2>3. \A d \in Command : age'[d] = 0 \/ age'[d] = age[d]
    BY <2>1, <2>2
  <2> QED BY <2>1, <2>2, <2>3 DEF PumpInv
<1>5. CASE Tick
  <2>1. CommandTTL \in Nat /\ Grace \in Nat /\ pump \in Pump
        /\ \A c \in Command : age[c] \in 0..(CommandTTL + Grace)
    BY TimeAssumption DEF TypeOK, AgentType, CallType, Expiry
  <2>2. pump' = [pump EXCEPT !.time = IF pump.on /\ pump.time < Grace THEN pump.time + 1
                                      ELSE pump.time]
    BY <1>5 DEF Tick
  <2>3. /\ pump'.on = pump.on /\ pump'.overdue = pump.overdue
        /\ pump.on => pump'.time = IF pump.time < Grace THEN pump.time + 1 ELSE pump.time
        /\ pump.time \in 0..Grace
    BY <2>1, <2>2 DEF Pump
  <2>4. \A c \in Command : /\ age'[c] \in {age[c], age[c] + 1}
                           /\ age'[c] <= CommandTTL + Grace
    BY <1>5, <2>1 DEF Tick, Expiry
  <2>5. ASSUME pump.on, NEW c \in Command \ (Diagnostic \cup pump.overdue)
        PROVE  age'[c] <= CommandTTL + pump'.time
    <3>1. age[c] <= CommandTTL + pump.time
      BY <2>5 DEF PumpInv
    <3> QED BY <2>1, <2>3, <2>4, <2>5, <3>1
  <2> QED BY <2>3, <2>5 DEF PumpInv
<1> QED
  BY <1>1, <1>2, <1>3, <1>4, <1>5
  DEF Next, Agent, Hub, RaiseEvent, PumpExpired, PumpRejected, PumpControl, PumpQueued, Deliver,
      LeaseExpires, RunDiagnostic, BeginShutdown, StartExchange, FailExchange, HandleAnswer,
      AcceptCurrent, AcceptOrphan, LoseOrphan, Accept, Refuse, Expire, Monitor, BeginClose, EndClose,
      vars, agentVars, callVars

\* An input command that waits in the agent when its caller is told of the time-out is begun
\* only by a pump that read its clock before the deadline and has lasted for all of Grace since.
THEOREM NoLateStart == Spec => LateBeginsOnlyInLongPump
<1>1. TypeOK /\ DeliveryInv /\ PumpInv /\ [Next]_vars => BeginsInTime
  <2> SUFFICES ASSUME TypeOK, DeliveryInv, PumpInv, [Next]_vars, NEW c \in Command \ Diagnostic,
                      reply[c] = "timeout", c \in Members(inbox), ~InLongPump(c)
               PROVE  effects'[c] = effects[c] /\ c \notin running'
    BY DEF BeginsInTime
  <2>1. c \notin running /\ c \notin Members(ioJobs) /\ age[c] = CommandTTL + Grace
    BY DEF DeliveryInv, OnePlace, ReplyInv, Expiry
  <2>2. pump.on => c \in pump.overdue
    <3>1. pump.time \in Nat /\ CommandTTL \in Nat /\ Grace \in Nat
      BY TimeAssumption DEF TypeOK, AgentType, Pump
    <3> QED BY <2>1, <3>1 DEF PumpInv, InLongPump
  <2>3. ASSUME NEW d \in Command, d # c, TakeEffect(d) PROVE effects'[c] = effects[c]
    BY <2>3 DEF TakeEffect, TypeOK, WorkType
  <2>4. CASE PumpQueued \/ PumpControl
    <3>1. inbox # << >> /\ Head(inbox) # c /\ Head(inbox) \in Command
      BY <2>2, <2>4, InboxHead DEF PumpQueued, PumpControl, Pumping, TypeOK, WorkType
    <3> QED BY <2>1, <2>3, <2>4, <3>1 DEF PumpQueued, PumpControl
  <2>5. ASSUME NEW d \in Command, Deliver(d)
        PROVE  effects'[c] = effects[c] /\ c \notin running'
    BY <2>1, <2>3, <2>5 DEF Deliver
  <2>6. CASE RunDiagnostic
    <3>1. Head(ioJobs) \in Members(ioJobs) /\ Head(ioJobs) \in Command
      BY <2>6, TailMembers DEF RunDiagnostic, DeliveryInv, OnePlace, TypeOK, WorkType
    <3> QED BY <2>1, <2>3, <2>6, <3>1 DEF RunDiagnostic
  <2>7. CASE LeaseExpires
    BY <2>1, <2>7 DEF LeaseExpires
  <2>8. CASE UNCHANGED <<running, effects>>
    BY <2>1, <2>8
  <2> QED
    BY <2>4, <2>5, <2>6, <2>7, <2>8
    DEF Next, Agent, Hub, RaiseEvent, BeginPump, EndPump, PumpExpired, PumpRejected, BeginShutdown,
        Halt, StartExchange, FailExchange, HandleAnswer, AcceptCurrent, AcceptOrphan, LoseOrphan,
        Submit, Refuse, Expire, Monitor, BeginClose, EndClose, Tick, vars, workVars
<1>2. Init => PumpInv
  BY DEF Init, NoPump, PumpInv
<1> QED
  BY <1>1, <1>2, PumpStep, DeliveryInvariant, PTL DEF Spec, LateBeginsOnlyInLongPump

\* The bridge implements the abstract specification of command().
THEOREM Implements == Spec => DeliverySpec
<1>1. Init => Delivery!Init
  BY DEF Init, Delivery!Init
<1>2. TypeOK /\ DeliveryInv /\ (TypeOK /\ DeliveryInv)' /\ [Next]_vars => [Delivery!Next]_<<reply, effects>>
  <2> SUFFICES ASSUME TypeOK, DeliveryInv, TypeOK', DeliveryInv', [Next]_vars PROVE Delivery!Next
    OBVIOUS
  <2>1. reply' \in [Command -> Delivery!Reply]
    BY DEF TypeOK, CallType, Delivery!Reply
  <2>2. effects' \in [Command -> {0, 1}]
    <3>1. \A c \in Command : effects'[c] \in {0, 1}
      BY DEF DeliveryInv, WorkInv, Untouched, Concluded
    <3> QED BY <3>1 DEF TypeOK, WorkType
  <2>3. \A c \in Command : Delivery!Call(c) \/ Delivery!Act(c) \/ Delivery!Report(c) \/ Delivery!Same(c)
    BY DeliveryStep DEF StepOf
  <2> QED BY <2>1, <2>2, <2>3 DEF Delivery!Next
<1> QED BY <1>1, <1>2, DeliveryInvariant, PTL DEF Spec, DeliverySpec, Delivery!Spec
=============================================================================
