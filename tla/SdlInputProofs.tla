--------------------------- MODULE SdlInputProofs ---------------------------
(***************************************************************************)
(* Theorems about SdlInput, for any controls, capacities, deadlines and     *)
(* bounds.                                                                  *)
(***************************************************************************)
EXTENDS SdlInput, FiniteSetTheorems, TLAPS

\* The controls that have a hold on record.
Held == {k \in Control : expiry[k] # Free}
Bound == SynthCap + 1 + Cardinality(Control)

LEMMA Constants ==
  /\ SynthCap \in Nat /\ CommandTTL \in Nat /\ LeaseTTL \in Nat /\ MaxCommands \in Nat
  /\ MaxHold \in Nat \ {0} /\ InboxCap \in Nat \ {0}
  /\ IsFiniteSet(Control) /\ Cardinality(Control) \in Nat /\ NoControl \notin Control
  BY ControlAssumption, CapAssumption, FS_CardinalityType

LEMMA PartOfControl ==
  ASSUME NEW S \in SUBSET Control
  PROVE  IsFiniteSet(S) /\ Cardinality(S) \in Nat /\ Cardinality(S) <= Cardinality(Control)
  BY Constants, FS_Subset, FS_CardinalityType

LEMMA Joined ==
  ASSUME NEW E, NEW s \in Seq(E), NEW t \in Seq(E)
  PROVE  /\ s \o t \in Seq(E) /\ Len(s \o t) = Len(s) + Len(t)
         /\ \A i \in 1..Len(s \o t) : (s \o t)[i] = IF i <= Len(s) THEN s[i] ELSE t[i - Len(s)]
  OBVIOUS

LEMMA EventTypes ==
  /\ Plain \in Event /\ ~Plain.down /\ Plain.control \notin Control
  /\ \A k \in Control : /\ Press(k) \in Event /\ Release(k) \in Event
                        /\ Press(k).control = k /\ Release(k).control = k
                        /\ Press(k).down /\ ~Release(k).down
  BY Constants DEF Event, Plain, Press, Release

LEMMA OrderTypes ==
  ASSUME NEW c \in Command
  PROVE  /\ c.order.type = "press" => c.order.control \in Control /\ c.order.hold \in 1..MaxHold
         /\ c.order.type = "release" => c.order.control \in Control
         /\ c.order.type = "mode" => c.order.mode \in Mode
  BY DEF Command, Order

\* Releases are queued once for each control of the set, and nothing else is.
LEMMA ReleasesOf ==
  ASSUME NEW S \in SUBSET Control, NEW ups \in ReleaseOrders(S)
  PROVE  /\ ups \in Seq(Event) /\ Len(ups) = Cardinality(S)
         /\ \A i \in 1..Len(ups) : ups[i].control \in S /\ ~ups[i].down
         /\ \A k \in S : \E i \in 1..Len(ups) : ups[i].control = k
  <1> DEFINE n == Cardinality(S)
  <1>1. n \in Nat /\ IsFiniteSet(S)
    BY PartOfControl
  <1>2. PICK f \in [1..n -> S] :
          /\ \A i, j \in 1..n : f[i] = f[j] => i = j
          /\ ups = [i \in 1..n |-> Release(f[i])]
    BY DEF ReleaseOrders
  <1>3. f \in Injection(1..n, S)
    BY <1>2 DEF Injection, IsInjective
  <1>4. Cardinality(1..n) = n
    BY <1>1, FS_Interval
  <1>5. f \in Surjection(1..n, S)
    BY <1>1, <1>3, <1>4, FS_Injection
  <1>6. \A i \in 1..n : f[i] \in Control /\ ups[i] = Release(f[i])
    BY <1>2
  <1>7. ups \in Seq(Event) /\ Len(ups) = n
    <2>1. ups \in [1..n -> Event]
      BY <1>2, <1>6, EventTypes
    <2> QED
      BY <1>1, <2>1
  <1>8. ASSUME NEW k \in S
        PROVE  \E i \in 1..n : ups[i].control = k
    <2>1. PICK i \in 1..n : f[i] = k
      BY <1>5 DEF Surjection
    <2> QED
      BY <2>1, <1>6, EventTypes
  <1>9. \A i \in 1..n : ups[i].control \in S /\ ~ups[i].down
    BY <1>2, <1>6, EventTypes
  <1> QED
    BY <1>7, <1>8, <1>9
-----------------------------------------------------------------------------
(* Types, and the bound of the queue.                                       *)

LEMMA HeldFinite == IsFiniteSet(Held) /\ Cardinality(Held) \in Nat /\ Cardinality(Held) <= Cardinality(Control)
  BY PartOfControl DEF Held

LEMMA InitTyped == Init => TypeOK
  <1> SUFFICES ASSUME Init PROVE TypeOK
    OBVIOUS
  <1>1. expiry \in [Control -> Free..MaxHold]
    BY Constants DEF Init, Free
  <1>2. Held = {}
    BY DEF Init, Held
  <1>3. Len(synthetic) + Cardinality(Held) <= Bound
    BY <1>2, Constants, FS_EmptySet DEF Init, Bound
  <1>4. synthetic \in Seq(Event) /\ inbox \in Seq(Command) /\ Len(inbox) <= InboxCap
    BY Constants DEF Init
  <1>5. /\ pc \in {"game", "lease", "expire", "drain", "take"} /\ mode \in Mode
        /\ down \in SUBSET Control /\ leaseExpired \in BOOLEAN
    BY DEF Init
  <1>6. gap \in 0..(LeaseTTL + 1) /\ offered \in 0..MaxCommands
    BY Constants DEF Init
  <1> QED
    BY <1>1, <1>3, <1>4, <1>5, <1>6 DEF TypeOK, Held, Bound

LEMMA ReleaseAllTyped ==
  ASSUME TypeOK, NEW more \in Seq(Event), Len(more) <= 1, ReleaseAll(more)
  PROVE  /\ synthetic' \in Seq(Event) /\ expiry' \in [Control -> Free..MaxHold]
         /\ Len(synthetic') + Cardinality(Held') <= Bound
  <1>1. PICK ups \in ReleaseOrders(down) : synthetic' = ups \o more
    BY DEF ReleaseAll
  <1>2. ups \in Seq(Event) /\ Len(ups) = Cardinality(down)
    BY <1>1, ReleasesOf DEF TypeOK
  <1>3. Cardinality(down) \in Nat /\ Cardinality(down) <= Cardinality(Control)
    BY PartOfControl DEF TypeOK
  <1>4. expiry' \in [Control -> Free..MaxHold] /\ Held' = {}
    BY Constants DEF ReleaseAll, Held, Free
  <1>5. synthetic' \in Seq(Event) /\ Len(synthetic') = Len(ups) + Len(more)
    BY <1>1, <1>2
  <1>6. Cardinality(Held') = 0
    BY <1>4, FS_EmptySet
  <1> QED
    BY <1>2, <1>3, <1>4, <1>5, <1>6, Constants DEF Bound

LEMMA DrainTyped ==
  ASSUME TypeOK, NEW type, Draining(type)
  PROVE  /\ inbox \in Seq(Command) /\ inbox # << >> /\ Head(inbox) \in Command
         /\ inbox' \in Seq(Command) /\ Len(inbox') <= InboxCap
         /\ Current = Head(inbox).order /\ Current.type = type
  BY Constants DEF TypeOK, Draining, Current

LEMMA NextTyped == TypeOK /\ [Next]_vars => TypeOK'
  <1> SUFFICES ASSUME TypeOK, [Next]_vars PROVE TypeOK'
    OBVIOUS
  <1> USE Constants
  <1>f. /\ Cardinality(Held) \in Nat /\ Len(synthetic) + Cardinality(Held) <= Bound
        /\ Bound \in Nat /\ synthetic \in Seq(Event) /\ Len(synthetic) \in Nat
    BY HeldFinite DEF TypeOK, Held, Bound
  <1>g. ASSUME expiry' \in [Control -> Free..MaxHold]
        PROVE  Cardinality(Held') \in Nat /\ Cardinality(Held') <= Cardinality(Control)
    BY PartOfControl DEF Held
  <1>1. CASE Poll
    BY <1>1 DEF TypeOK, Poll, linkVars
  <1>2. CASE PumpLeaseEnds
    <2>1. << >> \in Seq(Event) /\ Len(<< >>) <= 1
      OBVIOUS
    <2> QED
      BY <1>2, <2>1, ReleaseAllTyped DEF TypeOK, PumpLeaseEnds, linkVars, Held, Bound
  <1>3. CASE PumpLeaseKept
    BY <1>3 DEF TypeOK, PumpLeaseKept, linkVars
  <1>4. CASE PumpExpire
    <2>1. PICK ups \in ReleaseOrders(Expired) : synthetic' = synthetic \o ups
      BY <1>4 DEF PumpExpire
    <2>2. ups \in Seq(Event) /\ Len(ups) = Cardinality(Expired)
      BY <2>1, ReleasesOf DEF Expired
    <2>3. expiry' \in [Control -> Free..MaxHold]
      BY <1>4 DEF PumpExpire, TypeOK, Free
    <2>4. Held' = Held \ Expired /\ Expired \subseteq Held
      BY <1>4 DEF PumpExpire, TypeOK, Held, Expired, Free
    <2>5. Cardinality(Held') = Cardinality(Held) - Cardinality(Expired)
      <3>1. Held \cap Expired = Expired
        BY <2>4
      <3> QED
        BY <2>4, <3>1, HeldFinite, FS_Difference
    <2>6. Cardinality(Expired) \in Nat
      BY PartOfControl DEF Expired
    <2>7. synthetic' \in Seq(Event) /\ Len(synthetic') = Len(synthetic) + Len(ups)
      <3>1. synthetic \in Seq(Event)
        BY <1>f
      <3> QED
        BY <2>1, <2>2, <3>1, Joined
    <2>8. Len(synthetic') + Cardinality(Held') <= Bound
      BY <2>2, <2>5, <2>6, <2>7, <1>f
    <2> QED
      BY <1>4, <2>3, <2>7, <2>8 DEF TypeOK, PumpExpire, linkVars, Held, Bound
  <1>5. ASSUME DrainPress \/ DrainRelease \/ DrainOther
        PROVE  TypeOK'
    <2>1. /\ inbox' \in Seq(Command) /\ Len(inbox') <= InboxCap
          /\ Accepts /\ UNCHANGED <<pc, mode, down, leaseExpired, gap, offered>>
      BY <1>5, DrainTyped DEF DrainPress, DrainRelease, DrainOther
    <2>2. /\ expiry' \in [Control -> Free..MaxHold]
          /\ \E e \in Event : synthetic' = Append(synthetic, e)
      <3>1. CASE DrainPress
        <4>1. Current.control \in Control /\ Current.hold \in 1..MaxHold
          BY <3>1, DrainTyped, OrderTypes DEF DrainPress
        <4>2. expiry' \in [Control -> Free..MaxHold]
          BY <3>1, <4>1 DEF DrainPress, TypeOK, Free
        <4> QED
          BY <3>1, <4>1, <4>2, EventTypes DEF DrainPress
      <3>2. CASE DrainRelease
        <4>1. Current.control \in Control
          BY <3>2, DrainTyped, OrderTypes DEF DrainRelease
        <4>2. expiry' \in [Control -> Free..MaxHold]
          BY <3>2, <4>1 DEF DrainRelease, TypeOK, Free
        <4> QED
          BY <3>2, <4>1, <4>2, EventTypes DEF DrainRelease
      <3>3. CASE DrainOther
        BY <3>3, EventTypes DEF DrainOther, TypeOK
      <3> QED
        BY <1>5, <3>1, <3>2, <3>3
    <2>3. synthetic' \in Seq(Event) /\ Len(synthetic') = Len(synthetic) + 1
      BY <2>2 DEF TypeOK
    <2>4. Len(synthetic') + Cardinality(Held') <= Bound
      BY <2>1, <2>2, <2>3, <1>f, <1>g DEF Accepts, Bound
    <2> QED
      BY <2>1, <2>2, <2>3, <2>4 DEF TypeOK, Held, Bound
  <1>6. CASE DrainReleaseAll
    <2>1. << >> \in Seq(Event) /\ Len(<< >>) <= 1
      OBVIOUS
    <2> QED
      BY <1>6, <2>1, ReleaseAllTyped, DrainTyped DEF TypeOK, DrainReleaseAll, Held, Bound
  <1>7. CASE DrainMode
    <2>1. PICK more \in {<< >>, <<Plain>>} : ReleaseAll(more)
      BY <1>7 DEF DrainMode
    <2>2. more \in Seq(Event) /\ Len(more) <= 1
      <3>1. CASE more = << >>
        BY <3>1
      <3>2. CASE more = <<Plain>>
        BY <3>2, EventTypes
      <3> QED
        BY <2>1, <3>1, <3>2
    <2>3. Current.mode \in Mode
      BY <1>7, DrainTyped, OrderTypes DEF DrainMode
    <2> QED
      BY <1>7, <2>1, <2>2, <2>3, ReleaseAllTyped, DrainTyped DEF TypeOK, DrainMode, Held, Bound
  <1>8. CASE DrainFails
    BY <1>8 DEF TypeOK, DrainFails, gameVars
  <1>9. CASE DrainEnds
    BY <1>9 DEF TypeOK, DrainEnds, linkVars
  <1>10. CASE Take
    <2>1. CASE synthetic = << >>
      BY <1>10, <2>1 DEF TypeOK, Take, linkVars
    <2>2. CASE synthetic # << >>
      <3>1. Head(synthetic) \in Event /\ synthetic' \in Seq(Event) /\ Len(synthetic') = Len(synthetic) - 1
        BY <1>10, <2>2, <1>f DEF Take
      <3>2. down' \in SUBSET Control
        BY <1>10, <2>2, <3>1 DEF TypeOK, Take, Event
      <3>3. Len(synthetic') + Cardinality(Held') <= Bound
        BY <1>10, <3>1, <1>f DEF Take, Held
      <3> QED
        BY <1>10, <3>1, <3>2, <3>3 DEF TypeOK, Take, linkVars, Held, Bound
    <2> QED
      BY <2>1, <2>2
  <1>11. CASE Contact
    BY <1>11 DEF TypeOK, Contact, gameVars
  <1>12. ASSUME NEW o \in Order, Offer(o)
         PROVE  TypeOK'
    <2>1. [order |-> o, left |-> CommandTTL] \in Command
      BY DEF Command
    <2>2. inbox' \in Seq(Command) /\ Len(inbox') = Len(inbox) + 1
      BY <1>12, <2>1 DEF Offer, TypeOK
    <2> QED
      BY <1>12, <2>2 DEF TypeOK, Offer, gameVars
  <1>13. CASE Tick
    <2>1. Held' = Held /\ expiry' \in [Control -> Free..MaxHold]
      BY <1>13 DEF Tick, TypeOK, Held, Free
    <2>2. inbox' \in Seq(Command) /\ Len(inbox') = Len(inbox)
      <3>1. ASSUME NEW i \in 1..Len(inbox)
            PROVE  [inbox[i] EXCEPT !.left = IF @ < 0 THEN @ ELSE @ - 1] \in Command
        <4>1. inbox[i] \in Command
          BY DEF TypeOK
        <4> QED
          BY <4>1 DEF Command
      <3>2. inbox' \in [1..Len(inbox) -> Command]
        BY <1>13, <3>1 DEF Tick
      <3>3. Len(inbox) \in Nat
        BY DEF TypeOK
      <3> QED
        BY <3>2, <3>3
    <2>3. Len(synthetic') + Cardinality(Held') <= Bound
      BY <1>13, <2>1, <1>f DEF Tick
    <2>4. gap' \in 0..(LeaseTTL + 1)
      BY <1>13 DEF Tick, TypeOK
    <2> QED
      BY <1>13, <2>1, <2>2, <2>3, <2>4 DEF TypeOK, Tick, Held, Bound
  <1>14. CASE UNCHANGED vars
    BY <1>14 DEF TypeOK, vars, gameVars, linkVars
  <1> QED
    BY <1>1, <1>2, <1>3, <1>4, <1>5, <1>6, <1>7, <1>8, <1>9, <1>10, <1>11, <1>12, <1>13, <1>14
       DEF Next, Game

\* SdlAdapter stays well-typed; in particular its queue is bounded by what execute()
\* checks and one release for each control, whatever releaseAll() and pump() add.
THEOREM Typing == Spec => []TypeOK
  BY InitTyped, NextTyped, PTL DEF Spec
-----------------------------------------------------------------------------
(* Nothing sticks.                                                          *)

\* What the game, told d so far, will believe of k once it has taken the queue q.
Told(q, d, k) ==
  \/ \E i \in 1..Len(q) :
       q[i].control = k /\ q[i].down /\ \A j \in 1..Len(q) : q[j].control = k => j <= i
  \/ k \in d /\ \A i \in 1..Len(q) : q[i].control # k

LEMMA ToldIs ==
  ASSUME NEW k \in Control
  PROVE  WillBeDown(k) <=> Told(synthetic, down, k)
  BY DEF WillBeDown, Pending, Told

LEMMA ToldAppend ==
  ASSUME NEW q \in Seq(Event), NEW e \in Event, NEW d, NEW k \in Control
  PROVE  Told(Append(q, e), d, k) <=> IF e.control = k THEN e.down ELSE Told(q, d, k)
  <1> DEFINE r == Append(q, e)
             n == Len(q)
  <1>1. /\ Len(r) = n + 1 /\ n \in Nat /\ r[n + 1] = e
        /\ \A i \in 1..n : r[i] = q[i]
    OBVIOUS
  <1> HIDE DEF r, n
  <1>2. CASE e.control = k
    BY <1>1, <1>2 DEF Told
  <1>3. CASE e.control # k
    <2>1. 1..Len(r) = (1..n) \cup {n + 1}
      BY <1>1
    <2>2. n = Len(q)
      BY DEF n
    <2> QED
      BY <1>1, <1>3, <2>1, <2>2 DEF Told
  <1> QED
    BY <1>2, <1>3 DEF r

LEMMA ToldReleases ==
  ASSUME NEW q \in Seq(Event), NEW S \in SUBSET Control, NEW ups \in ReleaseOrders(S),
         NEW d, NEW k \in Control
  PROVE  Told(q \o ups, d, k) => k \notin S /\ Told(q, d, k)
  <1> DEFINE r == q \o ups
             n == Len(q)
             m == Len(ups)
  <1>1. /\ ups \in Seq(Event)
        /\ \A i \in 1..m : ups[i].control \in S /\ ~ups[i].down
        /\ \A c \in S : \E i \in 1..m : ups[i].control = c
    BY ReleasesOf
  <1>2. /\ Len(r) = n + m /\ n \in Nat /\ m \in Nat
        /\ \A i \in 1..(n + m) : r[i] = IF i <= n THEN q[i] ELSE ups[i - n]
    BY <1>1, Joined
  <1>3. n = Len(q)
    OBVIOUS
  <1> HIDE DEF r, n, m
  <1>4. \A i \in 1..n : r[i] = q[i]
    BY <1>2
  <1>5. \A i \in 1..m : r[n + i].control \in S /\ ~r[n + i].down /\ r[n + i] = ups[i]
    BY <1>1, <1>2
  <1>6. ASSUME Told(r, d, k) PROVE k \notin S
    <2>1. SUFFICES ASSUME k \in S PROVE FALSE
      OBVIOUS
    <2>2. PICK i \in 1..m : r[n + i].control = k
      BY <1>1, <1>5, <2>1
    <2>3. n + i \in 1..Len(r)
      BY <1>2
    <2>4. PICK j \in 1..Len(r) : r[j].down /\ n + i <= j
      BY <1>6, <2>2, <2>3 DEF Told
    <2>5. j - n \in 1..m /\ j = n + (j - n)
      BY <1>2, <2>4
    <2> QED
      BY <1>5, <2>4, <2>5
  <1>7. ASSUME Told(r, d, k) PROVE Told(q, d, k)
    <2>1. \A i \in 1..n : i \in 1..Len(r)
      BY <1>2
    <2>2. CASE \E i \in 1..Len(r) :
                 r[i].control = k /\ r[i].down /\ \A j \in 1..Len(r) : r[j].control = k => j <= i
      <3>1. PICK i \in 1..Len(r) :
              r[i].control = k /\ r[i].down /\ \A j \in 1..Len(r) : r[j].control = k => j <= i
        BY <2>2
      <3>2. i <= n
        <4>1. SUFFICES ASSUME i > n PROVE FALSE
          BY <1>2
        <4>2. i - n \in 1..m /\ i = n + (i - n)
          BY <1>2, <4>1
        <4> QED
          BY <1>5, <3>1, <4>2
      <3>3. i \in 1..n
        BY <1>2, <3>1, <3>2
      <3> QED
        BY <1>3, <1>4, <2>1, <3>1, <3>3 DEF Told
    <2>3. CASE k \in d /\ \A i \in 1..Len(r) : r[i].control # k
      BY <1>3, <1>4, <2>1, <2>3 DEF Told
    <2> QED
      BY <1>7, <2>2, <2>3 DEF Told
  <1> QED
    BY <1>6, <1>7 DEF r

LEMMA ToldTail ==
  ASSUME NEW q \in Seq(Event), q # << >>, NEW d, NEW k \in Control,
         NEW f, f = IF Head(q).control = NoControl THEN d
                    ELSE IF Head(q).down THEN d \cup {Head(q).control}
                    ELSE d \ {Head(q).control}
  PROVE  Told(Tail(q), f, k) <=> Told(q, d, k)
  <1> DEFINE r == Tail(q)
             n == Len(r)
  <1>1. /\ Len(q) = n + 1 /\ n \in Nat /\ Head(q) = q[1]
        /\ \A i \in 1..n : r[i] = q[i + 1]
    OBVIOUS
  <1>2. k \in f <=> IF q[1].control = k THEN q[1].down ELSE k \in d
    BY <1>1, Constants
  <1> HIDE DEF r, n
  <1>3. n = Len(r)
    BY DEF n
  <1>4. \A i \in 1..(n + 1) : i = 1 \/ (i - 1 \in 1..n /\ q[i] = r[i - 1])
    BY <1>1
  <1>5. ASSUME Told(r, f, k) PROVE Told(q, d, k)
    <2>1. CASE \E i \in 1..n :
                 r[i].control = k /\ r[i].down /\ \A j \in 1..n : r[j].control = k => j <= i
      <3>1. PICK i \in 1..n :
              r[i].control = k /\ r[i].down /\ \A j \in 1..n : r[j].control = k => j <= i
        BY <2>1
      <3>2. i + 1 \in 1..(n + 1) /\ q[i + 1] = r[i]
        BY <1>1
      <3>3. ASSUME NEW j \in 1..(n + 1), q[j].control = k PROVE j <= i + 1
        <4>1. CASE j = 1
          BY <1>1, <3>1, <4>1
        <4>2. CASE j # 1
          <5>1. j - 1 \in 1..n /\ q[j] = r[j - 1]
            BY <1>4, <4>2
          <5>2. j - 1 <= i
            BY <3>1, <3>3, <5>1
          <5> QED
            BY <1>1, <3>1, <5>2
        <4> QED
          BY <4>1, <4>2
      <3> QED
        BY <1>1, <3>1, <3>2, <3>3 DEF Told
    <2>2. CASE k \in f /\ \A i \in 1..n : r[i].control # k
      <3>1. \A i \in 1..(n + 1) : q[i].control = k => i = 1
        BY <1>4, <2>2
      <3>2. 1 \in 1..(n + 1)
        BY <1>1
      <3> QED
        BY <1>1, <1>2, <2>2, <3>1, <3>2 DEF Told
    <2> QED
      BY <1>3, <1>5, <2>1, <2>2 DEF Told
  <1>6. ASSUME Told(q, d, k) PROVE Told(r, f, k)
    <2>1. CASE \E i \in 1..(n + 1) :
                 q[i].control = k /\ q[i].down /\ \A j \in 1..(n + 1) : q[j].control = k => j <= i
      <3>1. PICK i \in 1..(n + 1) :
              q[i].control = k /\ q[i].down /\ \A j \in 1..(n + 1) : q[j].control = k => j <= i
        BY <2>1
      <3>2. \A j \in 1..n : r[j].control = k => j + 1 <= i
        BY <1>1, <3>1
      <3>3. CASE i = 1
        <4>1. \A j \in 1..n : r[j].control # k
          BY <1>1, <3>2, <3>3
        <4>2. k \in f
          BY <1>2, <3>1, <3>3
        <4> QED
          BY <1>3, <4>1, <4>2 DEF Told
      <3>4. CASE i # 1
        <4>1. i - 1 \in 1..n /\ q[i] = r[i - 1]
          BY <1>4, <3>1, <3>4
        <4>2. \A j \in 1..n : r[j].control = k => j <= i - 1
          BY <1>1, <3>1, <3>2
        <4> QED
          BY <1>3, <3>1, <4>1, <4>2 DEF Told
      <3> QED
        BY <3>3, <3>4
    <2>2. CASE k \in d /\ \A i \in 1..(n + 1) : q[i].control # k
      <3>1. k \in f
        BY <1>1, <1>2, <2>2
      <3>2. \A i \in 1..n : r[i].control # k
        BY <1>1, <2>2
      <3> QED
        BY <1>3, <3>1, <3>2 DEF Told
    <2> QED
      BY <1>1, <1>6, <2>1, <2>2 DEF Told
  <1> QED
    BY <1>5, <1>6 DEF r
-----------------------------------------------------------------------------
\* The invariant: interactive mode has no holds, so that it is clean because what is
\* down, or will be, has one.
StickInv ==
  /\ HeldHasExpiry
  /\ mode = "interactive" => \A k \in Control : expiry[k] = Free

LEMMA StickImplies == StickInv => NothingSticks
  BY DEF StickInv, NothingSticks, HeldHasExpiry, InteractiveIsClean

LEMMA StickInit == Init => StickInv
  <1> SUFFICES ASSUME Init PROVE StickInv
    OBVIOUS
  <1>1. \A k \in Control : ~Told(synthetic, down, k)
    BY DEF Init, Told
  <1> QED
    BY <1>1, ToldIs DEF Init, StickInv, HeldHasExpiry

LEMMA ReleaseAllClean ==
  ASSUME TypeOK, NEW more \in {<< >>, <<Plain>>}, ReleaseAll(more), down' = down
  PROVE  \A k \in Control : ~Told(synthetic', down', k) /\ expiry'[k] = Free
  <1>1. PICK ups \in ReleaseOrders(down) : synthetic' = ups \o more
    BY DEF ReleaseAll
  <1>2. ups \in Seq(Event) /\ down \in SUBSET Control
    BY <1>1, ReleasesOf DEF TypeOK
  <1>3. \A k \in Control : ~Told(ups, down, k)
    <2>1. << >> \o ups = ups /\ << >> \in Seq(Event)
      BY <1>2
    <2>2. \A k \in Control : Told(<< >>, down, k) => k \in down
      BY DEF Told
    <2>3. ASSUME NEW k \in Control, Told(ups, down, k) PROVE FALSE
      <3>1. Told(<< >> \o ups, down, k)
        BY <2>1, <2>3
      <3>2. k \notin down /\ Told(<< >>, down, k)
        BY <1>1, <1>2, <2>1, <3>1, ToldReleases
      <3> QED
        BY <2>2, <3>2
    <2> QED
      BY <2>3
  <1>4. synthetic' = ups \/ synthetic' = Append(ups, Plain)
    <2>1. CASE more = << >>
      BY <1>1, <1>2, <2>1
    <2>2. CASE more = <<Plain>>
      BY <1>1, <1>2, <2>2, EventTypes
    <2> QED
      BY <2>1, <2>2
  <1>5. \A k \in Control : Told(Append(ups, Plain), down, k) <=> Told(ups, down, k)
    BY <1>2, EventTypes, ToldAppend
  <1> QED
    BY <1>3, <1>4, <1>5 DEF ReleaseAll

LEMMA StickNext == TypeOK /\ StickInv /\ [Next]_vars => StickInv'
  <1> SUFFICES ASSUME TypeOK, StickInv, [Next]_vars PROVE StickInv'
    OBVIOUS
  <1>t. synthetic \in Seq(Event) /\ expiry \in [Control -> Free..MaxHold]
    BY DEF TypeOK
  <1>h. \A k \in Control : Told(synthetic, down, k) => expiry[k] # Free
    BY ToldIs DEF StickInv, HeldHasExpiry
  <1>g. ASSUME \A k \in Control : Told(synthetic', down', k) => expiry'[k] # Free
        PROVE  HeldHasExpiry'
    BY <1>g DEF HeldHasExpiry, WillBeDown, Pending, Told
  <1>u. ASSUME UNCHANGED <<synthetic, down, expiry, mode>>
        PROVE  StickInv'
    BY <1>u DEF StickInv, HeldHasExpiry, WillBeDown, Pending
  <1>r. ASSUME NEW more \in {<< >>, <<Plain>>}, ReleaseAll(more), down' = down
        PROVE  StickInv'
    BY <1>r, <1>g, ReleaseAllClean DEF StickInv
  <1>1. CASE Poll \/ PumpLeaseKept \/ DrainFails \/ DrainEnds \/ Contact \/ UNCHANGED vars
    BY <1>1, <1>u DEF Poll, PumpLeaseKept, DrainFails, DrainEnds, Contact, vars, gameVars
  <1>2. CASE PumpLeaseEnds
    BY <1>2, <1>r DEF PumpLeaseEnds
  <1>3. CASE PumpExpire
    <2>1. PICK ups \in ReleaseOrders(Expired) : synthetic' = synthetic \o ups
      BY <1>3 DEF PumpExpire
    <2>2. \A k \in Control : expiry'[k] = IF k \in Expired THEN Free ELSE expiry[k]
      BY <1>3 DEF PumpExpire
    <2>3. Expired \in SUBSET Control /\ UNCHANGED <<down, mode>>
      BY <1>3 DEF PumpExpire, Expired
    <2>4. \A k \in Control : Told(synthetic', down', k) => k \notin Expired /\ Told(synthetic, down, k)
      BY <1>t, <2>1, <2>3, ToldReleases
    <2> QED
      BY <1>g, <1>h, <2>2, <2>3, <2>4 DEF StickInv
  <1>4. CASE DrainPress
    <2>1. Current.control \in Control /\ Current.hold \in 1..MaxHold
      BY <1>4, DrainTyped, OrderTypes DEF DrainPress
    <2>2. /\ synthetic' = Append(synthetic, Press(Current.control)) /\ down' = down
          /\ expiry' = [expiry EXCEPT ![Current.control] = Current.hold]
          /\ mode' = mode /\ mode # "interactive"
      BY <1>4 DEF DrainPress, Accepts
    <2>3. \A k \in Control : expiry'[k] = IF k = Current.control THEN Current.hold ELSE expiry[k]
      BY <1>t, <2>1, <2>2
    <2>4. Current.hold # Free
      BY <2>1, Constants DEF Free
    <2>5. \A k \in Control : Told(synthetic', down', k) => k = Current.control \/ Told(synthetic, down, k)
      BY <1>t, <2>1, <2>2, EventTypes, ToldAppend
    <2> QED
      BY <1>g, <1>h, <2>2, <2>3, <2>4, <2>5 DEF StickInv
  <1>5. CASE DrainRelease
    <2>1. Current.control \in Control
      BY <1>5, DrainTyped, OrderTypes DEF DrainRelease
    <2>2. /\ synthetic' = Append(synthetic, Release(Current.control)) /\ down' = down
          /\ expiry' = [expiry EXCEPT ![Current.control] = Free]
          /\ mode' = mode
      BY <1>5 DEF DrainRelease
    <2>3. \A k \in Control : expiry'[k] = IF k = Current.control THEN Free ELSE expiry[k]
      BY <1>t, <2>1, <2>2
    <2>4. \A k \in Control : Told(synthetic', down', k) => k # Current.control /\ Told(synthetic, down, k)
      BY <1>t, <2>1, <2>2, EventTypes, ToldAppend
    <2> QED
      BY <1>g, <1>h, <2>2, <2>3, <2>4 DEF StickInv
  <1>6. CASE DrainOther
    <2>1. \A k \in Control : Told(Append(synthetic, Plain), down, k) <=> Told(synthetic, down, k)
      BY <1>t, EventTypes, ToldAppend
    <2> QED
      BY <1>6, <1>g, <1>h, <2>1 DEF DrainOther, StickInv
  <1>7. CASE DrainReleaseAll
    BY <1>7, <1>r DEF DrainReleaseAll
  <1>8. CASE DrainMode
    BY <1>8, <1>r DEF DrainMode
  <1>9. CASE Take
    <2>1. CASE synthetic = << >>
      BY <1>9, <2>1, <1>u DEF Take
    <2>2. CASE synthetic # << >>
      <3>1. \A k \in Control : Told(synthetic', down', k) <=> Told(synthetic, down, k)
        <4>1. /\ synthetic' = Tail(synthetic)
              /\ down' = IF Head(synthetic).control = NoControl THEN down
                         ELSE IF Head(synthetic).down THEN down \cup {Head(synthetic).control}
                         ELSE down \ {Head(synthetic).control}
          BY <1>9, <2>2 DEF Take
        <4>2. synthetic \in Seq(Event)
          BY <1>t
        <4>3. SUFFICES ASSUME NEW k \in Control
                       PROVE  Told(Tail(synthetic), down', k) <=> Told(synthetic, down, k)
          BY <4>1
        <4> QED
          BY <2>2, <4>1, <4>2, ToldTail
      <3> QED
        BY <1>9, <1>g, <1>h, <3>1 DEF Take, StickInv
    <2> QED
      BY <2>1, <2>2
  <1>10. ASSUME NEW o \in Order, Offer(o)
         PROVE  StickInv'
    BY <1>10, <1>u DEF Offer, gameVars
  <1>11. CASE Tick
    <2>1. \A k \in Control : expiry'[k] = Free <=> expiry[k] = Free
      BY <1>11, <1>t DEF Tick, Free
    <2> QED
      BY <1>11, <1>g, <1>h, <2>1 DEF Tick, StickInv
  <1> QED
    BY <1>1, <1>2, <1>3, <1>4, <1>5, <1>6, <1>7, <1>8, <1>9, <1>10, <1>11 DEF Next, Game

\* What the game holds down, or will once it has read its queue, has a hold on record
\* that will end, and interactive mode leaves nothing down: for every interleaving of
\* presses, releases, cancellations, lost leases and the game's own reads.
THEOREM NoStuckInput == Spec => []NothingSticks
  BY InitTyped, NextTyped, StickInit, StickNext, StickImplies, PTL DEF Spec
=============================================================================
