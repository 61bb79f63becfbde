----------------------------- MODULE HubProofs -----------------------------
(***************************************************************************)
(* Theorems about what outlives a bridge.  The event journal, for any       *)
(* capacities, crashes and lives: what a closed bridge leaves behind, and   *)
(* what a reader that follows it is told.  Ownership of the runtime cache,  *)
(* for any number of bridges: while nobody died, or while bridges start one *)
(* after the other, there is one owner and the files name it.               *)
(***************************************************************************)
EXTENDS EventJournal, BridgeLock, SequenceTheorems, FiniteSetTheorems, WellFoundedInduction, TLAPS

\* What an event is before it has a cursor.
Raw == [session : Session, seq : Nat]

\* s is the end of t.
EndOf(s, t) == Len(s) <= Len(t) /\ \A k \in 1..Len(s) : s[k] = t[Len(t) - Len(s) + k]
-----------------------------------------------------------------------------
(* Sequences.                                                              *)

\* slice(-n) returns the end of its argument, n entries of it if there are so many.
LEMMA RecentIsEnd ==
  ASSUME NEW S, NEW s \in Seq(S), NEW n \in Nat
  PROVE  /\ Recent(s, n) \in Seq(S)
         /\ Len(Recent(s, n)) = IF Len(s) <= n THEN Len(s) ELSE n
         /\ EndOf(Recent(s, n), s)
<1>1. Len(s) \in Nat /\ \A i \in 1..Len(s) : s[i] \in S
  BY ElementOfSeq, LenProperties
<1>2. CASE Len(s) <= n
  BY <1>1, <1>2 DEF Recent, EndOf
<1>3. CASE Len(s) > n
  <2> DEFINE m == Len(s) - n + 1
  <2>1. m \in Int /\ m >= 1 /\ m <= Len(s) + 1 /\ Len(s) - m + 1 = n
    BY <1>1, <1>3
  <2>2. Recent(s, n) = SubSeq(s, m, Len(s))
    BY <1>1, <1>3 DEF Recent
  <2>3. \A i \in m..Len(s) : s[i] \in S
    BY <1>1, <2>1
  <2> HIDE DEF m
  <2>4. /\ SubSeq(s, m, Len(s)) \in Seq(S)
        /\ Len(SubSeq(s, m, Len(s))) = IF m <= Len(s) THEN Len(s) - m + 1 ELSE 0
        /\ \A i \in 1..(Len(s) - m + 1) : SubSeq(s, m, Len(s))[i] = s[m + i - 1]
    BY <1>1, <2>1, <2>3, SubSeqProperties
  <2>5. Len(Recent(s, n)) = n
    BY <2>1, <2>2, <2>4, <1>1
  <2>6. \A k \in 1..n : Recent(s, n)[k] = s[Len(s) - n + k]
    <3>1. \A k \in 1..n : m + k - 1 = Len(s) - n + k
      BY <1>1 DEF m
    <3> QED BY <3>1, <2>1, <2>2, <2>4
  <2>7. Recent(s, n) \in Seq(S)
    BY <2>2, <2>4
  <2>8. EndOf(Recent(s, n), s)
    <3>1. n <= Len(s)
      BY <1>1, <1>3
    <3> QED BY <2>5, <2>6, <3>1 DEF EndOf
  <2>9. ~(Len(s) <= n)
    BY <1>1, <1>3
  <2> QED BY <2>5, <2>7, <2>8, <2>9
<1> QED BY <1>1, <1>2, <1>3

\* Of a sequence and of an end of it that is long enough, the most recent n are the same.
LEMMA RecentOfEnd ==
  ASSUME NEW S, NEW s \in Seq(S), NEW t \in Seq(S), NEW n \in Nat,
         EndOf(s, t), Len(s) = Len(t) \/ Len(s) >= n
  PROVE  Recent(s, n) = Recent(t, n)
<1> DEFINE u == Recent(s, n)
           w == Recent(t, n)
<1>1. Len(s) \in Nat /\ Len(t) \in Nat /\ Len(s) <= Len(t)
  BY LenProperties DEF EndOf
<1>2. u \in Seq(S) /\ Len(u) = (IF Len(s) <= n THEN Len(s) ELSE n) /\ EndOf(u, s)
  BY RecentIsEnd
<1>3. w \in Seq(S) /\ Len(w) = (IF Len(t) <= n THEN Len(t) ELSE n) /\ EndOf(w, t)
  BY RecentIsEnd
<1> HIDE DEF u, w
<1>4. Len(u) = Len(w) /\ Len(u) \in Nat
  BY <1>1, <1>2, <1>3
<1>5. ASSUME NEW k \in 1..Len(u) PROVE u[k] = w[k]
  <2>1. u[k] = s[Len(s) - Len(u) + k]
    BY <1>2 DEF EndOf
  <2>2. w[k] = t[Len(t) - Len(w) + k]
    BY <1>3, <1>4 DEF EndOf
  <2>3. Len(s) - Len(u) + k \in 1..Len(s)
    BY <1>1, <1>2, <1>4 DEF EndOf
  <2>4. s[Len(s) - Len(u) + k] = t[Len(t) - Len(s) + (Len(s) - Len(u) + k)]
    BY <2>3 DEF EndOf
  <2>5. Len(t) - Len(s) + (Len(s) - Len(u) + k) = Len(t) - Len(w) + k
    BY <1>1, <1>4
  <2> QED BY <2>1, <2>2, <2>4, <2>5
<1>6. u = w
  BY <1>2, <1>3, <1>4, <1>5, SeqEqual
<1> QED BY <1>6 DEF u, w

\* The end of an end is an end.
LEMMA EndOfEnd ==
  ASSUME NEW S, NEW s \in Seq(S), NEW t \in Seq(S), NEW u \in Seq(S), EndOf(s, t), EndOf(t, u)
  PROVE  EndOf(s, u)
<1>1. Len(s) \in Nat /\ Len(t) \in Nat /\ Len(u) \in Nat /\ Len(s) <= Len(t) /\ Len(t) <= Len(u)
  BY LenProperties DEF EndOf
<1>2. ASSUME NEW k \in 1..Len(s) PROVE s[k] = u[Len(u) - Len(s) + k]
  <2>1. s[k] = t[Len(t) - Len(s) + k]
    BY DEF EndOf
  <2>2. Len(t) - Len(s) + k \in 1..Len(t)
    BY <1>1
  <2>3. t[Len(t) - Len(s) + k] = u[Len(u) - Len(t) + (Len(t) - Len(s) + k)]
    BY <2>2 DEF EndOf
  <2>4. Len(u) - Len(t) + (Len(t) - Len(s) + k) = Len(u) - Len(s) + k
    BY <1>1
  <2> QED BY <2>1, <2>3, <2>4
<1> QED BY <1>1, <1>2 DEF EndOf

\* What is appended to both leaves an end an end.
LEMMA EndOfConcat ==
  ASSUME NEW S, NEW s \in Seq(S), NEW t \in Seq(S), NEW u \in Seq(S), EndOf(s, t)
  PROVE  EndOf(s \o u, t \o u)
<1>1. Len(s) \in Nat /\ Len(t) \in Nat /\ Len(u) \in Nat /\ Len(s) <= Len(t)
  BY LenProperties DEF EndOf
<1>2. /\ Len(s \o u) = Len(s) + Len(u)
      /\ \A i \in 1..(Len(s) + Len(u)) :
           (s \o u)[i] = IF i <= Len(s) THEN s[i] ELSE u[i - Len(s)]
  BY ConcatProperties
<1>3. /\ Len(t \o u) = Len(t) + Len(u)
      /\ \A i \in 1..(Len(t) + Len(u)) :
           (t \o u)[i] = IF i <= Len(t) THEN t[i] ELSE u[i - Len(t)]
  BY ConcatProperties
<1>4. ASSUME NEW k \in 1..Len(s \o u)
      PROVE  (s \o u)[k] = (t \o u)[Len(t \o u) - Len(s \o u) + k]
  <2> DEFINE j == Len(t) - Len(s) + k
  <2>1. k \in 1..(Len(s) + Len(u))
    BY <1>2
  <2>2. j \in 1..(Len(t) + Len(u)) /\ Len(t \o u) - Len(s \o u) + k = j
    BY <1>1, <1>2, <1>3, <2>1
  <2>3. CASE k <= Len(s)
    <3>1. j <= Len(t) /\ s[k] = t[j]
      BY <1>1, <2>1, <2>3 DEF EndOf
    <3> HIDE DEF j
    <3> QED BY <1>2, <1>3, <2>1, <2>2, <2>3, <3>1
  <2>4. CASE k > Len(s)
    <3>1. j > Len(t) /\ k - Len(s) = j - Len(t)
      BY <1>1, <2>1, <2>4
    <3>2. ~(k <= Len(s)) /\ ~(j <= Len(t))
      BY <1>1, <2>1, <2>2, <2>4, <3>1
    <3> HIDE DEF j
    <3> QED BY <1>2, <1>3, <2>1, <2>2, <3>1, <3>2
  <2>5. k <= Len(s) \/ k > Len(s)
    BY <1>1, <2>1
  <2> QED BY <2>3, <2>4, <2>5
<1> QED BY <1>1, <1>2, <1>3, <1>4 DEF EndOf
-----------------------------------------------------------------------------
(* Typing.                                                                 *)

LEMMA NumberedIs ==
  ASSUME cursor \in Nat, NEW new \in Seq(Raw)
  PROVE  /\ Numbered(new) \in Seq(Entry) /\ Len(Numbered(new)) = Len(new)
         /\ \A i \in 1..Len(new) : Numbered(new)[i].cursor = cursor + i
<1>1. Len(new) \in Nat /\ \A i \in 1..Len(new) : new[i] \in Raw
  BY ElementOfSeq, LenProperties
<1>2. \A i \in 1..Len(new) :
        [cursor |-> cursor + i, session |-> new[i].session, seq |-> new[i].seq] \in Entry
  BY <1>1 DEF Raw, Entry
<1>3. Numbered(new) \in [1..Len(new) -> Entry]
  BY <1>2 DEF Numbered
<1>4. Numbered(new) \in Seq(Entry) /\ Len(Numbered(new)) = Len(new)
  BY <1>1, <1>3
<1>5. \A i \in 1..Len(new) : Numbered(new)[i].cursor = cursor + i
  BY DEF Numbered
<1> QED BY <1>4, <1>5

LEMMA AddType ==
  ASSUME TypeOK, NEW new \in Seq(Raw), Add(new)
  PROVE  /\ journal' \in Seq(Entry) /\ Len(journal') <= JournalCap
         /\ ever' \in Seq(Entry) /\ cursor' \in Nat
         /\ dirty' \in BOOLEAN /\ late' \in BOOLEAN /\ reader' \in {"idle", "waiting", "woken"}
<1>1. cursor \in Nat /\ journal \in Seq(Entry) /\ ever \in Seq(Entry) /\ Len(new) \in Nat
  BY LenProperties DEF TypeOK
<1>2. Numbered(new) \in Seq(Entry)
  BY <1>1, NumberedIs
<1>3. journal \o Numbered(new) \in Seq(Entry) /\ ever \o Numbered(new) \in Seq(Entry)
  BY <1>1, <1>2, ConcatProperties
<1>4. JournalCap \in Nat
  BY JournalAssumption
<1>5. journal' \in Seq(Entry) /\ Len(journal') <= JournalCap
  <2> DEFINE whole == journal \o Numbered(new)
  <2>1. journal' = Recent(whole, JournalCap) /\ whole \in Seq(Entry)
    BY <1>3 DEF Add
  <2> HIDE DEF whole
  <2>2. Len(whole) \in Nat
    BY <2>1, LenProperties
  <2> QED BY <2>1, <2>2, <1>4, RecentIsEnd
<1>6. ever' \in Seq(Entry) /\ cursor' \in Nat
  BY <1>1, <1>3 DEF Add
<1>7. dirty' \in BOOLEAN
  BY DEF Add, TypeOK
<1>8. late' \in BOOLEAN
  BY DEF Add, TypeOK
<1>9. reader' \in {"idle", "waiting", "woken"}
  BY DEF Add, TypeOK
<1> QED BY <1>5, <1>6, <1>7, <1>8, <1>9

\* What accept() adds are events, and the numbers stay numbers.
LEMMA AcceptAdds ==
  ASSUME TypeOK, NEW n \in acked..MaxSeq, Accept(n)
  PROVE  lastSeq' \in Nat /\ acked' \in Nat /\ \E new \in Seq(Raw) : Add(new)
<1> DEFINE first  == (IF acked > lastSeq THEN acked ELSE lastSeq) + 1
           events == [i \in 1..(n - first + 1) |-> [session |-> "agent", seq |-> first + i - 1]]
           opened == IF known THEN << >> ELSE <<[session |-> "agent", seq |-> 0]>>
<1>1. acked \in Nat /\ lastSeq \in Nat /\ n \in Nat
  BY JournalAssumption DEF TypeOK
<1>2. Add(opened \o events)
  BY DEF Accept
<1>3. opened \in Seq(Raw)
  <2> DEFINE header == [session |-> "agent", seq |-> 0]
  <2>1. header \in Raw
    BY DEF Raw, Session
  <2>2. CASE known
    BY <2>2
  <2>3. CASE ~known
    <3> HIDE DEF header
    <3> <<header>> \in Seq(Raw)
      BY <2>1
    <3> QED BY <2>3 DEF header
  <2> QED BY <2>2, <2>3
<1>4. events \in Seq(Raw)
  <2>1. first \in Nat \ {0}
    BY <1>1
  <2> DEFINE m == IF n - first + 1 \in Nat THEN n - first + 1 ELSE 0
  <2>2. m \in Nat /\ 1..(n - first + 1) = 1..m
    <3> HIDE DEF first
    <3> QED BY <1>1, <2>1
  <2>3. \A i \in 1..m : [session |-> "agent", seq |-> first + i - 1] \in Raw
    <3> HIDE DEF first, m
    <3> QED BY <2>1, <2>2 DEF Raw, Session
  <2>4. events \in [1..m -> Raw]
    <3> HIDE DEF first, m
    <3> QED BY <2>2, <2>3
  <2> HIDE DEF events, m, first
  <2> QED BY <2>2, <2>4
<1>5. lastSeq' = IF n > lastSeq /\ n > acked THEN n ELSE lastSeq
  BY DEF Accept
<1>6. lastSeq' \in Nat
  BY <1>1, <1>5
<1>7. acked' \in Nat
  BY <1>1, <1>6 DEF Accept
<1> HIDE DEF opened, events
<1> QED BY <1>2, <1>3, <1>4, <1>6, <1>7, ConcatProperties

\* The end of a launch adds at most two entries.
LEMMA ChildAdds ==
  ASSUME ChildEnds
  PROVE  \E new \in Seq(Raw) : Add(new)
<1> DEFINE exit == [session |-> "launch", seq |-> 0]
<1>1. PICK spawned \in BOOLEAN : Add(IF spawned THEN <<exit, exit>> ELSE << >>)
  BY DEF ChildEnds
<1>2. exit \in Raw
  BY DEF Raw, Session
<1> HIDE DEF exit
<1>3. <<exit, exit>> \in Seq(Raw) /\ << >> \in Seq(Raw)
  BY <1>2
<1> QED BY <1>1, <1>3

\* What is queued, what is read, and what is saved.
LEMMA GotIs ==
  ASSUME TypeOK
  PROVE  /\ Wanted(journal) \subseteq 1..Len(journal) /\ Got \subseteq Wanted(journal)
         /\ NextCursor \in Nat
         /\ Got # {} => \E g \in Got : (\A j \in Got : j <= g) /\ NextCursor = journal[g].cursor
<1>1. journal \in Seq(Entry) /\ Len(journal) \in Nat /\ cursor \in Nat
  BY LenProperties DEF TypeOK
<1>2. Wanted(journal) \subseteq 1..Len(journal) /\ Got \subseteq Wanted(journal)
  BY DEF Wanted, Got
<1>3. ASSUME Got # {} PROVE \E g \in Got : \A j \in Got : j <= g
  <2> DEFINE n == Len(journal)
             Back == {n - j : j \in Got}
             R == OpToRel(<, Nat)
  <2>1. \A j \in Got : j \in Nat /\ n - j \in Nat
    BY <1>1, <1>2
  <2>2. Back # {} /\ Back \in SUBSET Nat
    BY <2>1, <1>3
  <2>3. PICK x \in Back : \A y \in Back : ~(<<y, x>> \in R)
    <3>1. IsWellFoundedOn(R, Nat)
      BY NatLessThanWellFounded, Zenon
    <3> HIDE DEF R, Back
    <3> QED BY <2>2, <3>1, WFMin, Zenon
  <2>4. \A y, z \in Nat : <<y, z>> \in R <=> y < z
    BY DEF OpToRel
  <2> HIDE DEF R
  <2>5. PICK g \in Got : x = n - g
    OBVIOUS
  <2>6. ASSUME NEW j \in Got PROVE j <= g
    <3>1. n - j \in Back /\ n - j \in Nat /\ n - g \in Nat
      BY <2>1, <2>5
    <3>2. ~(n - j < n - g)
      BY <3>1, <2>3, <2>4, <2>5
    <3>3. n \in Nat /\ j \in Nat /\ g \in Nat
      BY <1>1, <2>1
    <3> HIDE DEF n
    <3> QED BY <3>2, <3>3
  <2> QED BY <2>5, <2>6
<1>4. CASE Got = {}
  BY <1>1, <1>2, <1>4 DEF NextCursor
<1>5. CASE Got # {}
  <2> DEFINE g == CHOOSE i \in Got : \A j \in Got : j <= i
  <2>1. g \in Got /\ \A j \in Got : j <= g
    BY <1>3, <1>5
  <2>2. NextCursor = journal[g].cursor
    BY <1>5 DEF NextCursor
  <2> HIDE DEF g
  <2>3. journal[g] \in Entry
    BY <1>1, <1>2, <2>1, ElementOfSeq
  <2> QED BY <1>2, <2>1, <2>2, <2>3 DEF Entry
<1> QED BY <1>4, <1>5

LEMMA ReturnType ==
  ASSUME TypeOK, Return
  PROVE  after' \in Nat /\ skipped' \in BOOLEAN /\ reader' = "idle" /\ filter' = filter
<1>1. NextCursor \in Nat /\ skipped \in BOOLEAN
  BY GotIs DEF TypeOK
<1>2. after' = NextCursor /\ reader' = "idle" /\ filter' = filter
  BY DEF Return
<1>3. skipped' \in BOOLEAN
  BY <1>1 DEF Return
<1> QED BY <1>1, <1>2, <1>3

LEMMA EmptyType ==
  << >> \in Seq(Entry) /\ << >> \in Seq(Seq(Entry)) /\ Len(<< >>) = 0 /\ 1..0 = {}
<1>1. \A S : << >> \in Seq(S)
  BY EmptySeq
<1>2. << >> \in Seq(Entry) /\ << >> \in Seq(Seq(Entry))
  BY <1>1, Zenon
<1>3. Len(<< >>) = 0
  BY EmptySeq
<1>4. 1..0 = {}
  OBVIOUS
<1> QED BY <1>2, <1>3, <1>4

LEMMA EndType ==
  ASSUME TypeOK, End, file' \in Seq(Entry), Len(file') <= SaveCap,
         faults' \in Nat, crashed' \in BOOLEAN
  PROVE  TypeOK'
<1>1. /\ journal' \in Seq(Entry) /\ Len(journal') = 0
      /\ chain' \in Seq(Seq(Entry)) /\ Len(chain') = 0 /\ 1..Len(chain') = {}
  BY EmptyType DEF End
<1>2. JournalCap \in Nat
  BY JournalAssumption
<1>3. /\ hub' = "down" /\ cursor' \in Nat /\ dirty' \in BOOLEAN /\ lastSeq' \in Nat
      /\ known' \in BOOLEAN /\ child' \in BOOLEAN /\ reader' = "idle"
      /\ UNCHANGED <<acked, filter, after, skipped, ever, late, lives, copy, stale>>
  BY DEF End, startVars
<1> QED BY <1>1, <1>2, <1>3 DEF TypeOK

LEMMA InitType == Init => TypeOK
<1> SUFFICES ASSUME Init PROVE TypeOK
  OBVIOUS
<1>1. JournalCap \in Nat /\ SaveCap \in Nat
  BY JournalAssumption
<1>2. /\ journal \in Seq(Entry) /\ file \in Seq(Entry) /\ ever \in Seq(Entry)
      /\ chain \in Seq(Seq(Entry)) /\ copy \in Seq(Entry)
      /\ Len(journal) = 0 /\ Len(file) = 0 /\ Len(copy) = 0 /\ 1..Len(chain) = {}
  BY EmptyType DEF Init
<1>3. /\ hub = "down" /\ cursor \in Nat /\ dirty \in BOOLEAN /\ lastSeq \in Nat
      /\ known \in BOOLEAN /\ child \in BOOLEAN /\ acked \in Nat
      /\ reader = "idle" /\ filter \in {"all", "agent"} /\ after \in Nat
      /\ skipped \in BOOLEAN /\ late \in BOOLEAN /\ stale \in BOOLEAN
      /\ lives \in Nat /\ faults \in Nat /\ crashed \in BOOLEAN
  BY DEF Init
<1>4. Len(journal) <= JournalCap /\ Len(file) <= SaveCap /\ Len(copy) <= SaveCap
  BY <1>1, <1>2
<1> QED BY <1>2, <1>3, <1>4, Zenon DEF TypeOK

\* The files and the snapshots that a step takes from the front of the chain are typed.
LEMMA HeadType ==
  ASSUME TypeOK, chain # << >>
  PROVE  /\ Head(chain) \in Seq(Entry) /\ Len(Head(chain)) <= SaveCap
         /\ Tail(chain) \in Seq(Seq(Entry))
         /\ \A i \in 1..Len(Tail(chain)) : Len(Tail(chain)[i]) <= SaveCap
<1>1. chain \in Seq(Seq(Entry)) /\ \A i \in 1..Len(chain) : Len(chain[i]) <= SaveCap
  BY DEF TypeOK
<1>2. Len(chain) \in Nat \ {0}
  BY <1>1, EmptySeq
<1>3. /\ Head(chain) \in Seq(Entry) /\ Tail(chain) \in Seq(Seq(Entry))
      /\ Len(Tail(chain)) = Len(chain) - 1
      /\ \A i \in 1..Len(Tail(chain)) : Tail(chain)[i] = chain[i + 1]
  BY <1>1, HeadTailProperties
<1>4. Head(chain) = chain[1]
  BY <1>1, <1>2
<1>5. \A i \in 1..Len(Tail(chain)) : i + 1 \in 1..Len(chain)
  BY <1>2, <1>3
<1> QED BY <1>1, <1>2, <1>3, <1>4, <1>5

\* A snapshot of the journal.
LEMMA SnapshotType ==
  ASSUME TypeOK
  PROVE  Recent(journal, SaveCap) \in Seq(Entry) /\ Len(Recent(journal, SaveCap)) <= SaveCap
<1>1. journal \in Seq(Entry) /\ Len(journal) \in Nat /\ SaveCap \in Nat
  BY JournalAssumption, LenProperties DEF TypeOK
<1> QED BY <1>1, RecentIsEnd

\* A bridge that is down has nothing to write, and one that is saving has.
ChainInv ==
  /\ hub = "down" => chain = << >>
  /\ hub = "saving" => chain # << >>

LEMMA TypeStep == TypeOK /\ ChainInv /\ [Next]_vars => TypeOK'
<1> SUFFICES ASSUME TypeOK, ChainInv, [Next]_vars PROVE TypeOK'
  OBVIOUS
<1> USE DEF memVars, readVars, lifeVars, startVars
<1>1. ASSUME NEW n \in acked..MaxSeq, Accept(n) PROVE TypeOK'
  <2>1. PICK new \in Seq(Raw) : Add(new)
    BY <1>1, AcceptAdds
  <2>2. /\ journal' \in Seq(Entry) /\ Len(journal') <= JournalCap
        /\ ever' \in Seq(Entry) /\ cursor' \in Nat
        /\ dirty' \in BOOLEAN /\ late' \in BOOLEAN /\ reader' \in {"idle", "waiting", "woken"}
    BY <2>1, AddType
  <2>3. lastSeq' \in Nat /\ acked' \in Nat
    BY <1>1, AcceptAdds
  <2>4. known' \in BOOLEAN /\ UNCHANGED <<hub, chain, child, file, filter, after, skipped, lifeVars, startVars>>
    BY <1>1 DEF Accept
  <2> QED BY <2>2, <2>3, <2>4 DEF TypeOK
<1>2. CASE Launch
  BY <1>2 DEF Launch, TypeOK
<1>3. CASE ChildEnds
  <2>1. PICK new \in Seq(Raw) : Add(new)
    BY <1>3, ChildAdds
  <2>2. /\ journal' \in Seq(Entry) /\ Len(journal') <= JournalCap
        /\ ever' \in Seq(Entry) /\ cursor' \in Nat
        /\ dirty' \in BOOLEAN /\ late' \in BOOLEAN /\ reader' \in {"idle", "waiting", "woken"}
    BY <2>1, AddType
  <2>3. /\ child' \in BOOLEAN
        /\ UNCHANGED <<hub, lastSeq, known, chain, file, acked, filter, after, skipped, lifeVars>>
        /\ UNCHANGED startVars
    BY <1>3 DEF ChildEnds
  <2> QED BY <2>2, <2>3 DEF TypeOK
<1>4. CASE Monitor
  <2> DEFINE snapshot == Recent(journal, SaveCap)
  <2>1. snapshot \in Seq(Entry) /\ Len(snapshot) <= SaveCap
    BY SnapshotType
  <2>2. chain' = Append(chain, snapshot) /\ chain \in Seq(Seq(Entry)) /\ Len(chain) \in Nat
    BY <1>4, LenProperties DEF Monitor, TypeOK
  <2> HIDE DEF snapshot
  <2>3. /\ chain' \in Seq(Seq(Entry)) /\ Len(chain') = Len(chain) + 1
        /\ \A i \in 1..Len(chain) : chain'[i] = chain[i]
        /\ chain'[Len(chain) + 1] = snapshot
    BY <2>1, <2>2, AppendProperties
  <2>4. ASSUME NEW i \in 1..Len(chain') PROVE Len(chain'[i]) <= SaveCap
    <3>1. i \in 1..Len(chain) \/ i = Len(chain) + 1
      BY <2>2, <2>3
    <3>2. \A j \in 1..Len(chain) : Len(chain[j]) <= SaveCap
      BY DEF TypeOK
    <3> QED BY <2>1, <2>3, <3>1, <3>2
  <2> QED BY <1>4, <2>3, <2>4 DEF Monitor, TypeOK
<1>5. CASE Save
  <2>1. chain # << >> /\ file' = Head(chain) /\ chain' = Tail(chain)
    BY <1>5 DEF Save
  <2>2. /\ file' \in Seq(Entry) /\ Len(file') <= SaveCap /\ chain' \in Seq(Seq(Entry))
        /\ \A i \in 1..Len(chain') : Len(chain'[i]) <= SaveCap
    BY <2>1, HeadType
  <2> QED BY <1>5, <2>2 DEF Save, TypeOK
<1>6. CASE SaveFails
  <2>1. chain # << >> /\ chain' = Tail(chain)
    BY <1>6 DEF SaveFails
  <2>2. chain' \in Seq(Seq(Entry)) /\ \A i \in 1..Len(chain') : Len(chain'[i]) <= SaveCap
    BY <2>1, HeadType
  <2> QED BY <1>6, <2>2 DEF SaveFails, TypeOK
<1>7. CASE Read \/ Resume
  <2>1. Return /\ UNCHANGED <<hub, memVars, chain, file, acked, ever, late, lifeVars, startVars>>
    BY <1>7 DEF Read, Resume
  <2> QED BY <2>1, ReturnType DEF TypeOK
<1>8. CASE Wait \/ GiveUp
  BY <1>8 DEF Wait, GiveUp, TypeOK
<1>9. CASE Listen
  <2>1. copy \in Seq(Entry) /\ Len(copy) \in Nat /\ Len(copy) <= SaveCap
    BY LenProperties DEF TypeOK
  <2>2. SaveCap \in Nat /\ SaveCap <= JournalCap /\ JournalCap \in Nat
    BY JournalAssumption
  <2>3. journal' = copy
    BY <1>9, <2>1 DEF Listen, Recent
  <2>4. cursor' \in Nat
    <3>1. CASE copy = << >>
      BY <1>9, <3>1 DEF Listen, NewestCursor
    <3>2. CASE copy # << >>
      <4>1. Len(copy) \in 1..Len(copy)
        BY <2>1, <3>2, EmptySeq
      <4>2. copy[Len(copy)] \in Entry
        BY <2>1, <4>1, ElementOfSeq
      <4> QED BY <1>9, <3>2, <4>2 DEF Listen, NewestCursor, Entry
    <3> QED BY <3>1, <3>2
  <2>5. journal' \in Seq(Entry) /\ Len(journal') <= JournalCap
    BY <2>1, <2>2, <2>3
  <2>6. stale' \in BOOLEAN
    BY <1>9 DEF Listen, TypeOK
  <2> QED BY <1>9, <2>4, <2>5, <2>6 DEF Listen, TypeOK
<1>10. CASE BeginClose
  BY <1>10 DEF BeginClose, TypeOK
<1>11. CASE CloseDirty
  <2> DEFINE snapshot == Recent(journal, SaveCap)
  <2>1. snapshot \in Seq(Entry) /\ Len(snapshot) <= SaveCap
    BY SnapshotType
  <2>2. chain' = <<snapshot>>
    BY <1>11 DEF CloseDirty
  <2> HIDE DEF snapshot
  <2>3. chain' \in Seq(Seq(Entry)) /\ \A i \in 1..Len(chain') : Len(chain'[i]) <= SaveCap
    BY <2>1, <2>2
  <2> QED BY <1>11, <2>3 DEF CloseDirty, TypeOK
<1>12. CASE CloseClean
  BY <1>12, EndType DEF CloseClean, TypeOK
<1>13. CASE EndClose
  <2>1. chain # << >> /\ file' = Head(chain) /\ End /\ UNCHANGED <<faults, crashed>>
    BY <1>13 DEF EndClose, ChainInv
  <2>2. file' \in Seq(Entry) /\ Len(file') <= SaveCap
    BY <2>1, HeadType
  <2> QED BY <2>1, <2>2, EndType DEF TypeOK
<1>14. CASE Crash
  BY <1>14, EndType DEF Crash, TypeOK
<1>15. CASE Load
  BY <1>15 DEF Load, TypeOK
<1>16. CASE UNCHANGED vars
  BY <1>16 DEF vars, TypeOK
<1> QED BY <1>1, <1>2, <1>3, <1>4, <1>5, <1>6, <1>7, <1>8, <1>9, <1>10, <1>11, <1>12, <1>13,
           <1>14, <1>15, <1>16 DEF Next

LEMMA ChainStep == ChainInv /\ [Next]_vars => ChainInv'
<1> SUFFICES ASSUME ChainInv, [Next]_vars PROVE ChainInv'
  OBVIOUS
<1> USE DEF ChainInv
<1>1. ASSUME NEW n \in acked..MaxSeq, Accept(n) PROVE ChainInv'
  BY <1>1 DEF Accept
<1>2. CASE Launch \/ ChildEnds
  BY <1>2 DEF Launch, ChildEnds
<1>3. CASE Monitor
  BY <1>3 DEF Monitor
<1>4. CASE Save \/ SaveFails
  BY <1>4 DEF Save, SaveFails
<1>5. CASE Read \/ Wait \/ GiveUp \/ Resume
  BY <1>5 DEF Read, Wait, GiveUp, Resume
<1>6. CASE Load \/ Listen
  BY <1>6 DEF Load, Listen
<1>7. CASE BeginClose
  BY <1>7 DEF BeginClose
<1>8. CASE CloseDirty
  <2> DEFINE snapshot == Recent(journal, SaveCap)
  <2>1. hub' = "saving" /\ chain' = <<snapshot>>
    BY <1>8 DEF CloseDirty
  <2> HIDE DEF snapshot
  <2> QED BY <2>1
<1>9. CASE CloseClean \/ EndClose \/ Crash
  BY <1>9 DEF CloseClean, EndClose, Crash, End
<1>10. CASE UNCHANGED vars
  BY <1>10 DEF vars
<1> QED BY <1>1, <1>2, <1>3, <1>4, <1>5, <1>6, <1>7, <1>8, <1>9, <1>10 DEF Next

LEMMA TypeInv == Spec => [](TypeOK /\ ChainInv)
<1>1. Init => TypeOK /\ ChainInv
  BY InitType DEF Init, ChainInv
<1>2. TypeOK /\ ChainInv /\ [Next]_vars => (TypeOK /\ ChainInv)'
  BY TypeStep, ChainStep
<1> QED BY <1>1, <1>2, PTL DEF Spec

\* The state of the bridge, of its file and of the reader is what the module says: the journal and
\* the file never hold more than their limits.
THEOREM Typing == Spec => []TypeOK
BY TypeInv, PTL
-----------------------------------------------------------------------------
(* What the journal keeps of all there ever was.                           *)

Calm == ~crashed /\ ~late /\ ~stale

\* Unless a bridge crashed, lost an event to close() or began with what was no longer in the
\* file, cursors go on over all lives, and the journal is the end of what was ever added, at
\* least as much of it as is saved.
HistoryInv ==
  /\ Calm => \A i \in 1..Len(ever) : ever[i].cursor = i
  /\ (Calm /\ hub # "down") => /\ cursor = Len(ever)
                               /\ EndOf(journal, ever)
                               /\ Len(journal) = Len(ever) \/ Len(journal) >= SaveCap

\* Nobody waits for, and nothing runs in, a bridge that is down.
AliveInv == (child = TRUE \/ reader # "idle") => hub # "down"

Newest == Recent(ever, SaveCap)

\* Without such a loss the newest entries are in the file, in the snapshot that is written
\* last, or marked dirty.
FileInv ==
  Calm =>
    /\ hub = "down" => file = Newest
    /\ (hub \in {"up", "draining"} /\ dirty = FALSE) =>
         /\ chain = << >> => file = Newest
         /\ chain # << >> => chain[Len(chain)] = Newest
    /\ hub = "saving" => chain = <<Newest>>

LEMMA AddHistory ==
  ASSUME TypeOK, HistoryInv, hub # "down", NEW new \in Seq(Raw), Add(new),
         crashed' = crashed, hub' = hub, stale' = stale
  PROVE  HistoryInv'
<1> SUFFICES ASSUME Calm'
             PROVE  /\ \A i \in 1..Len(ever') : ever'[i].cursor = i
                    /\ cursor' = Len(ever')
                    /\ EndOf(journal', ever')
                    /\ Len(journal') = Len(ever') \/ Len(journal') >= SaveCap
  BY DEF HistoryInv, EndOf
<1> DEFINE added == Numbered(new)
           whole == journal \o added
<1>1. cursor \in Nat /\ journal \in Seq(Entry) /\ ever \in Seq(Entry)
  BY DEF TypeOK
<1>2. Len(journal) \in Nat /\ Len(ever) \in Nat /\ Len(new) \in Nat
  BY <1>1, LenProperties
<1>3. SaveCap \in Nat /\ JournalCap \in Nat /\ SaveCap <= JournalCap
  BY JournalAssumption
<1>4. Calm
  BY DEF Calm, Add, TypeOK
<1>5. /\ \A i \in 1..Len(ever) : ever[i].cursor = i
      /\ cursor = Len(ever) /\ EndOf(journal, ever)
      /\ Len(journal) = Len(ever) \/ Len(journal) >= SaveCap
  BY <1>4 DEF HistoryInv
<1>6. /\ added \in Seq(Entry) /\ Len(added) = Len(new)
      /\ \A i \in 1..Len(new) : added[i].cursor = cursor + i
  BY <1>1, NumberedIs
<1>7. ever' = ever \o added /\ journal' = Recent(whole, JournalCap) /\ cursor' = cursor + Len(new)
  BY DEF Add
<1> HIDE DEF added
<1>8. /\ ever' \in Seq(Entry) /\ Len(ever') = Len(ever) + Len(new)
      /\ \A i \in 1..(Len(ever) + Len(new)) :
           ever'[i] = IF i <= Len(ever) THEN ever[i] ELSE added[i - Len(ever)]
  <2>1. /\ ever \o added \in Seq(Entry) /\ Len(ever \o added) = Len(ever) + Len(added)
        /\ \A i \in 1..(Len(ever) + Len(added)) :
             (ever \o added)[i] = IF i <= Len(ever) THEN ever[i] ELSE added[i - Len(ever)]
    BY <1>1, <1>6, ConcatProperties
  <2> QED BY <1>6, <1>7, <2>1
<1>9. ASSUME NEW i \in 1..Len(ever') PROVE ever'[i].cursor = i
  <2>1. i \in 1..(Len(ever) + Len(new))
    BY <1>8
  <2>2. CASE i <= Len(ever)
    BY <1>2, <1>5, <1>8, <2>1, <2>2
  <2>3. CASE ~(i <= Len(ever))
    <3>1. i - Len(ever) \in 1..Len(new) /\ cursor + (i - Len(ever)) = i
      BY <1>2, <1>5, <2>1, <2>3
    <3>2. ever'[i] = added[i - Len(ever)]
      BY <1>8, <2>1, <2>3
    <3> QED BY <1>6, <3>1, <3>2
  <2> QED BY <2>2, <2>3
<1>10. cursor' = Len(ever')
  BY <1>2, <1>5, <1>7, <1>8
<1>11. whole \in Seq(Entry) /\ Len(whole) = Len(journal) + Len(new)
  <2>1. whole \in Seq(Entry) /\ Len(whole) = Len(journal) + Len(added)
    BY <1>1, <1>6, ConcatProperties
  <2> QED BY <1>6, <2>1
<1>12. EndOf(whole, ever')
  BY <1>1, <1>5, <1>6, <1>7, EndOfConcat
<1> HIDE DEF whole
<1>13. /\ journal' \in Seq(Entry) /\ EndOf(journal', whole)
       /\ Len(journal') = IF Len(whole) <= JournalCap THEN Len(whole) ELSE JournalCap
  BY <1>3, <1>7, <1>11, RecentIsEnd
<1>14. EndOf(journal', ever')
  <2>1. journal' \in Seq(Entry) /\ whole \in Seq(Entry) /\ ever' \in Seq(Entry)
    BY <1>8, <1>11, <1>13
  <2>2. EndOf(journal', whole) /\ EndOf(whole, ever')
    BY <1>12, <1>13
  <2> QED BY <2>1, <2>2, EndOfEnd
<1>15. Len(journal') = Len(ever') \/ Len(journal') >= SaveCap
  <2>1. /\ Len(ever') = Len(ever) + Len(new) /\ Len(whole) = Len(journal) + Len(new)
        /\ Len(journal) = Len(ever) \/ Len(journal) >= SaveCap
    BY <1>5, <1>8, <1>11
  <2>2. CASE Len(whole) <= JournalCap
    <3>1. Len(journal') = Len(whole)
      BY <1>13, <2>2
    <3>2. CASE Len(journal) = Len(ever)
      BY <2>1, <3>1, <3>2
    <3>3. CASE Len(journal) >= SaveCap
      <4>1. Len(journal) + Len(new) >= SaveCap
        BY <1>2, <1>3, <3>3
      <4> QED BY <2>1, <3>1, <4>1
    <3> QED BY <2>1, <3>2, <3>3
  <2>3. CASE ~(Len(whole) <= JournalCap)
    <3>1. Len(journal') = JournalCap
      BY <1>13, <2>3
    <3> QED BY <1>3, <3>1
  <2> QED BY <2>2, <2>3
<1> QED BY <1>9, <1>10, <1>14, <1>15

\* A bridge that has read what is still in the file takes over the whole history.
LEMMA ListenHistory ==
  ASSUME TypeOK, HistoryInv, FileInv, Listen
  PROVE  HistoryInv'
<1> SUFFICES ASSUME Calm'
             PROVE  /\ \A i \in 1..Len(ever') : ever'[i].cursor = i
                    /\ cursor' = Len(ever')
                    /\ EndOf(journal', ever')
                    /\ Len(journal') = Len(ever') \/ Len(journal') >= SaveCap
  BY DEF HistoryInv, EndOf
<1>1. ever \in Seq(Entry) /\ Len(ever) \in Nat /\ SaveCap \in Nat /\ SaveCap > 0
  BY JournalAssumption, LenProperties DEF TypeOK
<1>2. Calm /\ copy = file
  BY DEF Calm, Listen, TypeOK
<1>3. hub = "down" /\ ever' = ever /\ journal' = Recent(file, SaveCap) /\ cursor' = NewestCursor(file)
  BY <1>2 DEF Listen
<1>4. file = Newest /\ \A i \in 1..Len(ever) : ever[i].cursor = i
  BY <1>3, <1>2 DEF FileInv, HistoryInv
<1>5. /\ file \in Seq(Entry) /\ EndOf(file, ever)
      /\ Len(file) = IF Len(ever) <= SaveCap THEN Len(ever) ELSE SaveCap
  BY <1>1, <1>4, RecentIsEnd DEF Newest
<1>6. journal' = file
  <2>1. Len(file) <= SaveCap
    BY <1>1, <1>5
  <2> QED BY <1>3, <2>1 DEF Recent
<1>7. cursor' = Len(ever)
  <2>1. CASE file = << >>
    <3>1. Len(file) = 0
      BY <2>1, EmptyType
    <3> QED BY <1>1, <1>3, <1>5, <2>1, <3>1 DEF NewestCursor
  <2>2. CASE file # << >>
    <3>1. Len(file) \in 1..Len(file) /\ Len(file) \in Nat /\ Len(file) > 0
      BY <1>5, <2>2, EmptySeq
    <3>2. file[Len(file)] = ever[Len(ever) - Len(file) + Len(file)]
      BY <1>5, <3>1 DEF EndOf
    <3>3. Len(ever) - Len(file) + Len(file) = Len(ever) /\ Len(ever) \in 1..Len(ever)
      BY <1>1, <1>5, <3>1
    <3> QED BY <1>3, <1>4, <2>2, <3>2, <3>3 DEF NewestCursor
  <2> QED BY <2>1, <2>2
<1> QED BY <1>1, <1>3, <1>4, <1>5, <1>6, <1>7

LEMMA HistoryStep ==
  TypeOK /\ HistoryInv /\ AliveInv /\ FileInv /\ [Next]_vars => HistoryInv'
<1> SUFFICES ASSUME TypeOK, HistoryInv, AliveInv, FileInv, [Next]_vars PROVE HistoryInv'
  OBVIOUS
<1> USE DEF memVars, readVars, lifeVars, startVars
<1>1. ASSUME NEW n \in acked..MaxSeq, Accept(n) PROVE HistoryInv'
  <2>1. PICK new \in Seq(Raw) : Add(new)
    BY <1>1, AcceptAdds
  <2>2. hub # "down" /\ crashed' = crashed /\ hub' = hub /\ stale' = stale
    BY <1>1 DEF Accept
  <2> QED BY <2>1, <2>2, AddHistory
<1>2. CASE ChildEnds
  <2>1. PICK new \in Seq(Raw) : Add(new)
    BY <1>2, ChildAdds
  <2>2. hub # "down" /\ crashed' = crashed /\ hub' = hub /\ stale' = stale
    BY <1>2 DEF ChildEnds, AliveInv
  <2> QED BY <2>1, <2>2, AddHistory
<1>3. CASE Listen
  BY <1>3, ListenHistory
<1>4. CASE CloseClean \/ EndClose \/ Crash
  <2>1. hub' = "down" /\ ever' = ever /\ late' = late /\ (Calm' => Calm)
    BY <1>4 DEF CloseClean, EndClose, Crash, End, Calm
  <2> QED BY <2>1 DEF HistoryInv
<1>5. CASE UNCHANGED <<journal, cursor, ever, late, crashed, stale>> /\ (hub' # "down" => hub # "down")
  BY <1>5 DEF HistoryInv, Calm, EndOf
<1>6. Launch \/ Monitor \/ Save \/ SaveFails \/ Read \/ Wait \/ GiveUp \/ Resume \/ Load
        \/ BeginClose \/ CloseDirty \/ UNCHANGED vars
      => UNCHANGED <<journal, cursor, ever, late, crashed, stale>> /\ (hub' # "down" => hub # "down")
  BY DEF Launch, Monitor, Save, SaveFails, Read, Wait, GiveUp, Resume, Load, BeginClose, CloseDirty,
         vars
<1> QED BY <1>1, <1>2, <1>3, <1>4, <1>5, <1>6 DEF Next

LEMMA AliveStep == AliveInv /\ [Next]_vars => AliveInv'
<1> SUFFICES ASSUME AliveInv, [Next]_vars PROVE AliveInv'
  OBVIOUS
<1> USE DEF AliveInv, memVars, readVars, lifeVars
<1>1. ASSUME NEW n \in acked..MaxSeq, Accept(n) PROVE AliveInv'
  BY <1>1 DEF Accept
<1>2. CASE ChildEnds
  <2>1. PICK new \in Seq(Raw) : Add(new)
    BY <1>2, ChildAdds
  <2> QED BY <1>2, <2>1 DEF ChildEnds, Add
<1>3. CASE Launch \/ Monitor \/ Save \/ SaveFails
  BY <1>3 DEF Launch, Monitor, Save, SaveFails
<1>4. CASE Read \/ Wait \/ GiveUp \/ Resume
  BY <1>4 DEF Read, Wait, GiveUp, Resume, Return
<1>5. CASE Load \/ Listen \/ BeginClose \/ CloseDirty
  BY <1>5 DEF Load, Listen, BeginClose, CloseDirty
<1>6. CASE CloseClean \/ EndClose \/ Crash
  BY <1>6 DEF CloseClean, EndClose, Crash, End
<1>7. CASE UNCHANGED vars
  BY <1>7 DEF vars
<1> QED BY <1>1, <1>2, <1>3, <1>4, <1>5, <1>6, <1>7 DEF Next
-----------------------------------------------------------------------------
(* What a closed bridge leaves behind.                                     *)

\* A snapshot of the journal holds the newest entries.
LEMMA SnapshotIsNewest ==
  ASSUME TypeOK, HistoryInv, Calm, hub # "down"
  PROVE  Recent(journal, SaveCap) = Newest
<1>1. journal \in Seq(Entry) /\ ever \in Seq(Entry) /\ SaveCap \in Nat
  BY JournalAssumption DEF TypeOK
<1>2. EndOf(journal, ever) /\ (Len(journal) = Len(ever) \/ Len(journal) >= SaveCap)
  BY DEF HistoryInv
<1> QED BY <1>1, <1>2, RecentOfEnd DEF Newest

\* An entry that is added makes the journal dirty, or comes while close() is writing.
LEMMA AddFile ==
  ASSUME TypeOK, FileInv, hub # "down", NEW new \in Seq(Raw), Add(new),
         UNCHANGED <<hub, chain, file, crashed, stale>>
  PROVE  FileInv'
<1>1. cursor \in Nat /\ ever \in Seq(Entry)
  BY DEF TypeOK
<1>2. Calm' => Calm
  BY DEF Calm, Add
<1>3. CASE new = << >>
  <2>1. Numbered(new) \in Seq(Entry) /\ Len(Numbered(new)) = 0
    BY <1>1, <1>3, NumberedIs, EmptyType
  <2>2. Numbered(new) = << >>
    BY <2>1, EmptySeq
  <2>3. ever' = ever
    BY <1>1, <2>2, ConcatEmptySeq DEF Add
  <2>4. dirty' = dirty
    BY <1>3 DEF Add, TypeOK
  <2>5. Newest' = Newest
    BY <2>3 DEF Newest, Recent
  <2> QED BY <1>2, <2>4, <2>5 DEF FileInv
<1>4. CASE new # << >>
  <2>1. dirty' = TRUE /\ (Calm' => hub # "saving")
    BY <1>4 DEF Add, Calm
  <2> QED BY <2>1 DEF FileInv
<1> QED BY <1>3, <1>4

LEMMA FileStep ==
  TypeOK /\ ChainInv /\ HistoryInv /\ AliveInv /\ FileInv /\ [Next]_vars => FileInv'
<1> SUFFICES ASSUME TypeOK, ChainInv, HistoryInv, AliveInv, FileInv, [Next]_vars PROVE FileInv'
  OBVIOUS
<1> USE DEF memVars, readVars, lifeVars, startVars
<1>0. ASSUME ever' = ever PROVE Newest' = Newest
  BY <1>0 DEF Newest, Recent
<1>1. ASSUME NEW n \in acked..MaxSeq, Accept(n) PROVE FileInv'
  <2>1. PICK new \in Seq(Raw) : Add(new)
    BY <1>1, AcceptAdds
  <2>2. hub # "down" /\ UNCHANGED <<hub, chain, file, crashed, stale>>
    BY <1>1 DEF Accept
  <2> QED BY <2>1, <2>2, AddFile
<1>2. CASE ChildEnds
  <2>1. PICK new \in Seq(Raw) : Add(new)
    BY <1>2, ChildAdds
  <2>2. hub # "down" /\ UNCHANGED <<hub, chain, file, crashed, stale>>
    BY <1>2 DEF ChildEnds, AliveInv
  <2> QED BY <2>1, <2>2, AddFile
<1>3. CASE Monitor
  <2> DEFINE snapshot == Recent(journal, SaveCap)
  <2>1. /\ hub = "up" /\ hub' = "up" /\ chain' = Append(chain, snapshot)
        /\ Newest' = Newest /\ (Calm' => Calm)
    BY <1>0, <1>3 DEF Monitor, Calm
  <2>2. Calm => snapshot = Newest
    BY <2>1, SnapshotIsNewest
  <2>3. chain \in Seq(Seq(Entry)) /\ snapshot \in Seq(Entry)
    BY SnapshotType DEF TypeOK
  <2> HIDE DEF snapshot
  <2>4. chain' # << >> /\ Len(chain') = Len(chain) + 1 /\ chain'[Len(chain) + 1] = snapshot
    BY <2>1, <2>3, AppendProperties
  <2> QED BY <2>1, <2>2, <2>4 DEF FileInv
<1>4. CASE Save
  <2>1. /\ hub \in {"up", "draining"} /\ hub' = hub /\ dirty' = dirty /\ chain # << >>
        /\ file' = Head(chain) /\ chain' = Tail(chain)
        /\ Newest' = Newest /\ (Calm' => Calm)
    BY <1>0, <1>4 DEF Save, Calm
  <2>2. SUFFICES ASSUME Calm, dirty = FALSE
                 PROVE  /\ chain' = << >> => file' = Newest
                        /\ chain' # << >> => chain'[Len(chain')] = Newest
    BY <2>1 DEF FileInv
  <2>3. chain[Len(chain)] = Newest
    BY <2>1, <2>2 DEF FileInv
  <2>4. chain \in Seq(Seq(Entry)) /\ Len(chain) \in Nat \ {0}
    BY <2>1, EmptySeq DEF TypeOK
  <2>5. /\ chain' \in Seq(Seq(Entry)) /\ Len(chain') = Len(chain) - 1
        /\ \A i \in 1..Len(chain') : chain'[i] = chain[i + 1]
    BY <2>1, <2>4, HeadTailProperties
  <2>6. CASE chain' = << >>
    <3>1. Len(chain) = 1
      BY <2>4, <2>5, <2>6, EmptyType
    <3>2. file' = chain[1]
      BY <2>1, <2>4
    <3> QED BY <2>3, <2>6, <3>1, <3>2
  <2>7. CASE chain' # << >>
    <3>1. Len(chain') \in 1..Len(chain') /\ Len(chain') + 1 = Len(chain)
      BY <2>4, <2>5, <2>7, EmptySeq
    <3>2. chain'[Len(chain')] = chain[Len(chain)]
      BY <2>5, <3>1
    <3> QED BY <2>3, <2>7, <3>2
  <2> QED BY <2>6, <2>7
<1>5. CASE SaveFails
  BY <1>5 DEF SaveFails, FileInv
<1>6. CASE Listen
  <2>1. hub = "down" /\ hub' = "up" /\ UNCHANGED <<chain, file>> /\ Newest' = Newest /\ (Calm' => Calm)
    <3>1. Calm' => Calm
      BY <1>6 DEF Listen, Calm, TypeOK
    <3> QED BY <1>0, <1>6, <3>1 DEF Listen
  <2> QED BY <2>1 DEF FileInv, ChainInv
<1>7. CASE BeginClose
  <2>1. /\ hub = "up" /\ hub' = "draining" /\ UNCHANGED <<dirty, chain, file>>
        /\ Newest' = Newest /\ (Calm' => Calm)
    BY <1>0, <1>7 DEF BeginClose, Calm
  <2> QED BY <2>1 DEF FileInv
<1>8. CASE CloseDirty
  <2> DEFINE snapshot == Recent(journal, SaveCap)
  <2>1. /\ hub = "draining" /\ hub' = "saving" /\ chain' = <<snapshot>>
        /\ Newest' = Newest /\ (Calm' => Calm)
    BY <1>0, <1>8 DEF CloseDirty, Calm
  <2>2. Calm => snapshot = Newest
    BY <2>1, SnapshotIsNewest
  <2> HIDE DEF snapshot
  <2> QED BY <2>1, <2>2 DEF FileInv
<1>9. CASE CloseClean
  <2>1. /\ hub = "draining" /\ dirty = FALSE /\ chain = << >> /\ hub' = "down" /\ file' = file
        /\ Newest' = Newest /\ (Calm' => Calm)
    BY <1>0, <1>9 DEF CloseClean, End, Calm, TypeOK
  <2> QED BY <2>1 DEF FileInv
<1>10. CASE EndClose
  <2>1. /\ hub = "saving" /\ hub' = "down" /\ file' = Head(chain)
        /\ Newest' = Newest /\ (Calm' => Calm)
    BY <1>0, <1>10 DEF EndClose, End, Calm
  <2>2. Calm => file' = Newest
    <3>1. Calm => chain = <<Newest>>
      BY <2>1 DEF FileInv
    <3> QED BY <2>1, <3>1
  <2> QED BY <2>1, <2>2 DEF FileInv
<1>11. CASE Crash
  BY <1>11 DEF Crash, FileInv, Calm
<1>12. CASE UNCHANGED <<hub, dirty, chain, file, ever, late, crashed, stale>>
  <2>1. Newest' = Newest /\ Calm' = Calm
    BY <1>0, <1>12 DEF Calm
  <2> QED BY <1>12, <2>1 DEF FileInv
<1>13. Launch \/ Read \/ Wait \/ GiveUp \/ Resume \/ Load \/ UNCHANGED vars
         => UNCHANGED <<hub, dirty, chain, file, ever, late, crashed, stale>>
  BY DEF Launch, Read, Wait, GiveUp, Resume, Load, vars
<1> QED BY <1>1, <1>2, <1>3, <1>4, <1>5, <1>6, <1>7, <1>8, <1>9, <1>10, <1>11, <1>12, <1>13 DEF Next

JournalInv == TypeOK /\ ChainInv /\ HistoryInv /\ AliveInv /\ FileInv

LEMMA JournalInvariant == Spec => []JournalInv
<1>1. Init => JournalInv
  <2> SUFFICES ASSUME Init PROVE JournalInv
    OBVIOUS
  <2>1. TypeOK
    BY InitType
  <2>2. hub = "down" /\ chain = << >> /\ file = << >> /\ ever = << >> /\ child = FALSE /\ reader = "idle"
    BY DEF Init
  <2>3. Newest = << >>
    <3>1. SaveCap \in Nat /\ Len(ever) = 0
      BY <2>2, EmptyType, JournalAssumption
    <3> QED BY <2>2, <3>1 DEF Newest, Recent
  <2>4. 1..Len(ever) = {}
    BY <2>2, EmptyType
  <2> QED BY <2>1, <2>2, <2>3, <2>4 DEF JournalInv, ChainInv, HistoryInv, AliveInv, FileInv
<1>2. JournalInv /\ [Next]_vars => JournalInv'
  BY TypeStep, ChainStep, HistoryStep, AliveStep, FileStep DEF JournalInv
<1> QED BY <1>1, <1>2, PTL DEF Spec

\* A bridge that was closed leaves the newest entries of all its lives in events.json, unless one
\* crashed, an event came while close() was writing, or a bridge began with what it had read before
\* another one wrote.
THEOREM History == Spec => []CloseKeepsHistory
<1>1. JournalInv => CloseKeepsHistory
  BY DEF JournalInv, FileInv, Calm, Newest, CloseKeepsHistory
<1> QED BY <1>1, JournalInvariant, PTL
-----------------------------------------------------------------------------
(* The reader.                                                             *)

\* An entry that comes for a sleeping reader wakes it.
LEMMA AddWakes ==
  ASSUME TypeOK, NoSleepingReader, NEW new \in Seq(Raw), Add(new), UNCHANGED <<filter, after>>
  PROVE  NoSleepingReader'
<1> SUFFICES ASSUME reader' = "waiting", NEW i \in Wanted(journal)' PROVE FALSE
  BY DEF NoSleepingReader
<1> DEFINE added == Numbered(new)
           whole == journal \o added
<1>1. journal \in Seq(Entry) /\ cursor \in Nat /\ JournalCap \in Nat
  BY JournalAssumption DEF TypeOK
<1>2. added \in Seq(Entry)
  BY <1>1, NumberedIs
<1>3. reader = "waiting" /\ Wanted(added) = {} /\ journal' = Recent(whole, JournalCap)
  BY DEF Add
<1>4. Wanted(journal) = {}
  BY <1>3 DEF NoSleepingReader
<1> HIDE DEF added
<1>5. /\ whole \in Seq(Entry) /\ Len(whole) = Len(journal) + Len(added)
      /\ \A k \in 1..(Len(journal) + Len(added)) :
           whole[k] = IF k <= Len(journal) THEN journal[k] ELSE added[k - Len(journal)]
  BY <1>1, <1>2, ConcatProperties
<1> HIDE DEF whole
<1>6. journal' \in Seq(Entry) /\ EndOf(journal', whole)
  BY <1>1, <1>3, <1>5, RecentIsEnd
<1>7. Len(journal) \in Nat /\ Len(added) \in Nat /\ Len(whole) \in Nat /\ Len(journal') \in Nat
  BY <1>1, <1>2, <1>5, <1>6, LenProperties
<1>8. /\ i \in 1..Len(journal')
      /\ journal'[i].cursor > after /\ filter \in {"all", journal'[i].session}
  BY DEF Wanted
<1>9. PICK k \in 1..(Len(journal) + Len(added)) : journal'[i] = whole[k]
  <2>1. Len(whole) - Len(journal') + i \in 1..Len(whole)
    BY <1>6, <1>7, <1>8 DEF EndOf
  <2> QED BY <1>5, <1>6, <1>8, <2>1 DEF EndOf
<1>10. CASE k <= Len(journal)
  <2>1. k \in 1..Len(journal) /\ journal'[i] = journal[k]
    BY <1>5, <1>7, <1>9, <1>10
  <2> QED BY <1>4, <1>8, <2>1 DEF Wanted
<1>11. CASE ~(k <= Len(journal))
  <2>1. k - Len(journal) \in 1..Len(added)
    BY <1>7, <1>9, <1>11
  <2>2. journal'[i] = added[k - Len(journal)]
    BY <1>5, <1>9, <1>11
  <2> QED BY <1>3, <1>8, <2>1, <2>2 DEF Wanted
<1> QED BY <1>10, <1>11

\* An answer has no gaps: whatever the reader wants up to its next cursor is in it.
LEMMA GotAll ==
  ASSUME TypeOK, NEW k \in Wanted(journal), NEW g \in Got, k <= g
  PROVE  k \in Got
<1> DEFINE Before(i) == {j \in Wanted(journal) : j < i}
<1>1. Len(journal) \in Nat /\ Wanted(journal) \subseteq 1..Len(journal) /\ g \in Wanted(journal)
  BY GotIs, LenProperties DEF TypeOK
<1>2. ReadCap \in Nat
  BY JournalAssumption
<1>3. IsFiniteSet(Before(g))
  <2>1. IsFiniteSet(1..Len(journal))
    BY <1>1, FS_Interval
  <2>2. Before(g) \subseteq 1..Len(journal)
    BY <1>1
  <2> HIDE DEF Before
  <2> QED BY <2>1, <2>2, FS_Subset
<1>4. Before(k) \subseteq Before(g)
  BY <1>1
<1>5. Cardinality(Before(g)) < ReadCap
  BY DEF Got
<1> HIDE DEF Before
<1>6. /\ IsFiniteSet(Before(k)) /\ Cardinality(Before(k)) <= Cardinality(Before(g))
  BY <1>3, <1>4, FS_Subset
<1>7. Cardinality(Before(k)) \in Nat /\ Cardinality(Before(g)) \in Nat
  BY <1>3, <1>6, FS_CardinalityType
<1>8. Cardinality(Before(k)) < ReadCap
  BY <1>2, <1>5, <1>6, <1>7
<1> QED BY <1>8 DEF Got, Before

\* A reader for which there is something gets something.
LEMMA GotSome ==
  ASSUME TypeOK, Wanted(journal) # {}
  PROVE  Got # {}
<1>1. Wanted(journal) \in SUBSET Nat /\ ReadCap \in Nat /\ ReadCap > 0
  BY GotIs, JournalAssumption, LenProperties DEF TypeOK
<1> DEFINE R == OpToRel(<, Nat)
<1>2. PICK x \in Wanted(journal) : \A y \in Wanted(journal) : ~(<<y, x>> \in R)
  <2>1. IsWellFoundedOn(R, Nat)
    BY NatLessThanWellFounded, Zenon
  <2> HIDE DEF R
  <2> QED BY <1>1, <2>1, WFMin, Zenon
<1>3. \A y, z \in Nat : <<y, z>> \in R <=> y < z
  BY DEF OpToRel
<1> HIDE DEF R
<1>4. {j \in Wanted(journal) : j < x} = {}
  BY <1>1, <1>2, <1>3
<1>5. Cardinality({j \in Wanted(journal) : j < x}) = 0
  BY <1>4, FS_EmptySet
<1> QED BY <1>1, <1>5 DEF Got

\* An answer passes no entry the reader wants, unless it says that the journal has lost some.
LEMMA ReturnServes ==
  ASSUME TypeOK, HistoryInv, hub # "down", Calm, skipped = FALSE, Return
  PROVE  skipped' = FALSE
<1> DEFINE first == IF journal = << >> THEN 0 ELSE journal[1].cursor
           floor == IF after = 0 \/ Truncated(first) THEN first - 1 ELSE after
           d     == Len(ever) - Len(journal)
<1> SUFFICES ASSUME NEW i \in 1..Len(ever),
                    floor < ever[i].cursor, ever[i].cursor <= NextCursor,
                    filter \in {"all", ever[i].session},
                    \A j \in Got : journal[j] # ever[i]
             PROVE  FALSE
  BY DEF Return
<1>1. journal \in Seq(Entry) /\ ever \in Seq(Entry) /\ after \in Nat /\ cursor \in Nat
  BY DEF TypeOK
<1>2. Len(journal) \in Nat /\ Len(ever) \in Nat
  BY <1>1, LenProperties
<1>3. /\ \A j \in 1..Len(ever) : ever[j].cursor = j
      /\ Len(journal) <= Len(ever) /\ \A k \in 1..Len(journal) : journal[k] = ever[d + k]
      /\ Len(journal) = Len(ever) \/ Len(journal) >= SaveCap
  BY DEF HistoryInv, EndOf
<1>4. Len(journal) > 0
  <2>1. SaveCap \in Nat /\ SaveCap > 0
    BY JournalAssumption
  <2> QED BY <1>2, <1>3, <2>1
<1>5. ever[i].cursor = i
  BY <1>3
<1>6. d \in Nat /\ \A k \in 1..Len(journal) : d + k \in 1..Len(ever) /\ journal[k].cursor = d + k
  <2>1. d \in Nat /\ \A k \in 1..Len(journal) : d + k \in 1..Len(ever)
    BY <1>2, <1>3
  <2> HIDE DEF d
  <2> QED BY <1>3, <2>1
<1>7. first = d + 1
  BY <1>2, <1>4, <1>6, EmptyType
<1> HIDE DEF d, first
<1>8. i > d /\ i > after
  <2>1. i > floor
    BY <1>5
  <2>2. CASE after = 0
    BY <1>6, <1>7, <2>1, <2>2
  <2>3. CASE after # 0 /\ Truncated(first)
    BY <1>1, <1>6, <1>7, <2>1, <2>3 DEF Truncated
  <2>4. CASE after # 0 /\ ~Truncated(first)
    BY <1>1, <1>6, <1>7, <2>1, <2>4 DEF Truncated
  <2> QED BY <2>2, <2>3, <2>4
<1> HIDE DEF floor
<1> DEFINE k == i - d
<1>9. k \in 1..Len(journal) /\ d + k = i
  <2>1. d \in Nat /\ i \in Nat /\ i > d /\ i <= Len(ever)
    BY <1>2, <1>6, <1>8
  <2>2. Len(ever) = d + Len(journal)
    BY <1>2 DEF d
  <2> QED BY <1>2, <2>1, <2>2
<1> HIDE DEF k
<1>10. journal[k] = ever[i] /\ journal[k].cursor = i
  BY <1>3, <1>6, <1>9
<1>11. k \in Wanted(journal)
  BY <1>8, <1>9, <1>10 DEF Wanted
<1>12. PICK g \in Got : (\A j \in Got : j <= g) /\ NextCursor = journal[g].cursor
  BY <1>11, GotSome, GotIs
<1>13. k <= g
  <2>1. g \in 1..Len(journal) /\ journal[g].cursor = d + g
    BY <1>6, GotIs
  <2> QED BY <1>2, <1>5, <1>6, <1>9, <1>12, <2>1
<1>14. k \in Got
  BY <1>11, <1>13, GotAll
<1> QED BY <1>10, <1>14

LEMMA ServedStep == JournalInv /\ ReaderServed /\ [Next]_vars => ReaderServed'
<1> SUFFICES ASSUME JournalInv, ReaderServed, [Next]_vars PROVE ReaderServed'
  OBVIOUS
<1> USE DEF memVars, readVars, lifeVars, startVars
<1>1. TypeOK /\ HistoryInv /\ AliveInv
  BY DEF JournalInv
<1>2. NoSleepingReader /\ (Calm => skipped = FALSE)
  BY <1>1 DEF ReaderServed, ReaderMissesNothing, Calm, TypeOK
<1>3. SUFFICES NoSleepingReader' /\ (Calm' => skipped' = FALSE)
  BY DEF ReaderServed, ReaderMissesNothing, Calm
<1>4. ASSUME NEW new \in Seq(Raw), Add(new), UNCHANGED <<filter, after, skipped, crashed, stale>>
      PROVE  NoSleepingReader' /\ (Calm' => skipped' = FALSE)
  <2>1. NoSleepingReader'
    BY <1>1, <1>2, <1>4, AddWakes
  <2>2. Calm' => Calm
    BY <1>4 DEF Calm, Add
  <2> QED BY <1>2, <1>4, <2>1, <2>2
<1>5. ASSUME NEW n \in acked..MaxSeq, Accept(n)
      PROVE  NoSleepingReader' /\ (Calm' => skipped' = FALSE)
  <2>1. PICK new \in Seq(Raw) : Add(new)
    BY <1>1, <1>5, AcceptAdds
  <2>2. UNCHANGED <<filter, after, skipped, crashed, stale>>
    BY <1>5 DEF Accept
  <2> QED BY <1>4, <2>1, <2>2
<1>6. CASE ChildEnds
  <2>1. PICK new \in Seq(Raw) : Add(new)
    BY <1>6, ChildAdds
  <2>2. UNCHANGED <<filter, after, skipped, crashed, stale>>
    BY <1>6 DEF ChildEnds
  <2> QED BY <1>4, <2>1, <2>2
<1>7. CASE Read \/ Resume
  <2>1. Return /\ hub # "down" /\ UNCHANGED <<late, crashed, stale>>
    BY <1>1, <1>7 DEF Read, Resume, AliveInv
  <2>2. reader' = "idle"
    BY <2>1 DEF Return
  <2>3. Calm' => Calm
    BY <2>1 DEF Calm
  <2>4. ASSUME Calm PROVE skipped' = FALSE
    <3>1. skipped = FALSE
      BY <1>2, <2>4
    <3> QED BY <1>1, <2>1, <2>4, <3>1, ReturnServes, Zenon
  <2> QED BY <2>2, <2>3, <2>4, Zenon DEF NoSleepingReader
<1>8. CASE Wait
  <2>1. Wanted(journal) = {} /\ UNCHANGED <<journal, filter, after, skipped, late, crashed, stale>>
    BY <1>8 DEF Wait
  <2> QED BY <1>2, <2>1 DEF NoSleepingReader, Wanted, Calm
<1>9. CASE GiveUp \/ BeginClose \/ Listen \/ CloseClean \/ EndClose \/ Crash
  <2>1. reader' # "waiting"
    BY <1>1, <1>9 DEF GiveUp, BeginClose, Listen, CloseClean, EndClose, Crash, End, AliveInv
  <2>2. skipped' = skipped /\ (Calm' => Calm)
    BY <1>1, <1>9 DEF GiveUp, BeginClose, Listen, CloseClean, EndClose, Crash, End, Calm, TypeOK
  <2> QED BY <1>2, <2>1, <2>2 DEF NoSleepingReader
<1>10. CASE UNCHANGED <<journal, reader, filter, after, skipped, late, crashed, stale>>
  BY <1>2, <1>10 DEF NoSleepingReader, Wanted, Calm
<1>11. Launch \/ Monitor \/ Save \/ SaveFails \/ Load \/ CloseDirty \/ UNCHANGED vars
         => UNCHANGED <<journal, reader, filter, after, skipped, late, crashed, stale>>
  BY DEF Launch, Monitor, Save, SaveFails, Load, CloseDirty, vars
<1> QED BY <1>5, <1>6, <1>7, <1>8, <1>9, <1>10, <1>11 DEF Next

\* A reader that follows nextCursor, over restarts as well, is given every entry it asks for or
\* told that some are gone, unless a bridge crashed, lost an event to close() or began with what was
\* no longer in the file; and it does not sleep while there is an entry for it.
THEOREM Served == Spec => []ReaderServed
<1>1. Init => ReaderServed
  BY DEF Init, ReaderServed, ReaderMissesNothing, NoSleepingReader
<1> QED BY <1>1, JournalInvariant, ServedStep, PTL DEF Spec
-----------------------------------------------------------------------------
(* Ownership of the cache.                                                  *)

\* The bridges that created a lock and have not given it up.
Holding == Owning \cup {"writing"}

\* While nobody died no lock is ever found stale.
OpenInv ==
  /\ \A b \in Bridge : pc[b] = "probing" => owner[b] \in Bridge
  /\ NobodyDied => \A b \in Bridge : /\ pc[b] \in Holding => lock = b
                                     /\ pc[b] \notin {"unlinking", "recreating"}

\* A lone starter unlinks the very lock it found stale: nobody else can have made a new one.
TurnInv ==
  ~overlapped =>
    /\ \A a, b \in Starters : a = b
    /\ \A b \in Bridge :
         /\ pc[b] \in Holding => lock = b
         /\ pc[b] \in {"probing", "unlinking"} => lock \in {owner[b], NoBridge}
         /\ pc[b] = "unlinking" => \A a \in Bridge : a = owner[b] => pc[a] = "dead"
         /\ pc[b] = "recreating" => lock = NoBridge
         /\ pc[b] \in {"serving", "published"} => connection = b
         /\ pc[b] = "published" => descriptor = b
-----------------------------------------------------------------------------
LEMMA LockInitType == LockInit => LockTypeOK
BY DEF LockInit, LockTypeOK

LEMMA LockTypeStep == LockTypeOK /\ [LockNext]_lockVars => LockTypeOK'
<1> SUFFICES ASSUME LockTypeOK, [LockNext]_lockVars PROVE LockTypeOK'
  OBVIOUS
<1> USE BridgeAssumption DEF LockTypeOK, Starting, Owning, Goto
<1>1. ASSUME NEW b \in Bridge, Start(b) PROVE LockTypeOK'
  BY <1>1 DEF Start, Open
<1>2. ASSUME NEW b \in Bridge, ReadOwner(b) PROVE LockTypeOK'
  BY <1>2 DEF ReadOwner
<1>3. ASSUME NEW b \in Bridge, Probe(b) \/ UnlinkStale(b) PROVE LockTypeOK'
  BY <1>3 DEF Probe, UnlinkStale
<1>4. ASSUME NEW b \in Bridge, Recreate(b) PROVE LockTypeOK'
  BY <1>4 DEF Recreate, Open
<1>5. ASSUME NEW b \in Bridge, WritePid(b) \/ Serve(b) \/ ServeFails(b) PROVE LockTypeOK'
  BY <1>5 DEF WritePid, Serve, ServeFails
<1>6. ASSUME NEW b \in Bridge, Publish(b) \/ StopCompanion(b) \/ Unpublish(b) PROVE LockTypeOK'
  BY <1>6 DEF Publish, StopCompanion, Unpublish
<1>7. ASSUME NEW b \in Bridge, Close(b) \/ Unlock(b) \/ Die(b) PROVE LockTypeOK'
  BY <1>7 DEF Close, Unlock, Die
<1>8. CASE UNCHANGED lockVars
  BY <1>8 DEF lockVars
<1> QED BY <1>1, <1>2, <1>3, <1>4, <1>5, <1>6, <1>7, <1>8 DEF LockNext, Step

\* The processes and files are where the module says they are.
THEOREM LockTyping == LockSpec => []LockTypeOK
BY LockInitType, LockTypeStep, PTL DEF LockSpec
-----------------------------------------------------------------------------
LEMMA OpenStep == LockTypeOK /\ OpenInv /\ [LockNext]_lockVars => OpenInv'
<1> SUFFICES ASSUME LockTypeOK, OpenInv, [LockNext]_lockVars PROVE OpenInv'
  OBVIOUS
<1> USE BridgeAssumption DEF LockTypeOK, OpenInv, NobodyDied, Holding, Owning, Goto
<1>1. ASSUME NEW b \in Bridge, Start(b) PROVE OpenInv'
  BY <1>1 DEF Start, Open
<1>2. ASSUME NEW b \in Bridge, ReadOwner(b) PROVE OpenInv'
  BY <1>2 DEF ReadOwner
<1>3. ASSUME NEW b \in Bridge, Probe(b) \/ UnlinkStale(b) PROVE OpenInv'
  BY <1>3 DEF Probe, UnlinkStale
<1>4. ASSUME NEW b \in Bridge, Recreate(b) PROVE OpenInv'
  BY <1>4 DEF Recreate, Open
<1>5. ASSUME NEW b \in Bridge, WritePid(b) \/ Serve(b) \/ ServeFails(b) PROVE OpenInv'
  BY <1>5 DEF WritePid, Serve, ServeFails
<1>6. ASSUME NEW b \in Bridge, Publish(b) \/ StopCompanion(b) \/ Unpublish(b) PROVE OpenInv'
  BY <1>6 DEF Publish, StopCompanion, Unpublish
<1>7. ASSUME NEW b \in Bridge, Close(b) \/ Unlock(b) \/ Die(b) PROVE OpenInv'
  BY <1>7 DEF Close, Unlock, Die
<1>8. CASE UNCHANGED lockVars
  BY <1>8 DEF lockVars
<1> QED BY <1>1, <1>2, <1>3, <1>4, <1>5, <1>6, <1>7, <1>8 DEF LockNext, Step

\* As long as no process has died, bridges that start do not rob one that runs.
THEOREM LiveOwner == LockSpec => []LiveOwnerKept
<1>1. LockInit => OpenInv
  BY DEF LockInit, OpenInv, Holding, Owning
<1>2. LockTypeOK /\ OpenInv => LiveOwnerKept
  BY DEF OpenInv, LiveOwnerKept, OneOwner, Owners, Holding
<1> QED BY <1>1, <1>2, OpenStep, LockTyping, PTL DEF LockSpec
-----------------------------------------------------------------------------
LEMMA TurnStep == LockTypeOK /\ OpenInv /\ TurnInv /\ [LockNext]_lockVars => TurnInv'
<1> SUFFICES ASSUME LockTypeOK, OpenInv, TurnInv, [LockNext]_lockVars PROVE TurnInv'
  OBVIOUS
<1> USE BridgeAssumption DEF LockTypeOK, TurnInv, Holding, Owning, Starters, Starting, Goto
<1>1. ASSUME NEW b \in Bridge, Start(b) PROVE TurnInv'
  <2>1. CASE overlapped'
    BY <2>1 DEF TurnInv
  <2>2. CASE ~overlapped'
    <3>1. ~overlapped /\ Starters = {}
      BY <1>1, <2>2, Zenon DEF Start
    <3>2. \A a \in Bridge : pc[a] \notin Starting
      BY <3>1
    <3>3. CASE lock = NoBridge
      BY <1>1, <3>1, <3>2, <3>3 DEF Start, Open
    <3>4. CASE lock # NoBridge
      BY <1>1, <3>1, <3>2, <3>4 DEF Start, Open
    <3> QED BY <3>3, <3>4
  <2> QED BY <2>1, <2>2
<1>2. ASSUME NEW b \in Bridge, ReadOwner(b) PROVE TurnInv'
  BY <1>2 DEF ReadOwner
<1>3. ASSUME NEW b \in Bridge, Probe(b) PROVE TurnInv'
  BY <1>3 DEF Probe, OpenInv
<1>4. ASSUME NEW b \in Bridge, UnlinkStale(b) PROVE TurnInv'
  BY <1>4 DEF UnlinkStale
<1>5. ASSUME NEW b \in Bridge, Recreate(b) PROVE TurnInv'
  BY <1>5 DEF Recreate, Open
<1>6. ASSUME NEW b \in Bridge, WritePid(b) PROVE TurnInv'
  BY <1>6 DEF WritePid
<1>7. ASSUME NEW b \in Bridge, Serve(b) \/ ServeFails(b) PROVE TurnInv'
  BY <1>7 DEF Serve, ServeFails
<1>8. ASSUME NEW b \in Bridge, Publish(b) PROVE TurnInv'
  BY <1>8 DEF Publish
<1>9. ASSUME NEW b \in Bridge, StopCompanion(b) \/ Unpublish(b) PROVE TurnInv'
  BY <1>9 DEF StopCompanion, Unpublish
<1>10. ASSUME NEW b \in Bridge, Close(b) \/ Unlock(b) PROVE TurnInv'
  BY <1>10 DEF Close, Unlock
<1>11. ASSUME NEW b \in Bridge, Die(b) PROVE TurnInv'
  BY <1>11 DEF Die
<1>12. CASE UNCHANGED lockVars
  BY <1>12 DEF lockVars
<1> QED
  BY <1>1, <1>2, <1>3, <1>4, <1>5, <1>6, <1>7, <1>8, <1>9, <1>10, <1>11, <1>12 DEF LockNext, Step

LEMMA TurnInvariant == LockSpec => []TurnInv
<1>1. LockInit => OpenInv /\ TurnInv
  BY DEF LockInit, OpenInv, TurnInv, Holding, Owning, Starters, Starting
<1> QED BY <1>1, OpenStep, TurnStep, LockTyping, PTL DEF LockSpec

\* Bridges that start one after the other own the cache one at a time, whoever dies where.
THEOREM OwnerInTurn == LockSpec => []OneOwnerInTurn
<1>1. TurnInv => OneOwnerInTurn
  BY DEF TurnInv, OneOwnerInTurn, OneOwner, Owners, Holding
<1> QED BY <1>1, TurnInvariant, PTL

\* ... and the clients and the CLI find the one that serves.
THEOREM FilesInTurn == LockSpec => []FilesNameTheServer
<1>1. TurnInv => FilesNameTheServer
  BY DEF TurnInv, FilesNameTheServer
<1> QED BY <1>1, TurnInvariant, PTL
=============================================================================
