-------------------------- MODULE ModLibraryProofs --------------------------
(***************************************************************************)
(* Theorems about ModLibrary and the queue it extends, for any jars, calls, *)
(* bounds and numbers of mods, runs and tries.                              *)
(***************************************************************************)
EXTENDS ModLibrary, SequenceTheorems, FiniteSetTheorems, WellFoundedInduction, TLAPS

\* Mods that are or were in the table; those whose erase() is under way.
Used == Id \ New
Erasing(i) == \E c \in Call : At(c, "erase") /\ call[c].id = i

\* TypeOK, by what the actions change.
TableOK ==
  /\ source \subseteq mods /\ mods \subseteq Id
  /\ files \in [Id -> {"none", "stored", "embedded"}]
  /\ \A i \in Id : files[i] # "none" => i \in mods
  /\ jarOf \in [Id -> Jar \cup {NoJar}] /\ \A i \in mods : jarOf[i] # NoJar
  /\ \A i, k \in mods : i # k => jarOf[i] # jarOf[k] /\ Key[jarOf[i]] # Key[jarOf[k]]

Job == [at : {"off", "check", "walk", "embed", "wait"}, of : Id, tries : 0..MaxRetries]

\* A worker that is to try again may, and one that takes a mod finds one; what waits or
\* is worked on was asked for.
QueueOK ==
  /\ pending \in Seq(Id) /\ IsInjective(pending) /\ Range(pending) \subseteq wanted
  /\ worker \in Job /\ abandoned \subseteq wanted /\ wanted \subseteq Id
  /\ worker.at \in {"walk", "embed"} => worker.tries < MaxRetries
  /\ worker.at = "check" => pending # <<>>
  /\ worker.at \notin {"off", "check"} => worker.of \in wanted

CallType ==
  [at : {"idle", "dup", "drop", "older", "dropOlder", "hash", "create",
         "spawn", "mark", "note", "ask", "erase"},
   jar : Jar \cup {NoJar}, id : Id, replace : BOOLEAN]

\* A call has a jar, and one on a mod has the jar of that mod.
CallOK(c) ==
  /\ call[c].at # "idle" => call[c].jar \in Jar
  /\ call[c].at \in {"mark", "spawn", "note", "ask", "erase"} =>
       call[c].id \in Used /\ jarOf[call[c].id] = call[c].jar
CallsOK == call \in [Call -> CallType] /\ \A c \in Call : CallOK(c)

DirType ==
  [done : BOOLEAN, error : BOOLEAN, running : 0..MaxRuns,
   proc : [Run -> {"none", "child", "orphan", "dead"}],
   writes : [Run -> Jar \cup {NoJar}]]
DiskOK ==
  /\ dir \in [Place -> DirType]
  /\ text \in [Place -> [Text -> {"none", "part", "whole"}]]
  /\ spoilt \subseteq Place

RestOK ==
  /\ ollama \in BOOLEAN /\ autoEmbed \in BOOLEAN /\ scan \in BOOLEAN
  /\ faults \in 0..MaxFaults /\ bound \in Bounds /\ bound.autoEmbed = autoEmbed
  /\ owed \subseteq Range(ModOf)

\* Calls that may create a mod find a number for it.
Room == Cardinality(Ingesting) + Cardinality(Used) <= bound.mods

TypeInv == TableOK /\ QueueOK /\ CallsOK /\ DiskOK /\ RestOK /\ Room

LEMMA Typed == TypeInv => TypeOK
BY DEF TypeInv, TableOK, QueueOK, CallsOK, DiskOK, RestOK, TypeOK, EmbedTypeOK, Job, CallType, DirType
-----------------------------------------------------------------------------
(* Facts about the constants, sequences and numbers.                        *)

LEMMA Constants ==
  /\ MaxMods \in Nat \ {0} /\ MaxRetries \in Nat \ {0} /\ MaxFaults \in Nat \ {0} /\ MaxRuns \in Nat
  /\ 1 \in Id /\ NoJar \notin Jar /\ IsFiniteSet(Call) /\ IsFiniteSet(Id) /\ Cardinality(Id) = MaxMods
  /\ \A b \in Bounds : /\ b.autoEmbed \in BOOLEAN /\ b.calls \in Nat
                       /\ b.mods \in 0..MaxMods /\ b.runs \in 0..MaxRuns
<1>1. /\ MaxMods \in Nat \ {0} /\ MaxRetries \in Nat \ {0} /\ MaxFaults \in Nat \ {0}
      /\ MaxRuns \in Nat /\ NoJar \notin Jar /\ IsFiniteSet(Call)
      /\ \A b \in Bounds : /\ b.autoEmbed \in BOOLEAN /\ b.calls \in Nat
                           /\ b.mods \in 0..MaxMods /\ b.runs \in 0..MaxRuns
  BY EmbedAssumption, LibraryAssumption
<1>2. IsFiniteSet(Id) /\ Cardinality(Id) = MaxMods
  BY <1>1, FS_Interval DEF Id
<1> QED BY <1>1, <1>2 DEF Id

LEMMA Jars ==
  ASSUME NEW j \in Jar
  PROVE  ModOf[j] \in Range(ModOf) /\ Dir[j] \in Place /\ Content[j] \in Text
BY LibraryAssumption DEF Place, Text, Range

\* The runs of all directories can be counted.
LEMMA RunsFinite == IsFiniteSet(Place \X Run)
<1>1. IsFiniteSet(Jar) /\ Place = {Dir[j] : j \in Jar}
  BY LibraryAssumption DEF Place, Range
<1>2. IsFiniteSet(Place)
  <2> DEFINE f == [j \in Jar |-> Dir[j]]
  <2>1. f \in Surjection(Jar, Place)
    BY <1>1 DEF Surjection
  <2> HIDE DEF f
  <2> QED BY <2>1, <1>1, FS_Surjection
<1>3. IsFiniteSet(Run)
  BY Constants, FS_Interval DEF Run
<1> QED BY <1>2, <1>3, FS_Product

LEMMA LeastOf ==
  ASSUME NEW S \in SUBSET Nat, S # {}
  PROVE  \E x \in S : \A y \in S : x <= y
<1> DEFINE R == OpToRel(<, Nat)
<1>1. PICK x \in S : \A y \in S : ~(<<y, x>> \in R)
  <2>1. IsWellFoundedOn(R, Nat)
    BY NatLessThanWellFounded
  <2> HIDE DEF R
  <2> QED BY <2>1, WFMin
<1>2. \A y, z \in Nat : <<y, z>> \in R <=> y < z
  BY DEF OpToRel
<1> HIDE DEF R
<1>3. ASSUME NEW y \in S PROVE x <= y
  <2>1. x \in Nat /\ y \in Nat /\ ~(<<y, x>> \in R)
    BY <1>1
  <2> QED BY <2>1, <1>2
<1> QED BY <1>3

\* The number of the next mod.
NextId == CHOOSE i \in New : \A k \in New : i <= k

LEMMA NextIdIn ==
  ASSUME New # {}
  PROVE  NextId \in New
<1>1. New \in SUBSET Nat
  BY Constants DEF New, Id
<1> QED BY <1>1, LeastOf DEF NextId

\* What a queue holds, after one or several were added, and after the first was taken.
LEMMA AppendOne ==
  ASSUME NEW q \in Seq(Id), IsInjective(q), NEW i \in Id, i \notin Range(q)
  PROVE  /\ Append(q, i) \in Seq(Id) /\ IsInjective(Append(q, i))
         /\ Append(q, i) # <<>> /\ Range(Append(q, i)) = Range(q) \cup {i}
<1> DEFINE s == Append(q, i)
<1>1. /\ s \in Seq(Id) /\ s # <<>> /\ Len(s) = Len(q) + 1 /\ Len(q) \in Nat
      /\ \A n \in 1..Len(q) : s[n] = q[n]
      /\ s[Len(q) + 1] = i
  BY AppendProperties
<1>2. DOMAIN s = 1..Len(s) /\ DOMAIN q = 1..Len(q)
  BY <1>1
<1>3. \A n \in 1..Len(s) : n \in 1..Len(q) \/ n = Len(q) + 1
  BY <1>1
<1>4. \A n : n \in 1..Len(q) \/ n = Len(q) + 1 => n \in 1..Len(s)
  BY <1>1
<1> HIDE DEF s
<1>5. Range(s) = Range(q) \cup {i}
  BY <1>1, <1>2, <1>3, <1>4 DEF Range
<1>6. IsInjective(s)
  <2> SUFFICES ASSUME NEW a \in 1..Len(s), NEW b \in 1..Len(s), s[a] = s[b] PROVE a = b
    BY <1>2 DEF IsInjective
  <2>1. \A n \in 1..Len(q) : q[n] \in Range(q) /\ s[n] # i
    BY <1>1, <1>2 DEF Range
  <2>2. CASE a \in 1..Len(q) /\ b \in 1..Len(q)
    BY <2>2, <1>1, <1>2 DEF IsInjective
  <2>3. CASE a = Len(q) + 1 \/ b = Len(q) + 1
    BY <2>3, <2>1, <1>1, <1>3
  <2> QED BY <2>2, <2>3, <1>3
<1> QED BY <1>1, <1>5, <1>6 DEF s

LEMMA TakeOne ==
  ASSUME NEW q \in Seq(Id), IsInjective(q), q # <<>>
  PROVE  /\ Tail(q) \in Seq(Id) /\ IsInjective(Tail(q)) /\ Head(q) \in Id
         /\ Range(q) = Range(Tail(q)) \cup {Head(q)}
<1> DEFINE t == Tail(q)  h == Head(q)
<1>1. /\ t \in Seq(Id) /\ h \in Id /\ Len(t) = Len(q) - 1 /\ Len(q) \in Nat \ {0} /\ h = q[1]
      /\ \A n \in 1..Len(t) : t[n] = q[n + 1]
  BY HeadTailProperties, EmptySeq
<1>2. DOMAIN t = 1..Len(t) /\ DOMAIN q = 1..Len(q)
  BY <1>1
<1>3. /\ \A n \in 1..Len(t) : n + 1 \in 1..Len(q)
      /\ \A n \in 1..Len(q) : n = 1 \/ (n - 1 \in 1..Len(t) /\ t[n - 1] = q[n])
      /\ 1 \in 1..Len(q)
  BY <1>1
<1> HIDE DEF t, h
<1>4. IsInjective(t)
  <2> SUFFICES ASSUME NEW a \in 1..Len(t), NEW b \in 1..Len(t), t[a] = t[b] PROVE a = b
    BY <1>2 DEF IsInjective
  <2>1. a + 1 \in 1..Len(q) /\ b + 1 \in 1..Len(q) /\ q[a + 1] = q[b + 1]
    BY <1>1, <1>3
  <2>2. a + 1 = b + 1
    BY <2>1, <1>2 DEF IsInjective
  <2> QED BY <2>2
<1>5. Range(q) \subseteq Range(t) \cup {h}
  <2> SUFFICES ASSUME NEW n \in 1..Len(q), q[n] # h PROVE \E m \in 1..Len(t) : t[m] = q[n]
    BY <1>2 DEF Range
  <2>1. n - 1 \in 1..Len(t) /\ t[n - 1] = q[n]
    BY <1>1, <1>3
  <2> QED BY <2>1
<1>6. Range(t) \cup {h} \subseteq Range(q)
  BY <1>1, <1>2, <1>3 DEF Range
<1> QED BY <1>1, <1>4, <1>5, <1>6 DEF t, h

LEMMA AppendAll ==
  ASSUME NEW q \in Seq(Id), IsInjective(q), NEW S \in SUBSET Id, S \cap Range(q) = {},
         NEW r \in SetToSeqs(S)
  PROVE  q \o r \in Seq(Id) /\ IsInjective(q \o r) /\ Range(q \o r) = Range(q) \cup S
<1> DEFINE s == q \o r
<1>1. IsFiniteSet(S) /\ Cardinality(S) \in Nat
  BY Constants, FS_Subset, FS_CardinalityType
<1>2. /\ r \in [1..Cardinality(S) -> S]
      /\ \A a, b \in 1..Cardinality(S) : a # b => r[a] # r[b]
  BY DEF SetToSeqs
<1>3. r \in Seq(S) /\ Len(r) = Cardinality(S)
  BY <1>1, <1>2
<1>4. S \subseteq {r[n] : n \in 1..Cardinality(S)}
  <2> DEFINE T == {r[n] : n \in 1..Cardinality(S)}
  <2>1. r \in Bijection(1..Cardinality(S), T)
    BY <1>2 DEF Bijection, Injection, Surjection, IsInjective
  <2>2. IsFiniteSet(1..Cardinality(S)) /\ Cardinality(1..Cardinality(S)) = Cardinality(S)
    BY <1>1, FS_Interval
  <2>3. Cardinality(T) = Cardinality(S) /\ T \in SUBSET S
    <3>1. ExistsBijection(1..Cardinality(S), T) /\ T \in SUBSET S
      BY <2>1, <1>2 DEF ExistsBijection
    <3> HIDE DEF T
    <3> QED BY <3>1, <2>2, FS_Bijection
  <2> HIDE DEF T
  <2> QED BY <2>3, <1>1, FS_Subset DEF T
<1>5. r \in Seq(Id)
  BY <1>3
<1>6. /\ s \in Seq(Id) /\ Len(s) = Len(q) + Len(r) /\ Len(q) \in Nat
      /\ \A n \in 1..Len(q) + Len(r) : s[n] = IF n <= Len(q) THEN q[n] ELSE r[n - Len(q)]
  BY <1>5, ConcatProperties
<1>7. Range(s) = Range(q) \cup Range(r) /\ Range(r) = S
  <2>1. Range(s) = Range(q) \cup Range(r)
    BY <1>5, RangeConcatenation
  <2> QED BY <2>1, <1>2, <1>4 DEF Range
<1>8. DOMAIN s = 1..Len(s) /\ DOMAIN q = 1..Len(q) /\ DOMAIN r = 1..Len(r)
  BY <1>5, <1>6
<1> HIDE DEF s
<1>9. IsInjective(s)
  <2> SUFFICES ASSUME NEW a \in 1..Len(s), NEW b \in 1..Len(s), s[a] = s[b] PROVE a = b
    BY <1>8 DEF IsInjective
  <2>1. \A n \in 1..Len(s) : \/ n \in 1..Len(q) /\ s[n] = q[n]
                             \/ n - Len(q) \in 1..Len(r) /\ s[n] = r[n - Len(q)]
    BY <1>1, <1>3, <1>6
  <2>2. \A n \in 1..Len(q), m \in 1..Len(r) : q[n] # r[m]
    BY <1>2, <1>3, <1>8 DEF Range
  <2>3. CASE a \in 1..Len(q) /\ s[a] = q[a] /\ b \in 1..Len(q) /\ s[b] = q[b]
    BY <2>3, <1>8 DEF IsInjective
  <2>4. CASE /\ a - Len(q) \in 1..Len(r) /\ s[a] = r[a - Len(q)]
             /\ b - Len(q) \in 1..Len(r) /\ s[b] = r[b - Len(q)]
    <3>1. a - Len(q) = b - Len(q)
      BY <2>4, <1>2, <1>3
    <3> QED BY <3>1, <1>6
  <2> QED BY <2>1, <2>2, <2>3, <2>4
<1> QED BY <1>6, <1>7, <1>9 DEF s
-----------------------------------------------------------------------------
(* Types.                                                                   *)

LEMMA InitType == Init => TypeInv
<1> SUFFICES ASSUME Init PROVE TypeInv
  OBVIOUS
<1> USE Constants
<1>1. TableOK
  BY DEF Init, EmbedInit, TableOK
<1>2. QueueOK
  BY DEF Init, EmbedInit, QueueOK, IsInjective, Range, Off, Job
<1>3. CallsOK
  BY DEF Init, CallsOK, CallOK, CallType, Idle
<1>4. DiskOK
  BY DEF Init, DiskOK, NoDir, DirType
<1>5. RestOK
  BY DEF Init, EmbedInit, RestOK
<1>6. Room
  <2>1. Ingesting = {} /\ Used = {}
    BY DEF Init, Ingesting, Used, New, Idle
  <2>2. bound.mods \in Nat
    BY DEF Init
  <2> QED BY <2>1, <2>2, FS_EmptySet DEF Room
<1> QED BY <1>1, <1>2, <1>3, <1>4, <1>5, <1>6 DEF TypeInv

\* What no step takes back: the mods there were, and their jars.
Grows == \A i \in Used : i \in Used' /\ jarOf'[i] = jarOf[i]

LEMMA SameJars == UNCHANGED jarOf => Grows /\ Used' = Used
BY DEF Grows, Used, New

LEMMA InTable == TableOK => mods \subseteq Used /\ \A i \in mods : jarOf[i] \in Jar
BY DEF TableOK, Used, New

\* One call goes on, and the others stay where they are.
LEMMA CallStep ==
  ASSUME CallsOK, Grows, NEW c \in Call, NEW r \in CallType, call' = [call EXCEPT ![c] = r],
         CallOK(c)'
  PROVE  CallsOK'
<1>1. call' \in [Call -> CallType]
  BY DEF CallsOK
<1>2. ASSUME NEW d \in Call, d # c PROVE CallOK(d)'
  <2>1. call'[d] = call[d] /\ CallOK(d)
    BY <1>2 DEF CallsOK
  <2> QED BY ONLY <2>1, Grows DEF CallOK, Grows
<1> QED BY <1>1, <1>2 DEF CallsOK

LEMMA GoesStep ==
  ASSUME CallsOK, UNCHANGED jarOf, NEW c \in Call,
         NEW at \in {"dup", "drop", "older", "dropOlder", "hash", "create", "ask"}, Goes(c, at),
         call[c].at # "idle", at = "ask" => call[c].at = "note"
  PROVE  CallsOK'
<1> DEFINE r == [call[c] EXCEPT !.at = at]
<1>1. call[c] \in CallType /\ CallOK(c)
  BY DEF CallsOK
<1>2. r \in CallType /\ call' = [call EXCEPT ![c] = r] /\ r.at = at /\ r.jar = call[c].jar /\ r.id = call[c].id
  BY <1>1 DEF CallType, CallsOK, Goes
<1>3. Grows /\ Used' = Used
  BY SameJars
<1>4. call'[c] = r
  BY <1>2 DEF CallsOK
<1> HIDE DEF r
<1>5. CallOK(c)'
  BY <1>1, <1>2, <1>3, <1>4 DEF CallOK
<1> QED BY <1>2, <1>3, <1>5, CallStep

LEMMA EndsStep ==
  ASSUME CallsOK, Grows, NEW c \in Call, Ends(c)
  PROVE  CallsOK'
<1>1. Idle \in CallType
  BY Constants DEF Idle, CallType
<1>2. call' = [call EXCEPT ![c] = Idle] /\ call'[c] = Idle
  BY DEF Ends, CallsOK
<1>3. CallOK(c)'
  BY <1>2 DEF CallOK, Idle
<1> QED BY <1>1, <1>2, <1>3, CallStep

\* Ingestions that go on or end leave the room there was.
LEMMA RoomStep ==
  ASSUME TypeInv, UNCHANGED <<jarOf, bound>>, Ingesting' \subseteq Ingesting
  PROVE  Room'
<1>1. IsFiniteSet(Ingesting) /\ IsFiniteSet(Used) /\ Used' = Used
  BY Constants, FS_Subset, SameJars DEF Ingesting, Used
<1>2. Cardinality(Ingesting') <= Cardinality(Ingesting) /\ Cardinality(Ingesting') \in Nat
      /\ Cardinality(Ingesting) \in Nat /\ Cardinality(Used) \in Nat
  BY <1>1, FS_Subset, FS_CardinalityType
<1>3. bound.mods \in Nat
  BY Constants DEF TypeInv, RestOK
<1> QED BY <1>1, <1>2, <1>3 DEF Room, TypeInv

LEMMA Ingests ==
  ASSUME CallsOK, NEW c \in Call,
         \/ Ends(c)
         \/ \E r \in CallType :
              /\ call' = [call EXCEPT ![c] = r]
              /\ c \in Ingesting \/ r.at \notin {"dup", "drop", "older", "dropOlder", "hash", "create"}
         \/ \E at : Goes(c, at) /\ (c \in Ingesting \/ at = "ask")
  PROVE  Ingesting' \subseteq Ingesting
<1>1. \A d \in Call : d # c => call'[d] = call[d]
  BY DEF CallsOK, Ends, Goes
<1>2. c \in Ingesting \/ c \notin Ingesting'
  <2>1. CASE Ends(c)
    BY <2>1 DEF CallsOK, Ends, Ingesting, Idle
  <2>2. ASSUME NEW r \in CallType, call' = [call EXCEPT ![c] = r],
               c \in Ingesting \/ r.at \notin {"dup", "drop", "older", "dropOlder", "hash", "create"}
        PROVE  c \in Ingesting \/ c \notin Ingesting'
    <3>1. call'[c] = r
      BY <2>2 DEF CallsOK
    <3> QED BY <2>2, <3>1 DEF Ingesting
  <2>3. ASSUME NEW at, Goes(c, at), at = "ask"
        PROVE  c \notin Ingesting'
    <3>1. call'[c].at = "ask"
      BY <2>3 DEF CallsOK, CallType, Goes
    <3> QED BY <3>1 DEF Ingesting
  <2> QED BY <2>1, <2>2, <2>3
<1> QED BY <1>1, <1>2 DEF Ingesting

\* What the table loses with a row.
LEMMA RemoveRowStep ==
  ASSUME TableOK, NEW i \in Id, RemoveRow(i), UNCHANGED jarOf
  PROVE  TableOK'
BY DEF TableOK, RemoveRow

\* The steps of a call that leave the table, the queue and the disk alone.
LEMMA IngestType ==
  ASSUME TypeInv, NEW c \in Call, NEW j \in Jar, NEW replace \in BOOLEAN, Ingest(c, j, replace)
  PROVE  TypeInv'
<1> DEFINE r == [Idle EXCEPT !.at = "dup", !.jar = j, !.replace = replace]
<1>1. /\ UNCHANGED <<mods, source, files, ollama, autoEmbed, pending, worker, scan, wanted, abandoned>>
      /\ UNCHANGED <<jarOf, dir, text, spoilt, bound, owed, faults>>
  BY DEF Ingest, embedVars, queueVars, Disk
<1>2. TableOK' /\ QueueOK' /\ DiskOK' /\ RestOK'
  BY <1>1 DEF TypeInv, TableOK, QueueOK, DiskOK, RestOK
<1>3. r \in CallType /\ r.at = "dup" /\ r.jar = j /\ call' = [call EXCEPT ![c] = r] /\ call'[c] = r
  BY Constants DEF CallType, Idle, Ingest, TypeInv, CallsOK
<1> HIDE DEF r
<1>4. CallsOK'
  <2>1. CallOK(c)'
    BY <1>3 DEF CallOK
  <2> QED BY <2>1, <1>1, <1>3, CallStep, SameJars DEF TypeInv
<1>5. Room'
  <2>1. IsFiniteSet(Ingesting) /\ IsFiniteSet(Used) /\ Used' = Used
    BY Constants, FS_Subset, <1>1, SameJars DEF Ingesting, Used
  <2>2. Ingesting' = Ingesting \cup {c}
    BY <1>3 DEF Ingesting, TypeInv, CallsOK
  <2>3. Cardinality(Ingesting') <= Cardinality(Ingesting) + 1 /\ Cardinality(Ingesting') \in Nat
        /\ Cardinality(Ingesting) \in Nat /\ Cardinality(Used) \in Nat
    <3>1. Cardinality(Ingesting') = IF c \in Ingesting THEN Cardinality(Ingesting) ELSE Cardinality(Ingesting) + 1
      BY <2>1, <2>2, FS_AddElement
    <3> QED BY <3>1, <2>1, FS_CardinalityType
  <2>4. bound.mods \in Nat
    BY Constants DEF TypeInv, RestOK
  <2>5. Cardinality(Ingesting) + Cardinality(Used) < bound.mods
    BY DEF Ingest, Used
  <2> QED BY <2>1, <2>3, <2>4, <2>5, <1>1 DEF Room
<1> QED BY <1>2, <1>4, <1>5 DEF TypeInv

LEMMA FindDuplicateType ==
  ASSUME TypeInv, NEW c \in Call, FindDuplicate(c)
  PROVE  TypeInv'
<1>1. /\ UNCHANGED <<mods, source, files, ollama, autoEmbed, pending, worker, scan, wanted, abandoned>>
      /\ UNCHANGED <<jarOf, dir, text, spoilt, bound, owed, faults>>
  BY DEF FindDuplicate, embedVars, queueVars, Disk
<1>2. TableOK' /\ QueueOK' /\ DiskOK' /\ RestOK'
  BY <1>1 DEF TypeInv, TableOK, QueueOK, DiskOK, RestOK
<1>3. /\ call \in [Call -> CallType] /\ CallOK(c) /\ CallsOK /\ Grows /\ UNCHANGED jarOf
      /\ call[c].at = "dup" /\ c \in Ingesting /\ mods \subseteq Id
  BY <1>1, SameJars DEF TypeInv, CallsOK, TableOK, FindDuplicate, At, Ingesting
<1>4. CallsOK' /\ Ingesting' \subseteq Ingesting
  <2>1. CASE \E at \in {"older", "hash"} : Goes(c, at)
    BY <2>1, <1>3, GoesStep, Ingests
  <2>2. CASE Ends(c)
    BY <2>2, <1>3, EndsStep, Ingests
  <2>3. ASSUME NEW i \in mods, call' = [call EXCEPT ![c].at = "drop", ![c].id = i]
        PROVE  CallsOK' /\ Ingesting' \subseteq Ingesting
    <3> DEFINE r == [call[c] EXCEPT !.at = "drop", !.id = i]
    <3>1. r \in CallType /\ call' = [call EXCEPT ![c] = r] /\ call'[c] = r /\ r.at = "drop" /\ r.jar = call[c].jar
      BY <1>3, <2>3 DEF CallType
    <3> HIDE DEF r
    <3>2. CallOK(c)'
      BY <3>1, <1>3 DEF CallOK
    <3> QED BY <3>1, <3>2, <1>3, CallStep, Ingests
  <2> QED BY <2>1, <2>2, <2>3 DEF FindDuplicate
<1> QED BY <1>1, <1>2, <1>4, RoomStep DEF TypeInv

LEMMA FindOlderType ==
  ASSUME TypeInv, NEW c \in Call, FindOlder(c)
  PROVE  TypeInv'
<1>1. /\ UNCHANGED <<mods, source, files, ollama, autoEmbed, pending, worker, scan, wanted, abandoned>>
      /\ UNCHANGED <<jarOf, dir, text, spoilt, bound, owed, faults>>
  BY DEF FindOlder, embedVars, queueVars, Disk
<1>2. TableOK' /\ QueueOK' /\ DiskOK' /\ RestOK'
  BY <1>1 DEF TypeInv, TableOK, QueueOK, DiskOK, RestOK
<1>3. /\ call \in [Call -> CallType] /\ CallOK(c) /\ CallsOK /\ Grows /\ UNCHANGED jarOf
      /\ call[c].at = "older" /\ c \in Ingesting /\ mods \subseteq Id
  BY <1>1, SameJars DEF TypeInv, CallsOK, TableOK, FindOlder, At, Ingesting
<1>4. CallsOK' /\ Ingesting' \subseteq Ingesting
  <2>1. CASE Goes(c, "hash")
    BY <2>1, <1>3, GoesStep, Ingests
  <2>2. ASSUME NEW i \in mods, call' = [call EXCEPT ![c].at = "dropOlder", ![c].id = i]
        PROVE  CallsOK' /\ Ingesting' \subseteq Ingesting
    <3> DEFINE r == [call[c] EXCEPT !.at = "dropOlder", !.id = i]
    <3>1. /\ r \in CallType /\ call' = [call EXCEPT ![c] = r] /\ call'[c] = r
          /\ r.at = "dropOlder" /\ r.jar = call[c].jar
      BY <1>3, <2>2 DEF CallType
    <3> HIDE DEF r
    <3>2. CallOK(c)'
      BY <3>1, <1>3 DEF CallOK
    <3> QED BY <3>1, <3>2, <1>3, CallStep, Ingests
  <2> QED BY <2>1, <2>2 DEF FindOlder, RowsOf
<1> QED BY <1>1, <1>2, <1>4, RoomStep DEF TypeInv

LEMMA DropType ==
  ASSUME TypeInv, NEW c \in Call, Drop(c)
  PROVE  TypeInv'
<1>1. /\ UNCHANGED <<ollama, autoEmbed, pending, worker, scan, wanted, abandoned>>
      /\ UNCHANGED <<jarOf, dir, text, spoilt, bound, owed, faults>>
  BY DEF Drop, queueVars, Disk
<1>2. QueueOK' /\ DiskOK' /\ RestOK'
  BY <1>1 DEF TypeInv, QueueOK, DiskOK, RestOK
<1>3. /\ call[c].at \in {"drop", "dropOlder"} /\ c \in Ingesting /\ CallsOK /\ Grows /\ TableOK
      /\ call[c].id \in Id
  BY <1>1, SameJars DEF TypeInv, CallsOK, CallType, Drop, Ingesting
<1>4. CASE call[c].id \in mods
  <2>1. RemoveRow(call[c].id) /\ \E at \in {"older", "hash"} : Goes(c, at)
    BY <1>4 DEF Drop
  <2>2. TableOK'
    BY <2>1, <1>1, <1>3, RemoveRowStep
  <2>3. CallsOK' /\ Ingesting' \subseteq Ingesting
    BY <2>1, <1>1, <1>3, GoesStep, Ingests
  <2> QED BY <2>2, <2>3, <1>1, <1>2, RoomStep DEF TypeInv
<1>5. CASE call[c].id \notin mods
  <2>1. Ends(c) /\ UNCHANGED <<mods, source, files>>
    BY <1>5 DEF Drop
  <2>2. TableOK'
    BY <2>1, <1>1, <1>3 DEF TableOK
  <2>3. CallsOK' /\ Ingesting' \subseteq Ingesting
    BY <2>1, <1>1, <1>3, EndsStep, Ingests
  <2> QED BY <2>2, <2>3, <1>1, <1>2, RoomStep DEF TypeInv
<1> QED BY <1>4, <1>5

LEMMA CheckHashType ==
  ASSUME TypeInv, NEW c \in Call, CheckHash(c)
  PROVE  TypeInv'
<1>1. /\ UNCHANGED <<mods, source, files, ollama, autoEmbed, pending, worker, scan, wanted, abandoned>>
      /\ UNCHANGED <<jarOf, dir, text, spoilt, bound, faults>> /\ owed' \subseteq owed
  BY DEF CheckHash, embedVars, queueVars, Disk
<1>2. TableOK' /\ QueueOK' /\ DiskOK' /\ RestOK'
  BY <1>1 DEF TypeInv, TableOK, QueueOK, DiskOK, RestOK
<1>3. call[c].at = "hash" /\ c \in Ingesting /\ CallsOK /\ Grows
  BY <1>1, SameJars DEF TypeInv, CheckHash, At, Ingesting
<1>4. Ends(c) \/ Goes(c, "create")
  BY DEF CheckHash
<1>5. CallsOK' /\ Ingesting' \subseteq Ingesting
  BY <1>1, <1>3, <1>4, GoesStep, EndsStep, Ingests
<1> QED BY <1>1, <1>2, <1>5, RoomStep DEF TypeInv

\* A call that may create a mod finds a number for it.
LEMMA RoomLeft ==
  ASSUME TypeInv, NEW c \in Call, call[c].at = "create"
  PROVE  New # {}
<1>1. IsFiniteSet(Ingesting) /\ IsFiniteSet(Used) /\ c \in Ingesting
  BY Constants, FS_Subset DEF Ingesting, Used
<1>2. Cardinality(Ingesting) # 0
  BY <1>1, FS_EmptySet
<1>3. /\ Cardinality(Ingesting) \in Nat \ {0} /\ Cardinality(Used) \in Nat
      /\ bound.mods \in 0..MaxMods
  BY <1>1, <1>2, FS_CardinalityType, Constants DEF TypeInv, RestOK
<1>4. Cardinality(Used) < MaxMods
  BY <1>3, Constants DEF Room, TypeInv
<1>5. Used # Id
  BY <1>4, Constants
<1> QED BY <1>5 DEF Used

LEMMA CreateType ==
  ASSUME TypeInv, NEW c \in Call, Create(c)
  PROVE  TypeInv'
<1> DEFINE j == call[c].jar
<1>1. /\ UNCHANGED <<source, files, ollama, autoEmbed, pending, worker, scan, wanted, abandoned>>
      /\ UNCHANGED <<dir, text, bound, faults>> /\ Ends(c)
  BY DEF Create, queueVars
<1>2. call[c].at = "create" /\ c \in Ingesting /\ CallsOK /\ j \in Jar /\ TableOK /\ RestOK
  BY DEF TypeInv, Create, At, Ingesting, CallsOK, CallOK
<1>3. QueueOK'
  BY <1>1 DEF TypeInv, QueueOK
<1>4. IsFiniteSet(Ingesting) /\ IsFiniteSet(Used) /\ Ingesting' = Ingesting \ {c}
  BY <1>1, <1>2, Constants, FS_Subset DEF Ingesting, Used, Ends, CallsOK, Idle
<1>5. /\ Cardinality(Ingesting') = Cardinality(Ingesting) - 1
      /\ Cardinality(Ingesting) \in Nat \ {0} /\ Cardinality(Used) \in Nat /\ bound.mods \in 0..MaxMods
  <2>1. Cardinality(Ingesting') = Cardinality(Ingesting) - 1
    BY <1>2, <1>4, FS_RemoveElement
  <2>2. Cardinality(Ingesting) # 0
    BY <1>2, <1>4, FS_EmptySet
  <2> QED BY <2>1, <2>2, <1>2, <1>4, FS_CardinalityType, Constants DEF RestOK
<1>6. CASE \E i \in mods : jarOf[i] = j \/ Key[jarOf[i]] = Key[j]
  <2>1. UNCHANGED <<mods, jarOf, owed, spoilt>>
    BY <1>6 DEF Create
  <2>2. TableOK' /\ DiskOK' /\ RestOK'
    BY <2>1, <1>1 DEF TypeInv, TableOK, DiskOK, RestOK
  <2>3. CallsOK' /\ Room'
    BY <2>1, <1>1, <1>2, <1>4, SameJars, EndsStep, RoomStep
  <2> QED BY <2>2, <2>3, <1>3 DEF TypeInv
<1>7. CASE ~ \E i \in mods : jarOf[i] = j \/ Key[jarOf[i]] = Key[j]
  <2>1. /\ mods' = mods \cup {NextId} /\ jarOf' = [jarOf EXCEPT ![NextId] = j]
        /\ owed' = owed \cup {ModOf[j]} /\ spoilt' \subseteq spoilt \cup {Dir[j]}
    BY <1>7 DEF Create, NextId
  <2>2. New # {}
    BY <1>2, RoomLeft DEF At
  <2>3. NextId \in New /\ NextId \in Id
    BY <2>2, NextIdIn DEF New
  <2> HIDE DEF j
  <2>4. Used' = Used \cup {NextId} /\ Grows /\ NextId \notin Used
    BY <2>1, <2>3, <1>2, Constants DEF Grows, Used, New, TableOK
  <2>5. TableOK'
    <3>1. jarOf' \in [Id -> Jar \cup {NoJar}] /\ jarOf'[NextId] = j /\ j # NoJar
      BY <2>1, <2>3, <1>2, Constants DEF TableOK
    <3>2. \A i \in mods : i # NextId /\ jarOf'[i] = jarOf[i]
      BY <2>1, <2>4, <1>2, InTable DEF TableOK
    <3>3. \A i, k \in mods' : i # k => jarOf'[i] # jarOf'[k] /\ Key[jarOf'[i]] # Key[jarOf'[k]]
      <4>1. \A i \in mods : jarOf'[i] # j /\ Key[jarOf'[i]] # Key[j]
        BY <3>2, <1>7 DEF j
      <4>2. \A i, k \in mods : i # k => jarOf'[i] # jarOf'[k] /\ Key[jarOf'[i]] # Key[jarOf'[k]]
        BY <3>2, <1>2 DEF TableOK
      <4> QED BY ONLY <4>1, <4>2, <3>1, <2>1
    <3> QED BY <3>1, <3>2, <3>3, <2>1, <2>3, <1>1, <1>2 DEF TableOK
  <2>6. CallsOK'
    BY <2>4, <1>1, <1>2, EndsStep
  <2>7. DiskOK' /\ RestOK'
    BY <2>1, <1>1, <1>2, Jars DEF TypeInv, DiskOK, RestOK
  <2>8. Room'
    <3>1. Cardinality(Used') = Cardinality(Used) + 1
      BY <2>4, <1>4, FS_AddElement
    <3> QED BY <3>1, <1>1, <1>5 DEF Room, TypeInv
  <2> QED BY <2>5, <2>6, <2>7, <2>8, <1>3 DEF TypeInv
<1> QED BY <1>6, <1>7

LEMMA SpawnType ==
  ASSUME TypeInv, NEW c \in Call, Spawn(c)
  PROVE  TypeInv'
<1> DEFINE d == Dir[call[c].jar]
           n == Cardinality({k \in Run : dir[d].proc[k] # "none"}) + 1
<1>1. /\ UNCHANGED <<mods, source, files, ollama, autoEmbed, pending, worker, scan, wanted, abandoned>>
      /\ UNCHANGED <<jarOf, owed, bound, faults>> /\ Ends(c)
  BY DEF Spawn, embedVars, queueVars
<1>2. TableOK' /\ QueueOK' /\ RestOK'
  BY <1>1 DEF TypeInv, TableOK, QueueOK, RestOK
<1>3. CallsOK' /\ Room'
  BY <1>1, SameJars, EndsStep, Ingests, RoomStep DEF TypeInv
<1>4. call[c].jar \in Jar /\ d \in Place
  BY Jars DEF TypeInv, Spawn, At, CallsOK, CallOK
<1>5. n \in Run
  <2> DEFINE U == {p \in Place \X Run : dir[p[1]].proc[p[2]] # "none"}
             V == {k \in Run : dir[d].proc[k] # "none"}
             f == [k \in V |-> <<d, k>>]
             W == {<<d, k>> : k \in V}
  <2>1. W \subseteq U /\ IsFiniteSet(U) /\ IsFiniteSet(V)
    <3>1. IsFiniteSet(U) /\ IsFiniteSet(Run)
      BY RunsFinite, FS_Subset, Constants, FS_Interval DEF Run
    <3> QED BY <3>1, <1>4, FS_Subset
  <2>2. f \in Bijection(V, W)
    BY DEF Bijection, Injection, Surjection, IsInjective
  <2>3. ExistsBijection(V, W)
    BY <2>2 DEF ExistsBijection
  <2> HIDE DEF U, V, W, f
  <2>4. Cardinality(W) = Cardinality(V) /\ Cardinality(W) <= Cardinality(U)
    BY <2>1, <2>3, FS_Bijection, FS_Subset
  <2>5. Cardinality(U) < bound.runs /\ bound.runs \in 0..MaxRuns
    BY Constants DEF Spawn, Spawned, U, TypeInv, RestOK
  <2>6. Cardinality(V) \in Nat /\ Cardinality(U) \in Nat
    BY <2>1, FS_CardinalityType
  <2>7. Cardinality(V) + 1 \in 1..MaxRuns
    BY <2>4, <2>5, <2>6, Constants
  <2> QED BY <2>7 DEF V, Run
<1>6. DiskOK'
  <2>1. dir' = [dir EXCEPT ![d] = [@ EXCEPT !.done = FALSE, !.error = FALSE, !.running = n,
                       !.proc[n] = "child", !.writes[n] = call[c].jar]]
    BY DEF Spawn
  <2> HIDE DEF n
  <2>2. dir[d] \in DirType /\ n \in 0..MaxRuns
    BY <1>4, <1>5, Constants DEF TypeInv, DiskOK, Run
  <2> HIDE DEF d
  <2>3. [dir[d] EXCEPT !.done = FALSE, !.error = FALSE, !.running = n,
                       !.proc[n] = "child", !.writes[n] = call[c].jar] \in DirType
    BY <2>2, <1>4, <1>5 DEF DirType
  <2>4. dir' \in [Place -> DirType]
    BY <2>1, <2>3, <1>4 DEF TypeInv, DiskOK
  <2>5. text' \in [Place -> [Text -> {"none", "part", "whole"}]]
    BY <1>4 DEF Spawn, TypeInv, DiskOK, d
  <2>6. spoilt' \subseteq Place
    BY <1>4 DEF Spawn, TypeInv, DiskOK, d
  <2> QED BY <2>4, <2>5, <2>6 DEF DiskOK
<1> QED BY <1>2, <1>3, <1>6 DEF TypeInv

LEMMA MarkType ==
  ASSUME TypeInv, NEW c \in Call, Mark(c)
  PROVE  TypeInv'
<1>1. /\ UNCHANGED <<mods, files, ollama, autoEmbed, pending, worker, scan, wanted, abandoned>>
      /\ UNCHANGED <<jarOf, dir, text, spoilt, bound, owed, faults>> /\ Ends(c)
  BY DEF Mark, queueVars, Disk
<1>2. TableOK'
  BY <1>1 DEF TypeInv, TableOK, Mark
<1>3. QueueOK' /\ DiskOK' /\ RestOK'
  BY <1>1 DEF TypeInv, QueueOK, DiskOK, RestOK
<1> QED BY <1>1, <1>2, <1>3, SameJars, EndsStep, Ingests, RoomStep DEF TypeInv

LEMMA NoteType ==
  ASSUME TypeInv, NEW c \in Call, Note(c)
  PROVE  TypeInv'
<1>1. /\ UNCHANGED <<mods, files, ollama, autoEmbed, pending, worker, scan, wanted, abandoned>>
      /\ UNCHANGED <<jarOf, dir, text, spoilt, bound, owed, faults>>
      /\ Ends(c) \/ (Goes(c, "ask") /\ call[c].at = "note")
  BY DEF Note, queueVars, Disk, At
<1>2. TableOK'
  BY <1>1 DEF TypeInv, TableOK, Note
<1>3. QueueOK' /\ DiskOK' /\ RestOK'
  BY <1>1 DEF TypeInv, QueueOK, DiskOK, RestOK
<1>4. CallsOK' /\ Ingesting' \subseteq Ingesting
  BY <1>1, SameJars, EndsStep, GoesStep, Ingests DEF TypeInv
<1> QED BY <1>1, <1>2, <1>3, <1>4, RoomStep DEF TypeInv

\* The loop starts where there is something to take.
LEMMA LoopIs ==
  ASSUME NEW q
  PROVE  /\ Loop(q) \in Job /\ Loop(q).at \in {"off", "check"}
         /\ Loop(q).at = "check" => q # <<>>
         /\ Off \in Job /\ Off.at = "off"
BY Constants DEF Loop, Off, Job

LEMMA DrainStep ==
  ASSUME QueueOK, NEW q \in Seq(Id), IsInjective(q), q # <<>> \/ pending = <<>>, Drain(q),
         Range(q) \subseteq wanted', wanted \subseteq wanted', abandoned' \subseteq wanted',
         wanted' \subseteq Id
  PROVE  QueueOK'
<1>1. CASE worker.at = "off"
  <2>1. pending' = q /\ worker' = Loop(q)
    BY <1>1 DEF Drain
  <2> QED BY <2>1, LoopIs DEF QueueOK
<1>2. CASE worker.at # "off"
  <2>1. pending' = q /\ worker' = worker
    BY <1>2 DEF Drain
  <2> QED BY <2>1 DEF QueueOK
<1> QED BY <1>1, <1>2

\* The mod goes to the end of the queue unless it waits already.
LEMMA QueueIs ==
  ASSUME QueueOK, NEW i \in Id
  PROVE  /\ Queue(i) \in Seq(Id) /\ IsInjective(Queue(i))
         /\ Queue(i) # <<>> /\ Range(Queue(i)) = Range(pending) \cup {i}
<1>1. CASE Queued(i)
  <2>1. Queue(i) = pending /\ i \in Range(pending)
    BY <1>1 DEF Queue, Queued
  <2>2. pending # <<>>
    BY <2>1 DEF Range
  <2> QED BY <2>1, <2>2 DEF QueueOK
<1>2. CASE ~Queued(i)
  BY <1>2, AppendOne DEF Queue, Queued, QueueOK
<1> QED BY <1>1, <1>2

LEMMA AskType ==
  ASSUME TypeInv, NEW c \in Call, Ask(c)
  PROVE  TypeInv'
<1>1. /\ UNCHANGED <<mods, source, files, ollama, autoEmbed, scan>>
      /\ UNCHANGED <<jarOf, dir, text, spoilt, bound, owed, faults>> /\ Ends(c)
  BY DEF Ask, queueVars, Disk
<1>2. TableOK' /\ DiskOK' /\ RestOK'
  BY <1>1 DEF TypeInv, TableOK, DiskOK, RestOK
<1>3. QueueOK'
  <2>1. call[c].id \in Id /\ QueueOK
    BY DEF TypeInv, CallsOK, CallType
  <2>2. CASE ollama
    <3>1. Drain(Queue(call[c].id)) /\ wanted' = wanted \cup {call[c].id}
          /\ abandoned' = abandoned \ {call[c].id}
      BY <2>2 DEF Ask, Enqueue
    <3>2. abandoned' \subseteq wanted' /\ wanted' \subseteq Id /\ wanted \subseteq wanted'
          /\ Range(pending) \cup {call[c].id} \subseteq wanted'
      BY <3>1, <2>1 DEF QueueOK
    <3> QED BY <3>1, <3>2, <2>1, QueueIs, DrainStep
  <2>3. CASE ~ollama
    BY <2>3 DEF Ask, queueVars, TypeInv, QueueOK
  <2> QED BY <2>2, <2>3
<1> QED BY <1>1, <1>2, <1>3, SameJars, EndsStep, Ingests, RoomStep DEF TypeInv

LEMMA EraseType ==
  ASSUME TypeInv, NEW c \in Call, Erase(c)
  PROVE  TypeInv'
<1>1. /\ UNCHANGED <<ollama, autoEmbed, pending, worker, scan, wanted, abandoned>>
      /\ UNCHANGED <<jarOf, dir, text, spoilt, bound, faults>> /\ Ends(c) /\ owed' \subseteq owed
  BY DEF Erase, queueVars, Disk
<1>2. QueueOK' /\ DiskOK' /\ RestOK'
  BY <1>1 DEF TypeInv, QueueOK, DiskOK, RestOK
<1>3. TableOK'
  <2>1. CASE call[c].id \in mods
    <3>1. RemoveRow(call[c].id) /\ call[c].id \in Id /\ TableOK
      BY <2>1 DEF Erase, TypeInv, TableOK
    <3> QED BY <3>1, <1>1, RemoveRowStep
  <2>2. CASE call[c].id \notin mods
    BY <2>2, <1>1 DEF Erase, TypeInv, TableOK
  <2> QED BY <2>1, <2>2
<1> QED BY <1>1, <1>2, <1>3, SameJars, EndsStep, Ingests, RoomStep DEF TypeInv

\* Calls that begin on a mod of the table.
LEMMA CallOnMod ==
  ASSUME TypeInv, UNCHANGED jarOf, NEW c \in Call, NEW i \in mods, NEW at \in {"mark", "spawn", "note", "erase"},
         call' = [call EXCEPT ![c] = [Idle EXCEPT !.id = i, !.jar = jarOf[i], !.at = at]]
  PROVE  CallsOK' /\ Ingesting' \subseteq Ingesting
<1> DEFINE r == [Idle EXCEPT !.id = i, !.jar = jarOf[i], !.at = at]
<1>1. i \in Id /\ i \in Used /\ jarOf[i] \in Jar /\ CallsOK
  BY InTable DEF TypeInv, TableOK
<1>2. r \in CallType /\ r.id = i /\ r.jar = jarOf[i] /\ r.at = at /\ call' = [call EXCEPT ![c] = r] /\ call'[c] = r
  BY <1>1 DEF CallType, Idle, CallsOK
<1>3. Grows /\ Used' = Used
  BY SameJars
<1> HIDE DEF r
<1>4. CallOK(c)'
  BY <1>1, <1>2, <1>3 DEF CallOK
<1> QED BY <1>1, <1>2, <1>3, <1>4, CallStep, Ingests

LEMMA DecompileType ==
  ASSUME TypeInv, NEW c \in Call, NEW i \in Id, Decompile(c, i)
  PROVE  TypeInv'
<1>1. /\ UNCHANGED <<mods, source, files, ollama, autoEmbed, pending, worker, scan, wanted, abandoned>>
      /\ UNCHANGED <<jarOf, dir, text, spoilt, bound, owed, faults>>
  BY DEF Decompile, embedVars, queueVars, Disk
<1>2. TableOK' /\ QueueOK' /\ DiskOK' /\ RestOK'
  BY <1>1 DEF TypeInv, TableOK, QueueOK, DiskOK, RestOK
<1>3. CallsOK' /\ Ingesting' \subseteq Ingesting
  <2> DEFINE at == IF Status(Dir[jarOf[i]]) = "done" THEN "mark" ELSE "spawn"
  <2>1. /\ i \in mods /\ at \in {"mark", "spawn", "note", "erase"}
        /\ call' = [call EXCEPT ![c] = [Idle EXCEPT !.id = i, !.jar = jarOf[i], !.at = at]]
    BY DEF Decompile
  <2> HIDE DEF at
  <2> QED BY <2>1, <1>1, CallOnMod
<1> QED BY <1>1, <1>2, <1>3, RoomStep DEF TypeInv

LEMMA PollStatusType ==
  ASSUME TypeInv, NEW c \in Call, NEW i \in Id, PollStatus(c, i)
  PROVE  TypeInv'
<1>1. /\ UNCHANGED <<mods, source, files, ollama, autoEmbed, pending, worker, scan, wanted, abandoned>>
      /\ UNCHANGED <<jarOf, dir, text, spoilt, bound, owed, faults>>
      /\ i \in mods /\ call' = [call EXCEPT ![c] = [Idle EXCEPT !.id = i, !.jar = jarOf[i], !.at = "note"]]
  BY DEF PollStatus, embedVars, queueVars, Disk
<1>2. TableOK' /\ QueueOK' /\ DiskOK' /\ RestOK'
  BY <1>1 DEF TypeInv, TableOK, QueueOK, DiskOK, RestOK
<1> QED BY <1>1, <1>2, CallOnMod, RoomStep DEF TypeInv

LEMMA EmptyDir ==
  ASSUME NEW e \in DirType
  PROVE  [e EXCEPT !.done = FALSE, !.error = FALSE, !.running = 0] \in DirType
<1>1. 0 \in 0..MaxRuns
  BY Constants
<1> QED BY <1>1 DEF DirType

LEMMA DeleteType ==
  ASSUME TypeInv, NEW c \in Call, NEW i \in Id, Delete(c, i)
  PROVE  TypeInv'
<1>1. /\ UNCHANGED <<mods, source, files, ollama, autoEmbed, pending, worker, scan, wanted, abandoned>>
      /\ UNCHANGED <<jarOf, bound, owed, faults>>
      /\ i \in mods /\ call' = [call EXCEPT ![c] = [Idle EXCEPT !.id = i, !.jar = jarOf[i], !.at = "erase"]]
  BY DEF Delete, embedVars, queueVars, Idle
<1>2. TableOK' /\ QueueOK' /\ RestOK'
  BY <1>1 DEF TypeInv, TableOK, QueueOK, RestOK
<1>3. DiskOK'
  <2>1. Dir[jarOf[i]] \in Place /\ dir[Dir[jarOf[i]]] \in DirType /\ DiskOK
    BY <1>1, InTable, Jars DEF TypeInv, DiskOK
  <2>2. CASE i \in source
    <3> DEFINE d == Dir[jarOf[i]]
    <3>1. /\ dir' = [dir EXCEPT ![d] = [@ EXCEPT !.done = FALSE, !.error = FALSE, !.running = 0]]
          /\ text' = [text EXCEPT ![d] = [x \in Text |-> "none"]]
          /\ spoilt' = IF Alive(d) # {} THEN spoilt \cup {d} ELSE spoilt
      BY <2>2, Zenon DEF Delete
    <3>2. [dir[d] EXCEPT !.done = FALSE, !.error = FALSE, !.running = 0] \in DirType
      BY <2>1, EmptyDir
    <3> HIDE DEF d
    <3>3. spoilt' \subseteq spoilt \cup {d}
      BY <3>1
    <3> QED BY <3>1, <3>2, <3>3, <2>1 DEF DiskOK, d
  <2>3. CASE i \notin source
    BY <2>3 DEF Delete, TypeInv, DiskOK
  <2> QED BY <2>2, <2>3
<1> QED BY <1>1, <1>2, <1>3, CallOnMod, RoomStep DEF TypeInv

LEMMA RunEndsType ==
  ASSUME TypeInv, NEW d \in Place, NEW n \in Run, NEW good \in BOOLEAN, RunEnds(d, n, good),
         faults' \in 0..MaxFaults
  PROVE  TypeInv'
<1>1. /\ UNCHANGED <<mods, source, files, ollama, autoEmbed, pending, worker, scan, wanted, abandoned>>
      /\ UNCHANGED <<jarOf, call, owed, spoilt, bound>>
  BY DEF RunEnds, embedVars, queueVars
<1>2. TableOK' /\ QueueOK' /\ RestOK'
  BY <1>1 DEF TypeInv, TableOK, QueueOK, RestOK
<1>3. CallsOK' /\ Room'
  <2>1. Used' = Used /\ Ingesting' = Ingesting
    BY <1>1 DEF Used, New, Ingesting
  <2> QED BY <2>1, <1>1 DEF TypeInv, CallsOK, CallOK, Room
<1>4. DiskOK'
  <2> DEFINE e == IF dir[d].proc[n] = "orphan" THEN [dir[d] EXCEPT !.proc[n] = "dead"]
                  ELSE [dir[d] EXCEPT !.proc[n] = "dead", !.running = 0,
                             !.done = dir[d].done \/ good, !.error = dir[d].error \/ ~good]
  <2>1. dir' = [dir EXCEPT ![d] = e]
    BY DEF RunEnds
  <2>2. dir[d] \in DirType /\ 0 \in 0..MaxRuns
    BY Constants DEF TypeInv, DiskOK
  <2>3. e \in DirType
    BY <2>2 DEF DirType
  <2> HIDE DEF e
  <2>4. dir' \in [Place -> DirType]
    BY <2>1, <2>3 DEF TypeInv, DiskOK
  <2>5. text' \in [Place -> [Text -> {"none", "part", "whole"}]]
    <3> DEFINE x == Content[dir[d].writes[n]]
    <3>1. text' = [text EXCEPT ![d][x] = IF good THEN IF @ = "part" THEN "whole" ELSE "part" ELSE @]
      BY DEF RunEnds
    <3> HIDE DEF x
    <3>2. text \in [Place -> [Text -> {"none", "part", "whole"}]]
      BY DEF TypeInv, DiskOK
    <3> QED BY <3>1, <3>2
  <2> QED BY <2>4, <2>5, <1>1 DEF DiskOK, TypeInv
<1> QED BY <1>2, <1>3, <1>4 DEF TypeInv

LEMMA FaultStep == RestOK /\ Fault => faults' \in 0..MaxFaults
BY Constants DEF RestOK, Fault

LEMMA RestartType ==
  ASSUME TypeInv, Restart
  PROVE  TypeInv'
<1>1. /\ UNCHANGED <<mods, source, files, ollama, autoEmbed, jarOf, text, bound>> /\ owed' \subseteq owed
      /\ pending' = <<>> /\ worker' = Off /\ wanted' = {} /\ abandoned' = {} /\ scan' = autoEmbed
      /\ call' = [c \in Call |-> Idle] /\ faults' \in 0..MaxFaults
  BY FaultStep DEF Restart, ForgetQueue, TypeInv
<1>2. TableOK' /\ RestOK'
  BY <1>1 DEF TypeInv, TableOK, RestOK
<1>3. QueueOK'
  BY <1>1, LoopIs DEF QueueOK, IsInjective, Range, Off
<1>4. CallsOK' /\ Ingesting' = {}
  BY <1>1, Constants DEF CallsOK, CallOK, CallType, Idle, Ingesting
<1>5. DiskOK'
  <2>1. ASSUME NEW d \in Place
        PROVE  [dir[d] EXCEPT !.proc = [n \in Run |-> IF @[n] = "child" THEN "orphan" ELSE @[n]]] \in DirType
    <3>1. dir[d] \in DirType
      BY DEF TypeInv, DiskOK
    <3> QED BY <3>1 DEF DirType
  <2>2. dir' \in [Place -> DirType]
    BY <2>1 DEF Restart
  <2>3. \A c \in Call : At(c, "erase") => Dir[call[c].jar] \in Place
    BY Jars DEF TypeInv, CallsOK, CallOK, At
  <2>4. spoilt' \subseteq Place
    BY <2>3 DEF Restart, TypeInv, DiskOK
  <2> QED BY <2>2, <2>4, <1>1 DEF TypeInv, DiskOK
<1> QED BY <1>1, <1>2, <1>3, <1>4, <1>5, RoomStep DEF TypeInv

\* What the queue and the client that indexes leave alone.
Aside == UNCHANGED <<mods, source, autoEmbed, jarOf, call, dir, text, spoilt, bound, owed>>

LEMMA AsideType ==
  ASSUME TypeInv, Aside, QueueOK', ollama' \in BOOLEAN, scan' \in BOOLEAN, faults' \in 0..MaxFaults,
         files' = files \/ \E i \in mods, f \in {"stored", "embedded"} : files' = [files EXCEPT ![i] = f]
  PROVE  TypeInv'
<1>1. /\ UNCHANGED <<mods, source, autoEmbed, jarOf, call, dir, text, spoilt, bound, owed>>
      /\ TableOK /\ CallsOK /\ DiskOK /\ RestOK /\ Room
  BY DEF Aside, TypeInv
<1>2. TableOK'
  BY <1>1 DEF TableOK
<1>3. CallsOK' /\ Room'
  <2>1. Used' = Used /\ Ingesting' = Ingesting
    BY <1>1 DEF Used, New, Ingesting
  <2> QED BY <2>1, <1>1 DEF CallsOK, CallOK, Room
<1>4. DiskOK' /\ RestOK'
  BY <1>1 DEF DiskOK, RestOK
<1> QED BY <1>2, <1>3, <1>4 DEF TypeInv

LEMMA TakeType ==
  ASSUME TypeInv, Aside, Take
  PROVE  TypeInv'
<1>1. /\ worker.at = "check" /\ worker' = [at |-> "walk", of |-> Head(pending), tries |-> 0]
      /\ pending' = Tail(pending) /\ UNCHANGED <<files, ollama, scan, wanted, abandoned, faults>>
  BY DEF Take
<1>2. pending # <<>> /\ QueueOK
  BY <1>1 DEF TypeInv, QueueOK
<1>3. QueueOK'
  BY <1>1, <1>2, TakeOne, Constants DEF QueueOK, Job
<1> QED BY <1>1, <1>3, AsideType DEF TypeInv, RestOK

LEMMA FailedIs ==
  ASSUME QueueOK, worker.at \in {"walk", "embed"}, Failed
  PROVE  worker' \in Job /\ worker'.at = "wait" /\ worker'.of = worker.of
<1>1. worker' = [worker EXCEPT !.at = "wait", !.tries = @ + 1] /\ worker \in Job /\ worker.tries < MaxRetries
  BY DEF Failed, QueueOK
<1>2. worker.tries + 1 \in 0..MaxRetries
  BY <1>1, Constants DEF Job
<1> QED BY <1>1, <1>2 DEF Job

LEMMA WalkType ==
  ASSUME TypeInv, Aside, NEW found \in BOOLEAN, Walk(found)
  PROVE  TypeInv'
<1>1. /\ worker.at = "walk" /\ UNCHANGED <<ollama, pending, scan, wanted, abandoned, faults>>
      /\ QueueOK /\ TableOK
  BY DEF Walk, TypeInv
<1>2. CASE ollama /\ worker.of \in source
  <2>1. /\ worker' = [worker EXCEPT !.at = "embed"]
        /\ files' = [files EXCEPT ![worker.of] = IF @ = "none" /\ found THEN "stored" ELSE @]
    BY <1>2 DEF Walk
  <2>2. QueueOK'
    BY <2>1, <1>1 DEF QueueOK, Job
  <2>3. worker.of \in mods
    BY <1>1, <1>2 DEF TableOK
  <2>4. files' = files \/ files' = [files EXCEPT ![worker.of] = "stored"]
    BY <2>1, <1>1 DEF TableOK
  <2> QED BY <2>2, <2>3, <2>4, <1>1, AsideType DEF TypeInv, RestOK
<1>3. CASE ~(ollama /\ worker.of \in source)
  <2>1. Failed /\ UNCHANGED files
    BY <1>3 DEF Walk
  <2>2. QueueOK'
    BY <2>1, <1>1, FailedIs DEF QueueOK
  <2> QED BY <2>1, <2>2, <1>1, AsideType DEF TypeInv, RestOK
<1> QED BY <1>2, <1>3

LEMMA EmbedType ==
  ASSUME TypeInv, Aside, Embed
  PROVE  TypeInv'
<1>1. /\ worker.at = "embed" /\ UNCHANGED <<ollama, pending, scan, wanted, abandoned>>
      /\ QueueOK /\ TableOK /\ RestOK
  BY DEF Embed, TypeInv
<1>2. CASE /\ files' = [files EXCEPT ![worker.of] = IF @ = "stored" THEN "embedded" ELSE @]
           /\ worker' = Loop(pending) /\ UNCHANGED faults
  <2>1. QueueOK'
    BY <1>1, <1>2, LoopIs DEF QueueOK
  <2>2. \/ files' = files
        \/ worker.of \in mods /\ files' = [files EXCEPT ![worker.of] = "embedded"]
    <3>1. worker.of \in Id /\ (files[worker.of] = "stored" => worker.of \in mods)
      BY <1>1 DEF QueueOK, Job, TableOK
    <3>2. CASE files[worker.of] = "stored"
      BY <3>1, <3>2, <1>2
    <3>3. CASE files[worker.of] # "stored"
      BY <3>1, <3>3, <1>1, <1>2 DEF TableOK
    <3> QED BY <3>2, <3>3
  <2> QED BY <2>1, <2>2, <1>1, <1>2, AsideType DEF RestOK
<1>3. CASE Failed /\ UNCHANGED files /\ (Fault \/ UNCHANGED faults)
  <2>1. QueueOK'
    BY <1>1, <1>3, FailedIs DEF QueueOK
  <2> QED BY <2>1, <1>1, <1>3, AsideType, FaultStep DEF RestOK
<1> QED BY <1>2, <1>3 DEF Embed

LEMMA RetryType ==
  ASSUME TypeInv, Aside, Retry
  PROVE  TypeInv'
<1>1. /\ worker.at = "wait" /\ UNCHANGED <<files, ollama, scan, wanted, faults>>
      /\ QueueOK /\ RestOK
  BY DEF Retry, TypeInv
<1>2. worker \in Job /\ worker.of \in Id /\ worker.of \in wanted
  BY <1>1 DEF QueueOK, Job
<1>3. QueueOK'
  <2>1. CASE ~ollama
    <3>1. pending' = Queue(worker.of) /\ worker' = Off /\ UNCHANGED abandoned
      BY <2>1 DEF Retry
    <3>2. /\ pending' \in Seq(Id) /\ IsInjective(pending')
          /\ Range(pending') = Range(pending) \cup {worker.of}
      BY <3>1, <1>1, <1>2, QueueIs
    <3>3. Off \in Job /\ Off.at = "off"
      BY LoopIs
    <3> QED BY <3>1, <3>2, <3>3, <1>1, <1>2 DEF QueueOK
  <2>2. CASE ollama /\ worker.tries < MaxRetries
    <3>1. pending' = pending /\ worker' = [worker EXCEPT !.at = "walk"] /\ UNCHANGED abandoned
      BY <2>2 DEF Retry
    <3> QED BY <3>1, <2>2, <1>1, <1>2 DEF QueueOK, Job
  <2>3. CASE ollama /\ ~(worker.tries < MaxRetries)
    <3>1. pending' = pending /\ worker' = Loop(pending) /\ abandoned' = abandoned \cup {worker.of}
      BY <2>3 DEF Retry
    <3> QED BY <3>1, <1>1, <1>2, LoopIs DEF QueueOK
  <2> QED BY <2>1, <2>2, <2>3
<1> QED BY <1>1, <1>3, AsideType DEF RestOK

LEMMA StartupScanType ==
  ASSUME TypeInv, Aside, StartupScan
  PROVE  TypeInv'
<1>1. scan' = FALSE /\ UNCHANGED <<files, ollama, faults>> /\ QueueOK /\ TableOK /\ RestOK
  BY DEF StartupScan, TypeInv
<1>2. CASE ollama
  <2> DEFINE found == {i \in mods : files[i] = "stored"}
  <2>1. /\ \E order \in SetToSeqs(found \ Range(pending)) : Drain(pending \o order)
        /\ wanted' = wanted \cup found /\ abandoned' = abandoned \ found
    BY <1>2 DEF StartupScan
  <2>2. found \subseteq Id
    BY <1>1 DEF TableOK
  <2> HIDE DEF found
  <2>3. PICK order \in SetToSeqs(found \ Range(pending)) : Drain(pending \o order)
    BY <2>1
  <2>4. /\ pending \o order \in Seq(Id) /\ IsInjective(pending \o order)
        /\ Range(pending \o order) = Range(pending) \cup (found \ Range(pending))
    BY <2>2, <1>1, AppendAll DEF QueueOK
  <2>5. pending \o order # <<>> \/ pending = <<>>
    <3>1. pending # <<>> => 1 \in DOMAIN pending
      BY <1>1, EmptySeq DEF QueueOK
    <3>2. pending # <<>> => Range(pending \o order) # {}
      BY <3>1, <2>4 DEF Range
    <3> QED BY <3>2 DEF Range
  <2>6. /\ Range(pending \o order) \subseteq wanted' /\ wanted \subseteq wanted'
        /\ abandoned' \subseteq wanted' /\ wanted' \subseteq Id
    BY <2>1, <2>2, <2>4, <1>1 DEF QueueOK
  <2>7. QueueOK'
    BY <2>3, <2>4, <2>5, <2>6, <1>1, DrainStep
  <2> QED BY <2>7, <1>1, AsideType DEF RestOK
<1>3. CASE ~ollama
  <2>1. UNCHANGED <<pending, worker, wanted, abandoned>>
    BY <1>3 DEF StartupScan
  <2>2. QueueOK'
    BY <2>1, <1>1 DEF QueueOK
  <2> QED BY <2>2, <1>1, AsideType DEF RestOK
<1> QED BY <1>2, <1>3

LEMMA OllamaTurnsType ==
  ASSUME TypeInv, Aside, OllamaTurns
  PROVE  TypeInv'
<1>1. /\ ollama' = ~ollama /\ (Fault \/ UNCHANGED faults)
      /\ UNCHANGED <<files, pending, worker, scan, wanted, abandoned>> /\ QueueOK /\ RestOK
  BY DEF OllamaTurns, queueVars, TypeInv
<1>2. QueueOK'
  BY <1>1 DEF QueueOK
<1>3. ollama' \in BOOLEAN
  BY <1>1 DEF RestOK
<1> QED BY <1>1, <1>2, <1>3, AsideType, FaultStep DEF RestOK

LEMMA IndexFtsType ==
  ASSUME TypeInv, Aside, NEW i \in Id, NEW found, IndexFts(i, found)
  PROVE  TypeInv'
<1>1. /\ UNCHANGED <<ollama, pending, worker, scan, wanted, abandoned, faults>> /\ QueueOK /\ RestOK
      /\ i \in mods /\ files' = [files EXCEPT ![i] = "stored"]
  BY DEF IndexFts, queueVars, TypeInv, TableOK
<1>2. QueueOK'
  BY <1>1 DEF QueueOK
<1> QED BY <1>1, <1>2, AsideType DEF RestOK

\* The steps of the queue and of indexing, one by one.
QueueStep ==
  Take \/ Walk(Found(worker.of)) \/ Embed \/ Retry \/ StartupScan \/ OllamaTurns
  \/ \E i \in Id : IndexFts(i, Found(i))

LEMMA QueueSteps == QueueNext => Aside /\ QueueStep
<1>1. QueueWorks => Aside /\ QueueStep
  BY DEF QueueWorks, WorkerStep, Take, Walk, Embed, Retry, Aside, QueueStep, Disk
<1>2. (StartupScan \/ OllamaTurns \/ \E i \in Id : IndexFts(i, Found(i))) /\ UNCHANGED <<jarOf, call, Disk, owed>>
         => Aside /\ QueueStep
  BY DEF StartupScan, OllamaTurns, IndexFts, Aside, QueueStep, Disk
<1> QED BY <1>1, <1>2 DEF QueueNext

LEMMA FoundIs == Found(worker.of) \in BOOLEAN
BY DEF Found

LEMMA NextType == TypeInv /\ [Next]_vars => TypeInv'
<1> SUFFICES ASSUME TypeInv, [Next]_vars PROVE TypeInv'
  OBVIOUS
<1>1. ASSUME NEW c \in Call, NEW j \in Jar, NEW replace \in BOOLEAN, Ingest(c, j, replace) PROVE TypeInv'
  BY <1>1, IngestType
<1>2. ASSUME NEW c \in Call, IngestStep(c) PROVE TypeInv'
  BY <1>2, FindDuplicateType, DropType, FindOlderType, CheckHashType, CreateType DEF IngestStep
<1>3. ASSUME NEW c \in Call, Spawn(c) \/ Mark(c) \/ Note(c) \/ Ask(c) \/ Erase(c) PROVE TypeInv'
  BY <1>3, SpawnType, MarkType, NoteType, AskType, EraseType
<1>4. ASSUME NEW c \in Call, NEW i \in Id, Decompile(c, i) \/ PollStatus(c, i) \/ Delete(c, i)
      PROVE  TypeInv'
  BY <1>4, DecompileType, PollStatusType, DeleteType
<1>5. ASSUME NEW d \in Place, NEW n \in Run, Succeeds(d, n) \/ Crashes(d, n) PROVE TypeInv'
  <2>1. RestOK
    BY DEF TypeInv
  <2>2. CASE Succeeds(d, n)
    BY <2>1, <2>2, RunEndsType DEF Succeeds, RestOK
  <2>3. CASE Crashes(d, n)
    BY <2>1, <2>3, RunEndsType, FaultStep DEF Crashes
  <2> QED BY <1>5, <2>2, <2>3
<1>6. ASSUME Restart PROVE TypeInv'
  BY <1>6, RestartType
<1>7. ASSUME QueueNext PROVE TypeInv'
  <2>1. Aside /\ QueueStep
    BY <1>7, QueueSteps
  <2>2. ASSUME NEW i \in Id, IndexFts(i, Found(i)) PROVE TypeInv'
    BY <2>1, <2>2, IndexFtsType
  <2>3. CASE Walk(Found(worker.of))
    BY <2>1, <2>3, WalkType, FoundIs
  <2> QED BY <2>1, <2>2, <2>3, TakeType, EmbedType, RetryType, StartupScanType, OllamaTurnsType DEF QueueStep
<1>8. CASE UNCHANGED vars
  <2>1. /\ UNCHANGED <<mods, source, files, ollama, autoEmbed, pending, worker, scan, wanted, abandoned>>
        /\ UNCHANGED <<jarOf, call, dir, text, owed, spoilt, bound, faults>>
    BY <1>8 DEF vars, embedVars, queueVars
  <2>2. TableOK' /\ QueueOK' /\ DiskOK' /\ RestOK'
    BY <2>1 DEF TypeInv, TableOK, QueueOK, DiskOK, RestOK
  <2>3. CallsOK' /\ Room'
    <3>1. Used' = Used /\ Ingesting' = Ingesting
      BY <2>1 DEF Used, New, Ingesting
    <3> QED BY <3>1, <2>1 DEF TypeInv, CallsOK, CallOK, Room
  <2> QED BY <2>2, <2>3 DEF TypeInv
<1> QED BY <1>1, <1>2, <1>3, <1>4, <1>5, <1>6, <1>7, <1>8 DEF Next

LEMMA AlwaysTyped == Spec => []TypeInv
BY InitType, NextType, PTL DEF Spec

\* The state is what the code keeps it to be: a jar and a version are in the table once,
\* a mod waits in the queue once, and the tries of the worker stay in their bound.
THEOREM Typing == Spec => []TypeOK
BY AlwaysTyped, Typed, PTL
-----------------------------------------------------------------------------
(* A modId stays in the library while it is replaced.                       *)

\* A call that removes a row replaces, and removes one of the modId it brings, ...
Victim(c) ==
  /\ call[c].at \in {"drop", "older", "dropOlder"} => call[c].replace
  /\ call[c].at \in {"drop", "dropOlder"} =>
       call[c].id \in Used /\ ModOf[jarOf[call[c].id]] = ModOf[call[c].jar]
Victims == \A c \in Call : Victim(c)

\* ... and brings it unless another has removed the row, which that one does then.
Brings(c, m) ==
  /\ call[c].replace /\ ModOf[call[c].jar] = m
  /\ call[c].at \in {"drop", "dropOlder"} => call[c].id \in mods
Kept == \A m \in owed : RowsOf(m) # {} \/ \E c \in Ingesting : Brings(c, m)

ReplaceInv == Victims /\ Kept

LEMMA KeptIs == ReplaceInv => KeepsAMod
BY DEF ReplaceInv, Kept, Brings, KeepsAMod

LEMMA StartsIdle ==
  ASSUME NEW c \in Call, Starts(c)
  PROVE  call[c].at = "idle"
BY DEF Starts, Free, At

LEMMA InitReplace == Init => ReplaceInv
BY DEF Init, ReplaceInv, Victims, Victim, Kept, Idle

\* A step of a call that neither removes a row nor ends an ingestion.
LEMMA ReplaceOther ==
  ASSUME ReplaceInv, TypeInv, UNCHANGED <<mods, jarOf, owed>>, NEW c \in Call,
         c \notin Ingesting, \A d \in Call : d # c => call'[d] = call[d],
         call'[c].at \notin {"drop", "older", "dropOlder"}
  PROVE  ReplaceInv'
<1>1. Used' = Used
  BY SameJars
<1>2. Victims'
  <2> SUFFICES ASSUME NEW d \in Call PROVE Victim(d)'
    BY DEF Victims
  <2>1. CASE d # c
    BY <2>1, <1>1 DEF ReplaceInv, Victims, Victim
  <2>2. CASE d = c
    BY <2>2 DEF Victim
  <2> QED BY <2>1, <2>2
<1>3. Kept'
  <2> SUFFICES ASSUME NEW m \in owed, RowsOf(m) = {} PROVE \E d \in Ingesting' : Brings(d, m)'
    BY DEF Kept, RowsOf
  <2>1. PICK d \in Ingesting : Brings(d, m)
    BY DEF ReplaceInv, Kept
  <2>2. d \in Call /\ call'[d] = call[d]
    BY DEF Ingesting
  <2>3. d \in Ingesting' /\ Brings(d, m)'
    BY <2>1, <2>2 DEF Ingesting, Brings
  <2> QED BY <2>3
<1> QED BY <1>2, <1>3 DEF ReplaceInv

LEMMA ReplaceStill ==
  ASSUME ReplaceInv, UNCHANGED <<mods, jarOf, owed, call>>
  PROVE  ReplaceInv'
BY DEF ReplaceInv, Victims, Victim, Kept, Brings, RowsOf, Used, New, Ingesting

\* An ingestion that goes on without removing a row.
LEMMA ReplaceGoes ==
  ASSUME ReplaceInv, TypeInv, UNCHANGED <<mods, jarOf, owed>>, NEW c \in Ingesting,
         NEW r \in CallType, call' = [call EXCEPT ![c] = r],
         r.at \in {"drop", "older", "dropOlder", "hash", "create"},
         r.jar = call[c].jar, r.replace = call[c].replace,
         r.at \in {"drop", "older", "dropOlder"} => r.replace,
         r.at \in {"drop", "dropOlder"} => r.id \in mods /\ ModOf[jarOf[r.id]] = ModOf[r.jar]
  PROVE  ReplaceInv'
<1>1. Used' = Used /\ mods \subseteq Used /\ c \in Call /\ call'[c] = r
  BY SameJars, InTable DEF Ingesting, TypeInv, CallsOK
<1>2. \A d \in Call : d # c => call'[d] = call[d]
  BY DEF TypeInv, CallsOK
<1>3. Victims'
  <2> SUFFICES ASSUME NEW d \in Call PROVE Victim(d)'
    BY DEF Victims
  <2>1. CASE d # c
    BY <2>1, <1>1, <1>2 DEF ReplaceInv, Victims, Victim
  <2>2. CASE d = c
    BY <2>2, <1>1 DEF Victim
  <2> QED BY <2>1, <2>2
<1>4. Kept'
  <2> SUFFICES ASSUME NEW m \in owed, RowsOf(m) = {} PROVE \E d \in Ingesting' : Brings(d, m)'
    BY DEF Kept, RowsOf
  <2>1. PICK d \in Ingesting : Brings(d, m)
    BY DEF ReplaceInv, Kept
  <2>2. CASE d # c
    <3>1. d \in Call /\ call'[d] = call[d]
      BY <2>2, <1>2 DEF Ingesting
    <3>2. d \in Ingesting' /\ Brings(d, m)'
      BY <2>1, <3>1 DEF Ingesting, Brings
    <3> QED BY <3>2
  <2>3. CASE d = c
    <3>1. c \in Ingesting'
      BY <1>1 DEF Ingesting
    <3>2. Brings(c, m)'
      BY <2>1, <2>3, <1>1 DEF Brings
    <3> QED BY <3>1, <3>2
  <2> QED BY <2>2, <2>3
<1> QED BY <1>3, <1>4 DEF ReplaceInv

LEMMA ReplaceIngest ==
  ASSUME ReplaceInv, TypeInv, NEW c \in Call, NEW j \in Jar, NEW replace \in BOOLEAN, Ingest(c, j, replace)
  PROVE  ReplaceInv'
<1>1. /\ UNCHANGED <<mods, jarOf, owed>> /\ call[c].at = "idle" /\ call'[c].at = "dup"
      /\ \A d \in Call : d # c => call'[d] = call[d]
  BY StartsIdle DEF Ingest, embedVars, TypeInv, CallsOK, Idle
<1>2. c \notin Ingesting
  BY <1>1 DEF Ingesting
<1> QED BY <1>1, <1>2, ReplaceOther

LEMMA ReplaceFindDuplicate ==
  ASSUME ReplaceInv, TypeInv, NEW c \in Call, FindDuplicate(c)
  PROVE  ReplaceInv'
<1>1. /\ UNCHANGED <<mods, jarOf, owed>> /\ call[c].at = "dup" /\ c \in Ingesting
      /\ call[c] \in CallType /\ call[c].jar \in Jar /\ call \in [Call -> CallType]
  BY DEF FindDuplicate, embedVars, At, Ingesting, TypeInv, CallsOK, CallOK
<1>2. ASSUME NEW at \in {"older", "hash"}, Goes(c, at), at = "older" => call[c].replace
      PROVE  ReplaceInv'
  <2> DEFINE r == [call[c] EXCEPT !.at = at]
  <2>1. r \in CallType /\ r.at = at /\ r.jar = call[c].jar /\ r.replace = call[c].replace
        /\ call' = [call EXCEPT ![c] = r]
    BY <1>1, <1>2 DEF CallType, Goes
  <2> HIDE DEF r
  <2> QED BY <2>1, <1>1, <1>2, ReplaceGoes
<1>3. ASSUME ~call[c].replace, Ends(c) PROVE ReplaceInv'
  <2>1. Victims'
    BY <1>1, <1>3, SameJars DEF ReplaceInv, Victims, Victim, Ends, Idle
  <2>2. Kept'
    <3> SUFFICES ASSUME NEW m \in owed, RowsOf(m) = {} PROVE \E d \in Ingesting' : Brings(d, m)'
      BY <1>1 DEF Kept, RowsOf
    <3>1. PICK d \in Ingesting : Brings(d, m)
      BY DEF ReplaceInv, Kept
    <3>2. d # c /\ d \in Call /\ call'[d] = call[d]
      BY <3>1, <1>1, <1>3 DEF Brings, Ingesting, Ends
    <3>3. d \in Ingesting' /\ Brings(d, m)'
      BY <3>1, <3>2, <1>1 DEF Ingesting, Brings
    <3> QED BY <3>3
  <2> QED BY <2>1, <2>2 DEF ReplaceInv
<1>4. ASSUME NEW i \in mods, Key[jarOf[i]] = Key[call[c].jar], call[c].replace,
             call' = [call EXCEPT ![c].at = "drop", ![c].id = i]
      PROVE  ReplaceInv'
  <2> DEFINE r == [call[c] EXCEPT !.at = "drop", !.id = i]
  <2>1. i \in Id /\ jarOf[i] \in Jar
    BY InTable DEF TypeInv, TableOK
  <2>2. r \in CallType /\ r.at = "drop" /\ r.jar = call[c].jar /\ r.replace = call[c].replace /\ r.id = i
        /\ call' = [call EXCEPT ![c] = r]
    BY <1>1, <1>4, <2>1 DEF CallType
  <2>3. ModOf[jarOf[i]] = ModOf[call[c].jar]
    BY <1>1, <1>4, <2>1, JarAssumption
  <2> HIDE DEF r
  <2>4. r.replace /\ r.id \in mods /\ ModOf[jarOf[r.id]] = ModOf[r.jar]
    BY <2>2, <2>3, <1>4
  <2> QED BY ONLY ReplaceInv, TypeInv, <1>1, <2>2, <2>4, ReplaceGoes
<1> QED BY <1>2, <1>3, <1>4 DEF FindDuplicate

LEMMA ReplaceFindOlder ==
  ASSUME ReplaceInv, TypeInv, NEW c \in Call, FindOlder(c)
  PROVE  ReplaceInv'
<1>1. /\ UNCHANGED <<mods, jarOf, owed>> /\ call[c].at = "older" /\ c \in Ingesting
      /\ call[c] \in CallType /\ call \in [Call -> CallType] /\ call[c].replace
  BY DEF FindOlder, embedVars, At, Ingesting, TypeInv, CallsOK, ReplaceInv, Victims, Victim
<1>2. ASSUME Goes(c, "hash") PROVE ReplaceInv'
  <2> DEFINE r == [call[c] EXCEPT !.at = "hash"]
  <2>1. r \in CallType /\ r.at = "hash" /\ r.jar = call[c].jar /\ r.replace = call[c].replace
        /\ call' = [call EXCEPT ![c] = r]
    BY <1>1, <1>2 DEF CallType, Goes
  <2> HIDE DEF r
  <2> QED BY <2>1, <1>1, ReplaceGoes
<1>3. ASSUME NEW i \in RowsOf(ModOf[call[c].jar]), call' = [call EXCEPT ![c].at = "dropOlder", ![c].id = i]
      PROVE  ReplaceInv'
  <2> DEFINE r == [call[c] EXCEPT !.at = "dropOlder", !.id = i]
  <2>1. i \in Id /\ i \in mods /\ ModOf[jarOf[i]] = ModOf[call[c].jar]
    BY DEF RowsOf, TypeInv, TableOK
  <2>2. r \in CallType /\ r.at = "dropOlder" /\ r.jar = call[c].jar /\ r.replace = call[c].replace /\ r.id = i
        /\ call' = [call EXCEPT ![c] = r]
    BY <1>1, <1>3, <2>1 DEF CallType
  <2> HIDE DEF r
  <2> QED BY <2>1, <2>2, <1>1, ReplaceGoes
<1> QED BY <1>2, <1>3 DEF FindOlder

\* The call that removes the row of a modId brings it.
LEMMA ReplaceDrop ==
  ASSUME ReplaceInv, TypeInv, NEW c \in Call, Drop(c)
  PROVE  ReplaceInv'
<1> DEFINE i == call[c].id
           m0 == ModOf[call[c].jar]
<1>1. /\ UNCHANGED <<jarOf, owed>> /\ call[c].at \in {"drop", "dropOlder"} /\ c \in Ingesting
      /\ call[c].replace /\ i \in Used /\ ModOf[jarOf[i]] = m0
      /\ call[c] \in CallType /\ call \in [Call -> CallType] /\ Used' = Used
  BY SameJars DEF Drop, Disk, Ingesting, TypeInv, CallsOK, ReplaceInv, Victims, Victim
<1>2. CASE i \in mods
  <2>1. mods' = mods \ {i} /\ \E at \in {"older", "hash"} : Goes(c, at)
    BY <1>2 DEF Drop, RemoveRow
  <2>2. PICK at \in {"older", "hash"} : call' = [call EXCEPT ![c].at = at]
    BY <2>1 DEF Goes
  <2>3. /\ call'[c].at = at /\ call'[c].jar = call[c].jar /\ call'[c].replace /\ c \in Ingesting'
        /\ \A d \in Call : d # c => call'[d] = call[d]
    BY <2>2, <1>1 DEF CallType, Ingesting
  <2>4. Victims'
    <3> SUFFICES ASSUME NEW d \in Call PROVE Victim(d)'
      BY DEF Victims
    <3>1. CASE d # c
      BY <3>1, <2>3, <1>1 DEF ReplaceInv, Victims, Victim
    <3>2. CASE d = c
      BY <3>2, <2>3 DEF Victim
    <3> QED BY <3>1, <3>2
  <2>5. Kept'
    <3> SUFFICES ASSUME NEW m \in owed PROVE RowsOf(m)' # {} \/ \E d \in Ingesting' : Brings(d, m)'
      BY <1>1 DEF Kept
    <3>1. CASE m = m0
      <4>1. Brings(c, m)'
        BY <3>1, <2>3 DEF Brings
      <4> QED BY <4>1, <2>3
    <3>2. CASE m # m0
      <4>1. RowsOf(m)' = RowsOf(m)
        BY <3>2, <2>1, <1>1 DEF RowsOf
      <4>2. ASSUME NEW d \in Ingesting, Brings(d, m) PROVE d \in Ingesting' /\ Brings(d, m)'
        <5>1. d \in Call /\ d # c /\ call'[d] = call[d] /\ Victim(d)
          BY <4>2, <3>2, <2>3 DEF Brings, Ingesting, ReplaceInv, Victims
        <5>2. call[d].at \in {"drop", "dropOlder"} => call[d].id # i
          BY <5>1, <4>2, <3>2, <1>1 DEF Brings, Victim
        <5> QED BY <4>2, <5>1, <5>2, <2>1 DEF Ingesting, Brings
      <4> QED BY <4>1, <4>2 DEF ReplaceInv, Kept
    <3> QED BY <3>1, <3>2
  <2> QED BY <2>4, <2>5 DEF ReplaceInv
<1>3. CASE i \notin mods
  <2>1. UNCHANGED mods /\ Ends(c)
    BY <1>3 DEF Drop
  <2>2. call'[c].at = "idle" /\ \A d \in Call : d # c => call'[d] = call[d]
    BY <2>1, <1>1 DEF Ends, Idle
  <2>3. Victims'
    <3> SUFFICES ASSUME NEW d \in Call PROVE Victim(d)'
      BY DEF Victims
    <3>1. CASE d # c
      BY <3>1, <2>2, <1>1 DEF ReplaceInv, Victims, Victim
    <3>2. CASE d = c
      BY <3>2, <2>2 DEF Victim
    <3> QED BY <3>1, <3>2
  <2>4. Kept'
    <3> SUFFICES ASSUME NEW m \in owed, RowsOf(m) = {} PROVE \E d \in Ingesting' : Brings(d, m)'
      BY <1>1, <2>1 DEF Kept, RowsOf
    <3>1. PICK d \in Ingesting : Brings(d, m)
      BY DEF ReplaceInv, Kept
    <3>2. d # c /\ d \in Call /\ call'[d] = call[d]
      BY <3>1, <1>1, <1>3, <2>2 DEF Brings, Ingesting
    <3>3. d \in Ingesting' /\ Brings(d, m)'
      BY <3>1, <3>2, <2>1 DEF Ingesting, Brings
    <3> QED BY <3>3
  <2> QED BY <2>3, <2>4 DEF ReplaceInv
<1> QED BY <1>2, <1>3

\* A call that ends without a row was not needed, or its modId is owed no more.
LEMMA ReplaceEnds ==
  ASSUME ReplaceInv, TypeInv, NEW c \in Call, Ends(c), Grows, NEW m0, mods \subseteq mods',
         m0 = ModOf[call[c].jar],
         \A m \in owed' : m \in owed \/ m = m0,
         m0 \in owed' /\ (call[c].replace \/ m0 \notin owed) => RowsOf(m0)' # {}
  PROVE  ReplaceInv'
<1>1. /\ call'[c].at = "idle" /\ \A d \in Call : d # c => call'[d] = call[d]
      /\ mods \subseteq Used
  BY InTable DEF Ends, Idle, TypeInv, CallsOK
<1>2. Victims'
  <2> SUFFICES ASSUME NEW d \in Call PROVE Victim(d)'
    BY DEF Victims
  <2>1. CASE d # c
    BY <2>1, <1>1 DEF ReplaceInv, Victims, Victim, Grows
  <2>2. CASE d = c
    BY <2>2, <1>1 DEF Victim
  <2> QED BY <2>1, <2>2
<1>3. Kept'
  <2> SUFFICES ASSUME NEW m \in owed', RowsOf(m)' = {} PROVE \E d \in Ingesting' : Brings(d, m)'
    BY DEF Kept
  <2>1. m \in owed /\ (m = m0 => ~call[c].replace)
    OBVIOUS
  <2>2. RowsOf(m) = {}
    BY <1>1 DEF RowsOf, Grows
  <2>3. PICK d \in Ingesting : Brings(d, m)
    BY <2>1, <2>2 DEF ReplaceInv, Kept
  <2>4. d # c /\ d \in Call /\ call'[d] = call[d]
    BY <2>1, <2>3, <1>1 DEF Brings, Ingesting
  <2>5. d \in Ingesting' /\ Brings(d, m)'
    BY <2>3, <2>4 DEF Ingesting, Brings
  <2> QED BY <2>5
<1> QED BY <1>2, <1>3 DEF ReplaceInv

LEMMA ReplaceCheckHash ==
  ASSUME ReplaceInv, TypeInv, NEW c \in Call, CheckHash(c)
  PROVE  ReplaceInv'
<1> PICK m0 : m0 = ModOf[call[c].jar]
  OBVIOUS
<1>1. /\ UNCHANGED <<mods, jarOf>> /\ call[c].at = "hash" /\ c \in Ingesting
      /\ call[c] \in CallType /\ call \in [Call -> CallType]
  BY DEF CheckHash, embedVars, At, Ingesting, TypeInv, CallsOK
<1>2. CASE Goes(c, "create") /\ UNCHANGED owed
  <2> DEFINE r == [call[c] EXCEPT !.at = "create"]
  <2>1. r \in CallType /\ r.at = "create" /\ r.jar = call[c].jar /\ r.replace = call[c].replace
        /\ call' = [call EXCEPT ![c] = r]
    BY <1>1, <1>2 DEF CallType, Goes
  <2> HIDE DEF r
  <2> QED BY <2>1, <1>1, <1>2, ReplaceGoes
<1>3. CASE Ends(c) /\ owed' = IF call[c].replace /\ RowsOf(m0) = {} THEN owed \ {m0} ELSE owed
  <2>1. RowsOf(m0)' = RowsOf(m0)
    BY <1>1 DEF RowsOf
  <2>2. /\ \A m \in owed' : m \in owed \/ m = m0
        /\ m0 \in owed' /\ (call[c].replace \/ m0 \notin owed) => RowsOf(m0)' # {}
    BY <2>1, <1>3
  <2> QED BY <2>2, <1>1, <1>3, SameJars, ReplaceEnds
<1> QED BY <1>2, <1>3 DEF CheckHash

LEMMA ReplaceCreate ==
  ASSUME ReplaceInv, TypeInv, NEW c \in Call, Create(c)
  PROVE  ReplaceInv'
<1> PICK j, m0 : j = call[c].jar /\ m0 = ModOf[j]
  OBVIOUS
<1>1. /\ Ends(c) /\ call[c].at = "create" /\ j \in Jar
      /\ mods \subseteq Used /\ \A i \in mods : jarOf[i] \in Jar
  BY InTable DEF Create, At, TypeInv, CallsOK, CallOK
<1>2. CASE \E i \in mods : jarOf[i] = j \/ Key[jarOf[i]] = Key[j]
  <2>1. UNCHANGED <<mods, jarOf, owed>>
    BY <1>2 DEF Create
  <2>2. PICK i \in mods : jarOf[i] = j \/ Key[jarOf[i]] = Key[j]
    BY <1>2
  <2>3. ModOf[jarOf[i]] = m0
    BY <2>2, <1>1, JarAssumption
  <2>4. RowsOf(m0)' # {}
    BY <2>1, <2>2, <2>3 DEF RowsOf
  <2> QED BY <2>1, <2>4, <1>1, SameJars, ReplaceEnds
<1>3. CASE ~ \E i \in mods : jarOf[i] = j \/ Key[jarOf[i]] = Key[j]
  <2>1. /\ mods' = mods \cup {NextId} /\ jarOf' = [jarOf EXCEPT ![NextId] = j]
        /\ owed' = owed \cup {m0}
    BY <1>3 DEF Create, NextId
  <2>2. New # {}
    BY RoomLeft, <1>1
  <2>3. NextId \in New /\ NextId \in Id
    BY <2>2, NextIdIn DEF New
  <2>4. Grows /\ jarOf'[NextId] = j
    BY <2>1, <2>3, <1>1, Constants DEF TypeInv, TableOK, Grows, Used, New
  <2>5. NextId \in RowsOf(m0)'
    BY <2>1, <2>4 DEF RowsOf
  <2> QED BY <2>1, <2>4, <2>5, <1>1, ReplaceEnds
<1> QED BY <1>2, <1>3

LEMMA ReplaceErase ==
  ASSUME ReplaceInv, TypeInv, NEW c \in Call, Erase(c)
  PROVE  ReplaceInv'
<1> DEFINE i == call[c].id
<1>1. /\ UNCHANGED jarOf /\ Ends(c) /\ call[c].at = "erase" /\ c \notin Ingesting
  BY DEF Erase, At, Ingesting
<1>2. Used' = Used /\ call'[c].at = "idle" /\ \A d \in Call : d # c => call'[d] = call[d]
  BY <1>1, SameJars DEF Ends, Idle, TypeInv, CallsOK
<1>3. CASE i \in mods
  <2>1. mods' = mods \ {i} /\ owed' = owed \ {m \in owed : RowsOf(m) \subseteq {i}}
    BY <1>3 DEF Erase, RemoveRow
  <2>2. Victims'
    <3> SUFFICES ASSUME NEW d \in Call PROVE Victim(d)'
      BY DEF Victims
    <3>1. CASE d # c
      BY <3>1, <1>1, <1>2 DEF ReplaceInv, Victims, Victim
    <3>2. CASE d = c
      BY <3>2, <1>2 DEF Victim
    <3> QED BY <3>1, <3>2
  <2>3. Kept'
    <3> SUFFICES ASSUME NEW m \in owed' PROVE RowsOf(m)' # {}
      BY DEF Kept
    <3>1. PICK k \in RowsOf(m) : k # i
      BY <2>1
    <3>2. k \in RowsOf(m)'
      BY <3>1, <2>1, <1>1 DEF RowsOf
    <3> QED BY <3>2
  <2> QED BY <2>2, <2>3 DEF ReplaceInv
<1>4. CASE i \notin mods
  <2>1. UNCHANGED <<mods, owed>>
    BY <1>4 DEF Erase
  <2> QED BY <2>1, <1>1, <1>2, ReplaceOther
<1> QED BY <1>3, <1>4

LEMMA NextReplace == TypeInv /\ ReplaceInv /\ [Next]_vars => ReplaceInv'
<1> SUFFICES ASSUME TypeInv, ReplaceInv, [Next]_vars PROVE ReplaceInv'
  OBVIOUS
<1>1. ASSUME NEW c \in Call, NEW j \in Jar, NEW replace \in BOOLEAN, Ingest(c, j, replace) PROVE ReplaceInv'
  BY <1>1, ReplaceIngest
<1>2. ASSUME NEW c \in Call, IngestStep(c) PROVE ReplaceInv'
  BY <1>2, ReplaceFindDuplicate, ReplaceDrop, ReplaceFindOlder, ReplaceCheckHash, ReplaceCreate DEF IngestStep
<1>3. ASSUME NEW c \in Call, Spawn(c) \/ Mark(c) \/ Note(c) \/ Ask(c) PROVE ReplaceInv'
  <2>1. /\ UNCHANGED <<mods, jarOf, owed>> /\ c \notin Ingesting
        /\ \A d \in Call : d # c => call'[d] = call[d]
        /\ call'[c].at \notin {"drop", "older", "dropOlder"}
    <3>1. /\ UNCHANGED <<mods, jarOf, owed>> /\ (Ends(c) \/ Goes(c, "ask"))
          /\ call[c].at \in {"spawn", "mark", "note", "ask"}
      BY <1>3 DEF Spawn, Mark, Note, Ask, embedVars, At
    <3> QED BY <3>1 DEF Ends, Goes, Ingesting, TypeInv, CallsOK, CallType, Idle
  <2> QED BY <2>1, ReplaceOther
<1>4. ASSUME NEW c \in Call, NEW i \in Id, Decompile(c, i) \/ PollStatus(c, i) \/ Delete(c, i)
      PROVE  ReplaceInv'
  <2>1. /\ UNCHANGED <<mods, jarOf, owed>> /\ call[c].at = "idle"
        /\ \A d \in Call : d # c => call'[d] = call[d]
        /\ call'[c].at \notin {"drop", "older", "dropOlder"}
    BY <1>4, StartsIdle DEF Decompile, PollStatus, Delete, embedVars, TypeInv, CallsOK, Idle
  <2>2. c \notin Ingesting
    BY <2>1 DEF Ingesting
  <2> QED BY <2>1, <2>2, ReplaceOther
<1>5. ASSUME NEW d \in Place, NEW n \in Run, Succeeds(d, n) \/ Crashes(d, n) PROVE ReplaceInv'
  BY <1>5, ReplaceStill DEF Succeeds, Crashes, RunEnds, embedVars
<1>6. ASSUME Restart PROVE ReplaceInv'
  <2>1. /\ UNCHANGED <<mods, jarOf>> /\ call' = [c \in Call |-> Idle] /\ owed' = {m \in owed : RowsOf(m) # {}}
    BY <1>6 DEF Restart
  <2>2. \A m : RowsOf(m)' = RowsOf(m)
    BY <2>1 DEF RowsOf
  <2> QED BY <2>1, <2>2 DEF ReplaceInv, Victims, Victim, Kept, Idle
<1>7. ASSUME QueueNext PROVE ReplaceInv'
  BY <1>7, QueueSteps, ReplaceStill DEF Aside
<1>8. CASE UNCHANGED vars
  BY <1>8, ReplaceStill DEF vars, embedVars
<1> QED BY <1>1, <1>2, <1>3, <1>4, <1>5, <1>6, <1>7, <1>8, ReplaceErase DEF Next

\* However many calls replace a mod at once, its modId stays in the library until it is
\* deleted: a row is removed only by a call that is about to write one.
THEOREM ModKept == Spec => []KeepsAMod
BY AlwaysTyped, InitReplace, NextReplace, KeptIs, PTL DEF Spec
-----------------------------------------------------------------------------
(* The source of a mod is its own.                                          *)

\* The jars of a directory, and the source of one of them.
Held(d) == {j \in Jar : Dir[j] = d /\ \E i \in Used : jarOf[i] = j}
Own(j) == [x \in Text |-> IF x = Content[j] THEN "whole" ELSE "none"]

\* Runs and text are of jars the directory is of; where no two have been at work a run is
\* alone, its source is not whole yet, and what is marked as done is one jar's.
DirInv(d) ==
  /\ \A n \in Alive(d) : dir[d].writes[n] \in Held(d)
  /\ \A x \in Text : text[d][x] # "none" => \E j \in Held(d) : Content[j] = x
  /\ d \notin spoilt =>
       /\ \A j, k \in Held(d) : Content[j] = Content[k]
       /\ \A n \in Alive(d) : /\ Alive(d) = {n} /\ ~dir[d].done
                              /\ text[d][Content[dir[d].writes[n]]] = "part"
       /\ dir[d].done => \E j \in Held(d) : text[d] = Own(j)

\* A mod is marked, and a call marks one, only as long as its directory is done, unless
\* the mod is being deleted.
MarkInv(i) == Dir[jarOf[i]] \notin spoilt => dir[Dir[jarOf[i]]].done \/ Erasing(i)
Marking(c) == call[c].at \in {"mark", "note"} /\ call[c].id \in mods => MarkInv(call[c].id)

SourceInv ==
  /\ \A d \in Place : DirInv(d)
  /\ \A i \in source : MarkInv(i)
  /\ \A c \in Call : Marking(c)

LEMMA HeldIs ==
  ASSUME TypeInv, NEW i \in Used
  PROVE  jarOf[i] \in Jar /\ Dir[jarOf[i]] \in Place /\ jarOf[i] \in Held(Dir[jarOf[i]])
<1>1. jarOf[i] \in Jar
  BY DEF TypeInv, TableOK, Used, New
<1> QED BY <1>1, Jars DEF Held

LEMMA OwnIs ==
  ASSUME TypeInv, SourceInv
  PROVE  SourceIsOwn
<1> SUFFICES ASSUME NEW i \in source, Dir[jarOf[i]] \notin spoilt, ~Erasing(i)
             PROVE  text[Dir[jarOf[i]]] = [x \in Text |-> IF x = Content[jarOf[i]] THEN "whole" ELSE "none"]
  BY DEF SourceIsOwn, Erasing
<1>1. i \in Used
  BY InTable DEF TypeInv, TableOK
<1>2. jarOf[i] \in Held(Dir[jarOf[i]]) /\ Dir[jarOf[i]] \in Place
  BY <1>1, HeldIs
<1>3. dir[Dir[jarOf[i]]].done /\ DirInv(Dir[jarOf[i]])
  BY <1>2 DEF SourceInv, MarkInv
<1>4. PICK j \in Held(Dir[jarOf[i]]) : text[Dir[jarOf[i]]] = Own(j)
  BY <1>3 DEF DirInv
<1>5. Content[j] = Content[jarOf[i]]
  BY <1>2, <1>3, <1>4 DEF DirInv
<1> QED BY <1>4, <1>5 DEF Own

LEMMA InitSource == Init => SourceInv
<1> SUFFICES ASSUME Init PROVE SourceInv
  OBVIOUS
<1>1. ASSUME NEW d \in Place PROVE DirInv(d)
  <2>1. Alive(d) = {} /\ ~dir[d].done /\ \A x \in Text : text[d][x] = "none"
    BY DEF Init, NoDir, Alive
  <2>2. Held(d) = {}
    BY DEF Init, Held, Used, New
  <2> QED BY <2>1, <2>2 DEF DirInv
<1>2. source = {} /\ \A c \in Call : call[c].at = "idle"
  BY DEF Init, EmbedInit, Idle
<1> QED BY <1>1, <1>2 DEF SourceInv, Marking

\* A directory nothing happens in.
LEMMA DirStill ==
  ASSUME NEW d \in Place, DirInv(d), UNCHANGED <<jarOf, dir[d], text[d]>>,
         d \in spoilt => d \in spoilt'
  PROVE  DirInv(d)'
BY DEF DirInv, Alive, Held, Used, New

\* A mod is as it was, and so is its directory.
LEMMA MarkStill ==
  ASSUME NEW i, i \in Used, Grows, MarkInv(i), dir'[Dir[jarOf[i]]].done = dir[Dir[jarOf[i]]].done,
         spoilt \subseteq spoilt', Erasing(i) => Erasing(i)'
  PROVE  MarkInv(i)'
BY DEF MarkInv, Grows

\* The steps of a call that leave the disk alone, and erase nothing.
LEMMA SourceCall ==
  ASSUME TypeInv, SourceInv, UNCHANGED <<jarOf, dir, text, spoilt>>, mods' \subseteq mods,
         NEW c \in Call, call[c].at # "erase", \A d \in Call : d # c => call'[d] = call[d],
         \A i \in source' : i \in source \/ (i \in mods /\ MarkInv(i)),
         call'[c].at \in {"mark", "note"} => call'[c].id \in mods /\ MarkInv(call'[c].id)
  PROVE  SourceInv'
<1>1. \A d \in Place : DirInv(d)'
  BY DirStill DEF SourceInv
<1>2. \A i : Erasing(i) => Erasing(i)'
  BY DEF Erasing, At
<1>3. \A i \in mods : MarkInv(i) => MarkInv(i)'
  BY <1>2 DEF MarkInv
<1>4. \A i \in source' : MarkInv(i)'
  BY <1>3 DEF SourceInv, TypeInv, TableOK
<1>5. ASSUME NEW d \in Call PROVE Marking(d)'
  <2>1. CASE d # c
    <3> SUFFICES ASSUME call[d].at \in {"mark", "note"}, call[d].id \in mods' PROVE MarkInv(call[d].id)'
      BY <2>1 DEF Marking
    <3>1. PICK i : i = call[d].id
      OBVIOUS
    <3>2. MarkInv(i) /\ i \in mods
      BY <3>1 DEF SourceInv, Marking
    <3> QED BY <3>1, <3>2, <1>3, <2>1
  <2>2. CASE d = c
    <3> SUFFICES ASSUME call'[c].at \in {"mark", "note"} PROVE MarkInv(call[c].id)'
      BY <2>2 DEF Marking
    <3>1. PICK i : i = call'[c].id
      OBVIOUS
    <3>2. MarkInv(i) /\ i \in mods
      BY <3>1
    <3> QED BY <3>1, <3>2, <1>3
  <2> QED BY <2>1, <2>2
<1> QED BY <1>1, <1>4, <1>5 DEF SourceInv

LEMMA StatusDone ==
  ASSUME NEW d, Status(d) = "done"
  PROVE  dir[d].done
BY DEF Status

\* Ingestions, and the calls that look at a directory or queue its mod.
LEMMA SourceIngest ==
  ASSUME TypeInv, SourceInv, NEW c \in Call,
         \/ \E j \in Jar, replace \in BOOLEAN : Ingest(c, j, replace)
         \/ FindDuplicate(c) \/ FindOlder(c) \/ CheckHash(c) \/ Drop(c) \/ Ask(c)
  PROVE  SourceInv'
<1>1. /\ UNCHANGED <<jarOf, dir, text, spoilt>> /\ mods' \subseteq mods /\ source' \subseteq source
      /\ \E at \in {"idle", "dup", "drop", "older", "dropOlder", "hash", "create"} :
           \/ call' = [call EXCEPT ![c].at = at]
           \/ \E i : call' = [call EXCEPT ![c].at = at, ![c].id = i]
           \/ \E r : call' = [call EXCEPT ![c] = r] /\ r.at = at
      /\ call[c].at # "erase"
  <2>1. CASE \E j \in Jar, replace \in BOOLEAN : Ingest(c, j, replace)
    <3> PICK j \in Jar, replace \in BOOLEAN : Ingest(c, j, replace)
      BY <2>1
    <3> DEFINE r == [Idle EXCEPT !.at = "dup", !.jar = j, !.replace = replace]
    <3>1. /\ UNCHANGED <<mods, source, jarOf, dir, text, spoilt>> /\ Starts(c)
          /\ call' = [call EXCEPT ![c] = r]
      BY DEF Ingest, embedVars, Disk
    <3>2. r.at = "dup" /\ call[c].at # "erase"
      BY <3>1, StartsIdle DEF Idle
    <3> HIDE DEF r
    <3>3. \E q : call' = [call EXCEPT ![c] = q] /\ q.at = "dup"
      BY <3>1, <3>2
    <3> QED BY <3>1, <3>2, <3>3
  <2>2. CASE FindDuplicate(c)
    BY <2>2 DEF FindDuplicate, embedVars, Disk, Goes, Ends, Idle, At
  <2>3. CASE FindOlder(c)
    BY <2>3 DEF FindOlder, embedVars, Disk, Goes, At
  <2>4. CASE CheckHash(c)
    BY <2>4 DEF CheckHash, embedVars, Disk, Goes, Ends, Idle, At
  <2>5. CASE Drop(c)
    <3>1. /\ UNCHANGED <<jarOf, dir, text, spoilt>> /\ call[c].at # "erase"
          /\ (RemoveRow(call[c].id) \/ UNCHANGED <<mods, source>>)
          /\ (Goes(c, "older") \/ Goes(c, "hash") \/ Ends(c))
      BY <2>5 DEF Drop, Disk
    <3>2. mods' \subseteq mods /\ source' \subseteq source
      BY <3>1 DEF RemoveRow
    <3> QED BY <3>1, <3>2 DEF Goes, Ends, Idle
  <2>6. CASE Ask(c)
    <3>1. /\ UNCHANGED <<mods, source, jarOf, dir, text, spoilt>> /\ call[c].at = "ask"
          /\ call' = [call EXCEPT ![c] = Idle] /\ Idle.at = "idle"
      BY <2>6 DEF Ask, Disk, Ends, Idle, At
    <3> QED BY <3>1
  <2> QED BY <2>1, <2>2, <2>3, <2>4, <2>5, <2>6
<1>2. call'[c].at \notin {"mark", "note"} /\ \A d \in Call : d # c => call'[d] = call[d]
  <2>1. call \in [Call -> CallType]
    BY DEF TypeInv, CallsOK
  <2>2. PICK at \in {"idle", "dup", "drop", "older", "dropOlder", "hash", "create"} :
           \/ call' = [call EXCEPT ![c].at = at]
           \/ \E i : call' = [call EXCEPT ![c].at = at, ![c].id = i]
           \/ \E r : call' = [call EXCEPT ![c] = r] /\ r.at = at
    BY <1>1
  <2>3. CASE call' = [call EXCEPT ![c].at = at]
    BY <2>1, <2>3 DEF CallType
  <2>4. ASSUME NEW i, call' = [call EXCEPT ![c].at = at, ![c].id = i]
        PROVE  call'[c].at = at /\ \A d \in Call : d # c => call'[d] = call[d]
    BY <2>1, <2>4 DEF CallType
  <2>5. ASSUME NEW r, call' = [call EXCEPT ![c] = r], r.at = at
        PROVE  call'[c].at = at /\ \A d \in Call : d # c => call'[d] = call[d]
    BY <2>1, <2>5
  <2> QED BY <2>2, <2>3, <2>4, <2>5
<1> QED BY <1>1, <1>2, SourceCall

LEMMA SourceDecompile ==
  ASSUME TypeInv, SourceInv, NEW c \in Call, NEW i \in Id, Decompile(c, i) \/ PollStatus(c, i)
  PROVE  SourceInv'
<1>1. /\ UNCHANGED <<mods, source, jarOf, dir, text, spoilt>> /\ call[c].at = "idle" /\ i \in mods
      /\ call'[c].id = i /\ (call'[c].at \in {"mark", "note"} => Status(Dir[jarOf[i]]) = "done")
      /\ \A d \in Call : d # c => call'[d] = call[d]
  BY StartsIdle DEF Decompile, PollStatus, embedVars, Disk, Idle, TypeInv, CallsOK
<1>2. Status(Dir[jarOf[i]]) = "done" => MarkInv(i)
  BY StatusDone DEF MarkInv
<1> QED BY <1>1, <1>2, SourceCall

LEMMA SourceMark ==
  ASSUME TypeInv, SourceInv, NEW c \in Call, Mark(c) \/ Note(c)
  PROVE  SourceInv'
<1> PICK i : i = call[c].id
  OBVIOUS
<1>1. /\ UNCHANGED <<mods, jarOf, dir, text, spoilt>> /\ call[c].at \in {"mark", "note"}
      /\ source' = source \cup ({i} \cap mods) /\ (Ends(c) \/ Goes(c, "ask"))
  BY DEF Mark, Note, Disk, At
<1>2. call'[c].at \notin {"mark", "note"} /\ \A d \in Call : d # c => call'[d] = call[d]
  BY <1>1 DEF Ends, Goes, Idle, TypeInv, CallsOK, CallType
<1>3. \A k \in source' : k \in source \/ (k \in mods /\ MarkInv(k))
  BY <1>1 DEF SourceInv, Marking
<1> QED BY <1>1, <1>2, <1>3, SourceCall

LEMMA SourceStill ==
  ASSUME SourceInv, UNCHANGED <<mods, source, jarOf, call, dir, text, spoilt>>
  PROVE  SourceInv'
<1>1. \A d \in Place : DirInv(d)'
  BY DirStill DEF SourceInv
<1>2. \A i : MarkInv(i) => MarkInv(i)'
  BY DEF MarkInv, Erasing, At
<1>3. \A i \in source' : MarkInv(i)'
  BY <1>2 DEF SourceInv
<1>4. ASSUME NEW c \in Call PROVE Marking(c)'
  <2> PICK i : i = call[c].id
    OBVIOUS
  <2> QED BY <1>2 DEF SourceInv, Marking
<1> QED BY <1>1, <1>3, <1>4 DEF SourceInv

\* What holds of the mods and calls when their directories stay done, or the mods erased.
LEMMA SourceMarks ==
  ASSUME TypeInv, SourceInv, Grows, NEW c \in Call, \A d \in Call : d # c => call'[d] = call[d],
         call'[c].at \notin {"mark", "note"}, source' \subseteq source,
         \A i \in mods \cap mods' : MarkInv(i) => MarkInv(i)',
         source' \subseteq mods', \A i \in mods' : i \in mods \/ i \notin Used
  PROVE  (\A i \in source' : MarkInv(i)') /\ (\A d \in Call : Marking(d)')
<1>1. ASSUME NEW i \in source' PROVE MarkInv(i)'
  BY DEF TypeInv, TableOK, SourceInv
<1>2. ASSUME NEW d \in Call PROVE Marking(d)'
  <2> PICK i : i = call[d].id
    OBVIOUS
  <2>1. CASE d = c
    BY <2>1 DEF Marking
  <2>2. CASE d # c
    <3> SUFFICES ASSUME call[d].at \in {"mark", "note"}, i \in mods' PROVE MarkInv(i)'
      BY <2>2 DEF Marking
    <3>1. i \in Used
      BY DEF TypeInv, CallsOK, CallOK
    <3>2. i \in mods /\ MarkInv(i)
      BY <3>1 DEF SourceInv, Marking
    <3> QED BY <3>2
  <2> QED BY <2>1, <2>2
<1> QED BY <1>1, <1>2

\* A new mod shares its directory with mods of its content only, or spoils it.
LEMMA SourceCreate ==
  ASSUME TypeInv, SourceInv, NEW c \in Call, Create(c)
  PROVE  SourceInv'
<1> PICK j : j = call[c].jar
  OBVIOUS
<1>1. /\ UNCHANGED <<source, dir, text>> /\ Ends(c) /\ call[c].at = "create" /\ j \in Jar
  BY DEF Create, At, TypeInv, CallsOK, CallOK
<1>2. CASE \E i \in mods : jarOf[i] = j \/ Key[jarOf[i]] = Key[j]
  <2>1. UNCHANGED <<mods, jarOf, spoilt>>
    BY <1>2 DEF Create
  <2>2. call'[c].at = "idle" /\ \A d \in Call : d # c => call'[d] = call[d]
    BY <1>1 DEF Ends, Idle, TypeInv, CallsOK
  <2> QED BY <2>1, <2>2, <1>1, SourceCall
<1>3. CASE ~ \E i \in mods : jarOf[i] = j \/ Key[jarOf[i]] = Key[j]
  <2>1. /\ mods' = mods \cup {NextId} /\ jarOf' = [jarOf EXCEPT ![NextId] = j]
        /\ spoilt' = IF \E k \in Used : Dir[jarOf[k]] = Dir[j] /\ Content[jarOf[k]] # Content[j]
                     THEN spoilt \cup {Dir[j]} ELSE spoilt
    BY <1>3 DEF Create, NextId, Used
  <2>2. NextId \in New /\ NextId \in Id
    BY RoomLeft, NextIdIn, <1>1 DEF New
  <2>3. Grows /\ Used' = Used \cup {NextId} /\ NextId \notin Used /\ jarOf'[NextId] = j
    BY <2>1, <2>2, <1>1, Constants DEF TypeInv, TableOK, Grows, Used, New
  <2>4. \A d \in Place : Held(d) \subseteq Held(d)' /\ Held(d)' \subseteq Held(d) \cup {j}
                         /\ (d # Dir[j] => Held(d)' = Held(d))
    BY <2>3 DEF Held, Grows
  <2>5. ASSUME NEW d \in Place PROVE DirInv(d)'
    <3>1. DirInv(d) /\ Alive(d)' = Alive(d) /\ dir'[d] = dir[d] /\ text'[d] = text[d]
      BY <1>1 DEF SourceInv, Alive
    <3>2. \A n \in Alive(d) : dir[d].writes[n] \in Held(d)'
      BY <3>1, <2>4 DEF DirInv
    <3>3. \A x \in Text : text[d][x] # "none" => \E k \in Held(d)' : Content[k] = x
      BY <3>1, <2>4 DEF DirInv
    <3>4. ASSUME d \notin spoilt' PROVE \A k, l \in Held(d)' : Content[k] = Content[l]
      <4>1. \A k, l \in Held(d) : Content[k] = Content[l]
        BY <3>1, <3>4, <2>1 DEF DirInv
      <4>2. d = Dir[j] => \A k \in Held(d) : Content[k] = Content[j]
        BY <3>4, <2>1 DEF Held
      <4> QED BY <4>1, <4>2, <2>4
    <3>5. ASSUME d \notin spoilt', dir[d].done PROVE \E k \in Held(d)' : text[d] = Own(k)
      BY <3>1, <3>5, <2>1, <2>4 DEF DirInv
    <3>6. ASSUME d \notin spoilt', NEW n \in Alive(d)
          PROVE  /\ Alive(d) = {n} /\ ~dir[d].done
                 /\ text[d][Content[dir[d].writes[n]]] = "part"
      BY <3>1, <3>6, <2>1 DEF DirInv
    <3> QED BY ONLY <3>1, <3>2, <3>3, <3>4, <3>5, <3>6 DEF DirInv
  <2>6. \A i : Erasing(i) => Erasing(i)'
    BY <1>1 DEF Erasing, At, Ends, TypeInv, CallsOK
  <2>7. ASSUME NEW i \in mods, MarkInv(i) PROVE MarkInv(i)'
    <3>1. i \in Used
      BY InTable DEF TypeInv
    <3> QED BY <3>1, <2>1, <2>3, <2>6, <2>7, <1>1 DEF MarkInv, Grows
  <2>8. call'[c].at = "idle" /\ \A d \in Call : d # c => call'[d] = call[d]
    BY <1>1 DEF Ends, Idle, TypeInv, CallsOK
  <2>9. source' \subseteq mods' /\ \A i \in mods' : i \in mods \/ i \notin Used
    BY <2>1, <2>3, <1>1 DEF TypeInv, TableOK
  <2> QED BY <2>3, <2>5, <2>7, <2>8, <2>9, <1>1, SourceMarks DEF SourceInv
<1> QED BY <1>2, <1>3

\* A run that starts is alone in a directory that was not done, or spoils it.
LEMMA SourceSpawn ==
  ASSUME TypeInv, SourceInv, NEW c \in Call, Spawn(c)
  PROVE  SourceInv'
<1> PICK j, d0, n : /\ j = call[c].jar /\ d0 = Dir[j]
                    /\ n = Cardinality({k \in Run : dir[d0].proc[k] # "none"}) + 1
  OBVIOUS
<1>1. /\ UNCHANGED <<mods, source, jarOf>> /\ Ends(c) /\ call[c].at = "spawn" /\ j \in Jar
      /\ call[c].id \in Used /\ jarOf[call[c].id] = j
  BY DEF Spawn, embedVars, At, TypeInv, CallsOK, CallOK
<1>2. d0 \in Place /\ j \in Held(d0) /\ Content[j] \in Text
  BY <1>1, Jars DEF Held
<1>3. dir \in [Place -> DirType] /\ dir[d0] \in DirType /\ text \in [Place -> [Text -> {"none", "part", "whole"}]]
  BY <1>2 DEF TypeInv, DiskOK
<1>4. /\ dir' = [dir EXCEPT ![d0] = [@ EXCEPT !.done = FALSE, !.error = FALSE, !.running = n,
                                              !.proc[n] = "child", !.writes[n] = j]]
      /\ text' = [text EXCEPT ![d0] = [y \in Text |-> IF y = Content[j] \/ @[y] # "none" THEN "part" ELSE "none"]]
      /\ spoilt' = IF Alive(d0) # {} \/ dir[d0].done THEN spoilt \cup {d0} ELSE spoilt
  BY DEF Spawn
<1>5. \A d \in Place : Held(d)' = Held(d)
  BY <1>1, SameJars DEF Held
<1>6. ASSUME NEW d \in Place, d # d0 PROVE DirInv(d)'
  BY <1>1, <1>3, <1>4, <1>6, DirStill DEF SourceInv
<1>7. DirInv(d0)'
  <2>1. /\ dir'[d0].done = FALSE
        /\ \A k \in Run : /\ dir'[d0].proc[k] = IF k = n THEN "child" ELSE dir[d0].proc[k]
                          /\ dir'[d0].writes[k] = IF k = n THEN j ELSE dir[d0].writes[k]
    BY <1>2, <1>3, <1>4 DEF DirType
  <2>2. \A y \in Text : text'[d0][y] = IF y = Content[j] \/ text[d0][y] # "none" THEN "part" ELSE "none"
    BY <1>2, <1>3, <1>4
  <2>3. Alive(d0)' \subseteq Alive(d0) \cup {n} /\ DirInv(d0)
    BY <2>1, <1>2 DEF Alive, SourceInv
  <2>4. \A k \in Alive(d0)' : dir'[d0].writes[k] \in Held(d0)
    BY <2>1, <2>3, <1>2 DEF DirInv, Alive
  <2>5. \A x \in Text : text'[d0][x] # "none" => \E k \in Held(d0) : Content[k] = x
    BY <2>2, <2>3, <1>2 DEF DirInv
  <2>6. d0 \notin spoilt' => d0 \notin spoilt /\ Alive(d0) = {}
    BY <1>4
  <2>7. ASSUME d0 \notin spoilt', NEW k \in Alive(d0)'
        PROVE  /\ Alive(d0)' = {k} /\ ~dir'[d0].done
               /\ text'[d0][Content[dir'[d0].writes[k]]] = "part"
    <3>1. k = n /\ k \in Run
      BY <2>3, <2>6, <2>7 DEF Alive
    <3>2. Alive(d0)' = {k}
      BY <2>3, <2>6, <2>7, <3>1
    <3> QED BY <3>1, <3>2, <2>1, <2>2, <1>2
  <2>8. d0 \notin spoilt' => \A k, l \in Held(d0) : Content[k] = Content[l]
    BY <2>3, <2>6 DEF DirInv
  <2> QED BY ONLY <2>1, <2>4, <2>5, <2>7, <2>8, <1>2, <1>5 DEF DirInv
<1>8. call'[c].at = "idle" /\ \A d \in Call : d # c => call'[d] = call[d]
  BY <1>1 DEF Ends, Idle, TypeInv, CallsOK
<1>9. ASSUME NEW i \in mods, MarkInv(i) PROVE MarkInv(i)'
  <2>1. Erasing(i) => Erasing(i)'
    BY <1>1, <1>8 DEF Erasing, At
  <2>2. CASE Dir[jarOf[i]] = d0 /\ d0 \notin spoilt'
    <3>1. d0 \notin spoilt /\ ~dir[d0].done
      BY <2>2, <1>4
    <3> QED BY <3>1, <2>1, <2>2, <1>1, <1>9 DEF MarkInv
  <2>3. CASE Dir[jarOf[i]] # d0
    <3>1. Dir[jarOf[i]] \in Place
      BY InTable, HeldIs DEF TypeInv
    <3> QED BY <3>1, <2>1, <2>3, <1>1, <1>3, <1>4, <1>9 DEF MarkInv
  <2> QED BY <2>2, <2>3, <1>1 DEF MarkInv
<1>10. source' \subseteq mods' /\ \A i \in mods' : i \in mods \/ i \notin Used
  BY <1>1 DEF TypeInv, TableOK
<1> QED BY <1>1, <1>6, <1>7, <1>8, <1>9, <1>10, SameJars, SourceMarks DEF SourceInv

\* A run that ends well has written all of the source, if it was alone.
LEMMA SourceRunEnds ==
  ASSUME TypeInv, SourceInv, NEW d0 \in Place, NEW n \in Run, NEW good \in BOOLEAN, RunEnds(d0, n, good)
  PROVE  SourceInv'
<1>1. /\ UNCHANGED <<mods, source, jarOf, call, spoilt>> /\ n \in Alive(d0)
  BY DEF RunEnds, embedVars
<1> PICK j, x : j = dir[d0].writes[n] /\ x = Content[j]
  OBVIOUS
<1>2. dir \in [Place -> DirType] /\ dir[d0] \in DirType /\ text \in [Place -> [Text -> {"none", "part", "whole"}]]
  BY DEF TypeInv, DiskOK
<1>3. DirInv(d0) /\ j \in Held(d0) /\ x \in Text
  BY <1>1, Jars DEF SourceInv, DirInv, Held
<1>4. /\ dir' = [dir EXCEPT ![d0] =
             IF dir[d0].proc[n] = "orphan" THEN [dir[d0] EXCEPT !.proc[n] = "dead"]
             ELSE [dir[d0] EXCEPT !.proc[n] = "dead", !.running = 0,
                                  !.done = dir[d0].done \/ good, !.error = dir[d0].error \/ ~good]]
      /\ text' = [text EXCEPT ![d0][x] = IF good THEN IF @ = "part" THEN "whole" ELSE "part" ELSE @]
  BY DEF RunEnds
<1>5. \A d \in Place : Held(d)' = Held(d)
  BY <1>1, SameJars DEF Held
<1>6. ASSUME NEW d \in Place, d # d0 PROVE DirInv(d)'
  BY <1>1, <1>2, <1>4, <1>6, DirStill DEF SourceInv
<1>7. /\ dir[d0].done => dir'[d0].done
      /\ dir'[d0].done => dir[d0].done \/ good
      /\ \A k \in Run : /\ dir'[d0].proc[k] = IF k = n THEN "dead" ELSE dir[d0].proc[k]
                        /\ dir'[d0].writes[k] = dir[d0].writes[k]
  <2> DEFINE e == IF dir[d0].proc[n] = "orphan" THEN [dir[d0] EXCEPT !.proc[n] = "dead"]
                  ELSE [dir[d0] EXCEPT !.proc[n] = "dead", !.running = 0,
                                       !.done = dir[d0].done \/ good, !.error = dir[d0].error \/ ~good]
  <2>1. dir'[d0] = e
    BY <1>2, <1>4
  <2>2. /\ dir[d0].done => e.done
        /\ e.done => dir[d0].done \/ good
        /\ \A k \in Run : /\ e.proc[k] = IF k = n THEN "dead" ELSE dir[d0].proc[k]
                          /\ e.writes[k] = dir[d0].writes[k]
    BY <1>2 DEF DirType
  <2> HIDE DEF e
  <2> QED BY <2>1, <2>2
<1>8. \A y \in Text : text'[d0][y] = IF y = x /\ good THEN IF text[d0][y] = "part" THEN "whole" ELSE "part"
                                     ELSE text[d0][y]
  BY <1>2, <1>3, <1>4
<1>9. DirInv(d0)'
  <2>1. Alive(d0)' = Alive(d0) \ {n}
    BY <1>7 DEF Alive
  <2>2. \A k \in Alive(d0)' : dir'[d0].writes[k] \in Held(d0)
    BY <2>1, <1>3, <1>7 DEF DirInv, Alive
  <2>3. \A y \in Text : text'[d0][y] # "none" => \E k \in Held(d0) : Content[k] = y
    BY <1>3, <1>8 DEF DirInv
  <2>4. d0 \notin spoilt => /\ \A k, l \in Held(d0) : Content[k] = Content[l]
                            /\ Alive(d0) = {n} /\ ~dir[d0].done /\ text[d0][x] = "part"
    BY <1>1, <1>3 DEF DirInv
  <2>5. ASSUME d0 \notin spoilt, dir'[d0].done PROVE text'[d0] = Own(j)
    <3>1. good
      BY <2>4, <2>5, <1>7
    <3>2. ASSUME NEW y \in Text PROVE text'[d0][y] = IF y = x THEN "whole" ELSE "none"
      <4>1. y # x => text[d0][y] = "none"
        BY <2>4, <2>5, <1>3 DEF DirInv
      <4> QED BY <3>1, <4>1, <2>4, <2>5, <1>8
    <3>3. text'[d0] = [y \in Text |-> text'[d0][y]]
      BY <1>2, <1>3, <1>4
    <3> QED BY <3>2, <3>3 DEF Own
  <2>6. d0 \notin spoilt => Alive(d0)' = {}
    BY <2>1, <2>4
  <2> QED BY ONLY <2>2, <2>3, <2>4, <2>5, <2>6, <1>1, <1>3, <1>5 DEF DirInv
<1>10. ASSUME NEW i \in mods, MarkInv(i) PROVE MarkInv(i)'
  <2>1. Erasing(i) => Erasing(i)'
    BY <1>1 DEF Erasing, At
  <2>2. Dir[jarOf[i]] \in Place
    BY InTable, HeldIs DEF TypeInv
  <2>3. dir[Dir[jarOf[i]]].done => dir'[Dir[jarOf[i]]].done
    BY <2>2, <1>2, <1>4, <1>7
  <2> QED BY <2>1, <2>3, <1>1, <1>10 DEF MarkInv
<1>11. \A i \in source' : MarkInv(i)'
  BY <1>1, <1>10 DEF SourceInv, TypeInv, TableOK
<1>12. ASSUME NEW c \in Call PROVE Marking(c)'
  <2> PICK i : i = call[c].id
    OBVIOUS
  <2> QED BY <1>1, <1>10 DEF SourceInv, Marking
<1>13. \A d \in Place : DirInv(d)'
  BY <1>6, <1>9
<1> QED BY <1>11, <1>12, <1>13 DEF SourceInv

\* A directory that goes takes the source of the one mod it is of, which is being erased.
LEMMA SourceDelete ==
  ASSUME TypeInv, SourceInv, NEW c \in Call, NEW i0 \in Id, Delete(c, i0)
  PROVE  SourceInv'
<1> PICK d0 : d0 = Dir[jarOf[i0]]
  OBVIOUS
<1>1. /\ UNCHANGED <<mods, source, jarOf>> /\ Starts(c) /\ i0 \in mods
      /\ call' = [call EXCEPT ![c] = [Idle EXCEPT !.at = "erase", !.id = i0, !.jar = jarOf[i0]]]
  BY DEF Delete, embedVars
<1>2. /\ call[c].at = "idle" /\ call'[c].at = "erase" /\ call'[c].id = i0
      /\ \A d \in Call : d # c => call'[d] = call[d]
  BY <1>1, StartsIdle DEF Idle, TypeInv, CallsOK
<1>3. i0 \in Used /\ jarOf[i0] \in Held(d0) /\ d0 \in Place
  BY <1>1, InTable, HeldIs DEF TypeInv
<1>4. dir \in [Place -> DirType] /\ dir[d0] \in DirType /\ text \in [Place -> [Text -> {"none", "part", "whole"}]]
  BY <1>3 DEF TypeInv, DiskOK
<1>5. \A i : Erasing(i) => Erasing(i)'
  BY <1>2 DEF Erasing, At
<1>6. Erasing(i0)'
  BY <1>2 DEF Erasing, At
<1>7. \A d \in Place : Held(d)' = Held(d)
  BY <1>1, SameJars DEF Held
<1>8. source' \subseteq mods' /\ \A i \in mods' : i \in mods \/ i \notin Used
  BY <1>1 DEF TypeInv, TableOK
<1>9. CASE i0 \notin source
  <2>1. UNCHANGED <<dir, text, spoilt>>
    BY <1>9 DEF Delete
  <2>2. \A d \in Place : DirInv(d)'
    BY <2>1, <1>1, DirStill DEF SourceInv
  <2>3. \A i \in mods : MarkInv(i) => MarkInv(i)'
    BY <2>1, <1>1, <1>5 DEF MarkInv
  <2> QED BY <2>2, <2>3, <1>1, <1>2, <1>8, SameJars, SourceMarks DEF SourceInv
<1>10. CASE i0 \in source
  <2>1. /\ dir' = [dir EXCEPT ![d0] = [@ EXCEPT !.done = FALSE, !.error = FALSE, !.running = 0]]
        /\ text' = [text EXCEPT ![d0] = [x \in Text |-> "none"]]
        /\ spoilt' = IF Alive(d0) # {} THEN spoilt \cup {d0} ELSE spoilt
    BY <1>10, Zenon DEF Delete
  <2>2. /\ ~dir'[d0].done /\ dir'[d0].proc = dir[d0].proc /\ dir'[d0].writes = dir[d0].writes
        /\ \A x \in Text : text'[d0][x] = "none"
    BY <2>1, <1>3, <1>4 DEF DirType
  <2>3. ASSUME NEW d \in Place, d # d0 PROVE DirInv(d)'
    BY <2>1, <2>3, <1>1, <1>4, DirStill DEF SourceInv
  <2>4. DirInv(d0)'
    <3>1. Alive(d0)' = Alive(d0) /\ DirInv(d0)
      BY <2>2, <1>3 DEF Alive, SourceInv
    <3>2. \A n \in Alive(d0)' : dir'[d0].writes[n] \in Held(d0)
      BY <3>1, <2>2 DEF DirInv
    <3>3. d0 \notin spoilt' => Alive(d0)' = {} /\ \A k, l \in Held(d0) : Content[k] = Content[l]
      BY <3>1, <2>1 DEF DirInv
    <3> QED BY ONLY <3>2, <3>3, <2>2, <1>3, <1>7 DEF DirInv
  <2>5. ASSUME NEW i \in mods, MarkInv(i) PROVE MarkInv(i)'
    <3>1. i \in Used /\ jarOf[i] \in Jar /\ jarOf[i0] \in Jar /\ Dir[jarOf[i]] \in Place
          /\ jarOf[i] \in Held(Dir[jarOf[i]])
      BY <1>1, InTable, HeldIs DEF TypeInv
    <3>2. CASE Dir[jarOf[i]] = d0 /\ d0 \notin spoilt'
      <4>1. Content[jarOf[i]] = Content[jarOf[i0]]
        BY <3>1, <3>2, <2>1, <1>3 DEF SourceInv, DirInv
      <4>2. Key[jarOf[i]] = Key[jarOf[i0]]
        BY <4>1, <3>1, <3>2, JarAssumption
      <4>3. i = i0
        BY <4>2, <1>1 DEF TypeInv, TableOK
      <4> QED BY <4>3, <1>6 DEF MarkInv
    <3>3. CASE Dir[jarOf[i]] # d0
      BY <3>1, <3>3, <2>1, <2>5, <1>1, <1>4, <1>5 DEF MarkInv
    <3> QED BY <3>2, <3>3, <1>1 DEF MarkInv
  <2> QED BY <2>3, <2>4, <2>5, <1>1, <1>2, <1>8, SameJars, SourceMarks DEF SourceInv
<1> QED BY <1>9, <1>10

LEMMA SourceErase ==
  ASSUME TypeInv, SourceInv, NEW c \in Call, Erase(c)
  PROVE  SourceInv'
<1> PICK i0 : i0 = call[c].id
  OBVIOUS
<1>1. /\ UNCHANGED <<jarOf, dir, text, spoilt>> /\ Ends(c)
      /\ \/ mods' = mods \ {i0} /\ source' = source \ {i0}
         \/ i0 \notin mods /\ UNCHANGED <<mods, source>>
  BY DEF Erase, RemoveRow, Disk
<1>2. call'[c].at = "idle" /\ \A d \in Call : d # c => call'[d] = call[d]
  BY <1>1 DEF Ends, Idle, TypeInv, CallsOK
<1>3. ASSUME NEW i \in mods \cap mods', MarkInv(i) PROVE MarkInv(i)'
  <2>1. i # i0
    BY <1>1
  <2>2. Erasing(i) => Erasing(i)'
    BY <2>1, <1>2 DEF Erasing, At
  <2> QED BY <2>2, <1>1, <1>3 DEF MarkInv
<1>4. source' \subseteq source /\ source' \subseteq mods' /\ \A i \in mods' : i \in mods \/ i \notin Used
  BY <1>1 DEF TypeInv, TableOK
<1>5. \A d \in Place : DirInv(d)'
  BY <1>1, DirStill DEF SourceInv
<1> QED BY <1>1, <1>2, <1>3, <1>4, <1>5, SameJars, SourceMarks DEF SourceInv

LEMMA SourceRestart ==
  ASSUME TypeInv, SourceInv, Restart
  PROVE  SourceInv'
<1>1. /\ UNCHANGED <<mods, source, jarOf, text>> /\ call' = [c \in Call |-> Idle]
      /\ dir' = [d \in Place |-> [dir[d] EXCEPT !.proc =
                   [n \in Run |-> IF @[n] = "child" THEN "orphan" ELSE @[n]]]]
      /\ spoilt' = spoilt \cup {Dir[call[c].jar] : c \in {b \in Call : At(b, "erase")}}
  BY DEF Restart
<1>2. \A c \in Call : At(c, "erase") => Dir[call[c].jar] \in spoilt'
  BY <1>1
<1>3. spoilt \subseteq spoilt'
  BY <1>1
<1>4. ASSUME NEW d \in Place
      PROVE  /\ dir'[d].done = dir[d].done /\ dir'[d].writes = dir[d].writes
             /\ Alive(d)' = Alive(d)
  <2> DEFINE e == [dir[d] EXCEPT !.proc = [n \in Run |-> IF @[n] = "child" THEN "orphan" ELSE @[n]]]
  <2>1. dir'[d] = e /\ dir[d] \in DirType
    BY <1>1 DEF TypeInv, DiskOK
  <2>2. /\ e.done = dir[d].done /\ e.writes = dir[d].writes
        /\ \A n \in Run : e.proc[n] \in {"child", "orphan"} <=> dir[d].proc[n] \in {"child", "orphan"}
    BY <2>1 DEF DirType
  <2> HIDE DEF e
  <2> QED BY <2>1, <2>2 DEF Alive
<1>5. \A d \in Place : Held(d)' = Held(d)
  BY <1>1, SameJars DEF Held
<1>6. ASSUME NEW d \in Place PROVE DirInv(d)'
  <2>1. DirInv(d) /\ text'[d] = text[d] /\ Held(d)' = Held(d) /\ (d \in spoilt => d \in spoilt')
    BY <1>1, <1>3, <1>5 DEF SourceInv
  <2> QED BY ONLY <2>1, <1>4 DEF DirInv
<1>7. ASSUME NEW i \in source' PROVE MarkInv(i)'
  <2>1. i \in mods /\ MarkInv(i)
    BY <1>1 DEF TypeInv, TableOK, SourceInv
  <2>2. Dir[jarOf[i]] \in Place
    BY <2>1, InTable, HeldIs DEF TypeInv
  <2>3. CASE Erasing(i)
    <3>1. PICK c \in Call : At(c, "erase") /\ call[c].id = i
      BY <2>3 DEF Erasing
    <3>2. call[c].jar = jarOf[i]
      BY <3>1 DEF TypeInv, CallsOK, CallOK, At
    <3> QED BY <3>1, <3>2, <1>1, <1>2 DEF MarkInv
  <2>4. CASE ~Erasing(i)
    BY <2>1, <2>2, <2>4, <1>1, <1>3, <1>4 DEF MarkInv
  <2> QED BY <2>3, <2>4
<1>8. \A c \in Call : Marking(c)'
  BY <1>1 DEF Marking, Idle
<1> QED BY <1>6, <1>7, <1>8 DEF SourceInv

LEMMA NextSource == TypeInv /\ SourceInv /\ [Next]_vars => SourceInv'
<1> SUFFICES ASSUME TypeInv, SourceInv, [Next]_vars PROVE SourceInv'
  OBVIOUS
<1>1. ASSUME NEW c \in Call, NEW j \in Jar, NEW replace \in BOOLEAN, Ingest(c, j, replace) PROVE SourceInv'
  BY <1>1, SourceIngest
<1>2. ASSUME NEW c \in Call, IngestStep(c) PROVE SourceInv'
  BY <1>2, SourceIngest, SourceCreate DEF IngestStep
<1>3. ASSUME NEW c \in Call, Spawn(c) \/ Mark(c) \/ Note(c) \/ Ask(c) \/ Erase(c) PROVE SourceInv'
  BY <1>3, SourceSpawn, SourceMark, SourceIngest, SourceErase
<1>4. ASSUME NEW c \in Call, NEW i \in Id, Decompile(c, i) \/ PollStatus(c, i) \/ Delete(c, i)
      PROVE  SourceInv'
  BY <1>4, SourceDecompile, SourceDelete
<1>5. ASSUME NEW d \in Place, NEW n \in Run, Succeeds(d, n) \/ Crashes(d, n) PROVE SourceInv'
  BY <1>5, SourceRunEnds DEF Succeeds, Crashes
<1>6. ASSUME Restart PROVE SourceInv'
  BY <1>6, SourceRestart
<1>7. ASSUME QueueNext PROVE SourceInv'
  BY <1>7, QueueSteps, SourceStill DEF Aside
<1>8. CASE UNCHANGED vars
  BY <1>8, SourceStill DEF vars, embedVars
<1> QED BY <1>1, <1>2, <1>3, <1>4, <1>5, <1>6, <1>7, <1>8 DEF Next

LEMMA AlwaysOwn == Spec => []SourceInv
BY AlwaysTyped, InitSource, NextSource, PTL DEF Spec

\* A mod that is marked as decompiled has all of its own source and no other's, wherever
\* no two runs, or a run and a delete, were at work in its directory at once.
THEOREM OwnSource == Spec => []SourceIsOwn
BY AlwaysTyped, AlwaysOwn, OwnIs, PTL
-----------------------------------------------------------------------------
(* No mod that was queued is forgotten.                                     *)

\* What excuses a mod that is not embedded: its directory was worked on by two, or goes.
Excused(i) == Dir[jarOf[i]] \in spoilt \/ Erasing(i)
Remembered(i) == files[i] = "embedded" \/ Queued(i) \/ InWork(i) \/ Excused(i)

\* A mod that was queued has a jar; the worker finds no file to embed only of a mod that
\* is excused.
ForgetInv ==
  /\ wanted \subseteq Used
  /\ worker.at = "embed" /\ worker.of \in mods /\ files[worker.of] = "none" => Excused(worker.of)
  /\ \A i \in (wanted \cap mods) \ abandoned : Remembered(i)

LEMMA ForgottenIs == ForgetInv => NothingForgotten
BY DEF ForgetInv, Remembered, Excused, Erasing, NothingForgotten

LEMMA InitForget == Init => ForgetInv
BY DEF Init, EmbedInit, Off, ForgetInv

\* An excuse lasts as long as the mod is in the table.
LEMMA ExcuseStays ==
  ASSUME NEW i \in Used, Grows, spoilt \subseteq spoilt', Erasing(i) => Erasing(i)'
  PROVE  Excused(i) => Excused(i)'
BY DEF Excused, Grows

LEMMA ErasingStays ==
  ASSUME NEW c \in Call, \A d \in Call : d # c => call'[d] = call[d], NEW i,
         call[c].at # "erase" \/ call[c].id # i
  PROVE  Erasing(i) => Erasing(i)'
BY DEF Erasing, At

\* Steps that leave the queue alone, and the mods they leave in the table.
LEMMA ForgetAside ==
  ASSUME TypeInv, ForgetInv, Grows, UNCHANGED <<pending, worker, wanted, abandoned>>,
         spoilt \subseteq spoilt',
         \A i \in mods' \cap Used : /\ i \in mods /\ files'[i] = files[i]
                                    /\ Erasing(i) => Erasing(i)'
  PROVE  ForgetInv'
<1>1. \A i \in mods' \cap Used : Excused(i) => Excused(i)'
  BY ExcuseStays
<1>2. wanted' \subseteq Used'
  BY DEF ForgetInv, Grows
<1>3. ASSUME worker'.at = "embed", worker'.of \in mods', files'[worker'.of] = "none"
      PROVE  Excused(worker.of)'
  <2>1. worker.of \in Used
    BY <1>3 DEF TypeInv, QueueOK, ForgetInv
  <2> PICK i : i = worker.of
    OBVIOUS
  <2>2. Excused(i)
    BY <2>1, <1>3 DEF ForgetInv
  <2> QED BY <2>1, <2>2, <1>1, <1>3
<1>4. ASSUME NEW i \in (wanted' \cap mods') \ abandoned' PROVE Remembered(i)'
  <2>1. i \in mods' \cap Used /\ Remembered(i)
    BY DEF ForgetInv
  <2> QED BY <2>1, <1>1 DEF Remembered, Queued, InWork
<1> QED BY <1>2, <1>3, <1>4 DEF ForgetInv

\* The calls of clients up to the erase, but for the one that queues.
LEMMA ForgetCall ==
  ASSUME TypeInv, ForgetInv, NEW c \in Call,
         \/ \E j \in Jar, replace \in BOOLEAN : Ingest(c, j, replace)
         \/ FindDuplicate(c) \/ FindOlder(c) \/ CheckHash(c) \/ Drop(c)
         \/ Spawn(c) \/ Mark(c) \/ Note(c)
         \/ \E i \in Id : Decompile(c, i) \/ PollStatus(c, i) \/ Delete(c, i)
  PROVE  ForgetInv'
<1>1. /\ UNCHANGED <<pending, worker, wanted, abandoned, jarOf>> /\ spoilt \subseteq spoilt'
      /\ RemoveRow(call[c].id) \/ UNCHANGED <<mods, files>>
      /\ call[c].at # "erase"
  <2>1. CASE \E j \in Jar, replace \in BOOLEAN : Ingest(c, j, replace)
    BY <2>1, StartsIdle DEF Ingest, embedVars, queueVars, Disk
  <2>2. CASE FindDuplicate(c) \/ FindOlder(c) \/ CheckHash(c)
    BY <2>2 DEF FindDuplicate, FindOlder, CheckHash, embedVars, queueVars, Disk, At
  <2>3. CASE Drop(c)
    BY <2>3 DEF Drop, queueVars, Disk
  <2>4. CASE Spawn(c)
    <3>1. UNCHANGED <<embedVars, jarOf>> /\ At(c, "spawn") /\ spoilt \subseteq spoilt'
      BY <2>4 DEF Spawn
    <3> QED BY <3>1 DEF embedVars, queueVars, At
  <2>5. CASE Mark(c) \/ Note(c)
    BY <2>5 DEF Mark, Note, queueVars, Disk, At
  <2>6. ASSUME NEW i \in Id, Decompile(c, i) \/ PollStatus(c, i)
        PROVE  UNCHANGED <<embedVars, jarOf, spoilt>> /\ call[c].at # "erase"
    BY <2>6, StartsIdle DEF Decompile, PollStatus, Disk
  <2>7. ASSUME NEW i \in Id, Delete(c, i)
        PROVE  UNCHANGED <<embedVars, jarOf>> /\ spoilt \subseteq spoilt' /\ call[c].at # "erase"
    BY <2>7, StartsIdle DEF Delete
  <2> QED BY <2>1, <2>2, <2>3, <2>4, <2>5, <2>6, <2>7 DEF embedVars, queueVars
<1>2. \A d \in Call : d # c => call'[d] = call[d]
  BY DEF Ingest, FindDuplicate, FindOlder, CheckHash, Drop, Spawn, Mark, Note, Decompile, PollStatus,
         Delete, Goes, Ends, TypeInv, CallsOK
<1>3. \A i : Erasing(i) => Erasing(i)'
  BY <1>1, <1>2, ErasingStays
<1>4. \A i \in mods' : i \in mods /\ files'[i] = files[i]
  BY <1>1 DEF RemoveRow, TypeInv, TableOK
<1> QED BY <1>1, <1>3, <1>4, SameJars, ForgetAside

\* A new mod was never queued.
LEMMA ForgetCreate ==
  ASSUME TypeInv, ForgetInv, NEW c \in Call, Create(c)
  PROVE  ForgetInv'
<1>1. /\ UNCHANGED <<files, pending, worker, wanted, abandoned>> /\ Ends(c) /\ call[c].at = "create"
      /\ spoilt \subseteq spoilt'
  BY DEF Create, queueVars, At
<1>2. \A i : Erasing(i) => Erasing(i)'
  BY <1>1, ErasingStays DEF Ends, TypeInv, CallsOK
<1>3. Grows /\ mods' \cap Used \subseteq mods
  <2>1. NextId \in New /\ NextId \in Id
    BY RoomLeft, NextIdIn, <1>1 DEF New
  <2>2. CASE UNCHANGED <<mods, jarOf>>
    BY <2>2, SameJars
  <2>3. CASE mods' = mods \cup {NextId} /\ jarOf' = [jarOf EXCEPT ![NextId] = call[c].jar]
    <3>1. call[c].jar \in Jar
      BY <1>1 DEF TypeInv, CallsOK, CallOK
    <3> QED BY <2>1, <2>3, <3>1, Constants DEF TypeInv, TableOK, Grows, Used, New
  <2> QED BY <2>2, <2>3 DEF Create, NextId
<1> QED BY <1>1, <1>2, <1>3, ForgetAside

LEMMA ForgetErase ==
  ASSUME TypeInv, ForgetInv, NEW c \in Call, Erase(c)
  PROVE  ForgetInv'
<1> PICK i0 : i0 = call[c].id
  OBVIOUS
<1>1. /\ UNCHANGED <<jarOf, spoilt, pending, worker, wanted, abandoned>> /\ Ends(c)
      /\ \/ RemoveRow(i0)
         \/ i0 \notin mods /\ UNCHANGED <<mods, files>>
  BY DEF Erase, Disk, queueVars
<1>2. \A i : i # i0 => (Erasing(i) => Erasing(i)')
  BY <1>1, ErasingStays DEF Ends, TypeInv, CallsOK
<1>3. \A i \in mods' : i \in mods /\ i # i0 /\ files'[i] = files[i]
  BY <1>1 DEF RemoveRow, TypeInv, TableOK
<1> QED BY <1>1, <1>2, <1>3, SameJars, ForgetAside

\* Mods are queued: those that wait stay, and the worker goes on with its own.
LEMMA ForgetDrain ==
  ASSUME TypeInv, ForgetInv, UNCHANGED <<mods, files, jarOf, spoilt>>,
         \A i : Erasing(i) => Erasing(i)', NEW q, Drain(q), Range(pending) \subseteq Range(q),
         NEW S \in SUBSET Used, S \subseteq Range(q), wanted' = wanted \cup S, abandoned' = abandoned \ S
  PROVE  ForgetInv'
<1>1. /\ pending' = q /\ \A i : InWork(i) => InWork(i)'
      /\ worker'.at = "embed" => worker' = worker
  BY LoopIs DEF Drain, InWork
<1>2. \A i : Excused(i) => Excused(i)'
  BY DEF Excused
<1>3. wanted' \subseteq Used'
  BY SameJars DEF ForgetInv
<1>4. ASSUME NEW i \in (wanted' \cap mods') \ abandoned' PROVE Remembered(i)'
  <2>1. CASE i \in S
    BY <2>1, <1>1 DEF Remembered, Queued
  <2>2. CASE i \notin S
    <3>1. Remembered(i)
      BY <2>2 DEF ForgetInv
    <3> QED BY <3>1, <1>1, <1>2 DEF Remembered, Queued
  <2> QED BY <2>1, <2>2
<1>5. ASSUME worker'.at = "embed", worker'.of \in mods', files'[worker'.of] = "none"
      PROVE  Excused(worker.of)' /\ worker' = worker
  <2> PICK i : i = worker.of
    OBVIOUS
  <2>1. worker' = worker
    BY <1>1, <1>5
  <2>2. Excused(i)
    BY <2>1, <1>5 DEF ForgetInv
  <2> QED BY <2>1, <2>2, <1>2
<1> QED BY <1>3, <1>4, <1>5 DEF ForgetInv

LEMMA ForgetAsk ==
  ASSUME TypeInv, ForgetInv, NEW c \in Call, Ask(c)
  PROVE  ForgetInv'
<1>1. /\ UNCHANGED <<mods, files, jarOf, spoilt>> /\ Ends(c) /\ call[c].at = "ask"
      /\ IF ollama THEN Enqueue(call[c].id) ELSE UNCHANGED queueVars
  BY DEF Ask, Disk, At
<1>2. \A i : Erasing(i) => Erasing(i)'
  BY <1>1, ErasingStays DEF Ends, TypeInv, CallsOK
<1>3. CASE ollama
  <2>1. call[c].id \in Id /\ call[c].id \in Used /\ QueueOK
    BY <1>1 DEF TypeInv, CallsOK, CallOK, CallType
  <2>2. /\ Drain(Queue(call[c].id)) /\ wanted' = wanted \cup {call[c].id}
        /\ abandoned' = abandoned \ {call[c].id}
    BY <1>1, <1>3 DEF Enqueue
  <2>3. Range(Queue(call[c].id)) = Range(pending) \cup {call[c].id}
    BY <2>1, QueueIs
  <2>4. {call[c].id} \subseteq Used /\ {call[c].id} \subseteq Range(Queue(call[c].id))
        /\ Range(pending) \subseteq Range(Queue(call[c].id))
    BY <2>1, <2>3
  <2> QED BY ONLY TypeInv, ForgetInv, <2>2, <2>4, <1>1, <1>2, ForgetDrain
<1>4. CASE ~ollama
  BY <1>1, <1>2, <1>4, SameJars, ForgetAside DEF queueVars
<1> QED BY <1>3, <1>4

LEMMA ForgetScan ==
  ASSUME TypeInv, ForgetInv, Aside, StartupScan
  PROVE  ForgetInv'
<1>1. UNCHANGED <<mods, files, jarOf, spoilt, call>> /\ QueueOK /\ TableOK
  BY DEF Aside, StartupScan, TypeInv
<1>2. \A i : Erasing(i) => Erasing(i)'
  BY <1>1 DEF Erasing, At
<1>3. CASE ollama
  <2> DEFINE found == {i \in mods : files[i] = "stored"}
  <2>1. /\ \E order \in SetToSeqs(found \ Range(pending)) : Drain(pending \o order)
        /\ wanted' = wanted \cup found /\ abandoned' = abandoned \ found
    BY <1>3 DEF StartupScan
  <2>2. found \subseteq Id /\ found \subseteq Used
    BY <1>1, InTable DEF TableOK
  <2> HIDE DEF found
  <2>3. PICK order \in SetToSeqs(found \ Range(pending)) : Drain(pending \o order)
    BY <2>1
  <2>4. Range(pending \o order) = Range(pending) \cup (found \ Range(pending))
    BY <2>2, <1>1, AppendAll DEF QueueOK
  <2> QED BY <2>1, <2>2, <2>3, <2>4, <1>1, <1>2, ForgetDrain
<1>4. CASE ~ollama
  <2>1. UNCHANGED <<pending, worker, wanted, abandoned>>
    BY <1>4 DEF StartupScan
  <2> QED BY <2>1, <1>1, <1>2, SameJars, ForgetAside
<1> QED BY <1>3, <1>4

\* The steps of the worker: what it leaves waits, is embedded, excused or given up.
LEMMA ForgetWork ==
  ASSUME TypeInv, ForgetInv, Aside, UNCHANGED wanted, abandoned \subseteq abandoned',
         \A i \in mods : files[i] = "embedded" => files'[i] = "embedded",
         \A i \in wanted \cap mods : Queued(i) => Queued(i)' \/ InWork(i)',
         \A i \in (wanted \cap mods) \ abandoned' :
            InWork(i) => InWork(i)' \/ Queued(i)' \/ files'[i] = "embedded" \/ Excused(i),
         worker'.at = "embed" /\ worker'.of \in mods /\ files'[worker'.of] = "none"
            => Excused(worker'.of)
  PROVE  ForgetInv'
<1>1. \A i : Excused(i) => Excused(i)'
  BY DEF Aside, Excused, Erasing, At
<1>2. mods' = mods /\ Used' = Used
  BY SameJars DEF Aside
<1>3. ASSUME NEW i \in (wanted' \cap mods') \ abandoned' PROVE Remembered(i)'
  <2>1. Remembered(i)
    BY <1>2 DEF ForgetInv
  <2> QED BY <2>1, <1>1, <1>2 DEF Remembered
<1>4. ASSUME worker'.at = "embed", worker'.of \in mods', files'[worker'.of] = "none"
      PROVE  Excused(worker.of)'
  <2> PICK i : i = worker'.of
    OBVIOUS
  <2>1. Excused(i)
    BY <1>2, <1>4
  <2> QED BY <2>1, <1>1, <1>4
<1> QED BY <1>2, <1>3, <1>4 DEF ForgetInv

LEMMA ForgetTake ==
  ASSUME TypeInv, ForgetInv, Aside, Take
  PROVE  ForgetInv'
<1>1. /\ worker.at = "check" /\ worker' = [at |-> "walk", of |-> Head(pending), tries |-> 0]
      /\ pending' = Tail(pending) /\ UNCHANGED <<files, wanted, abandoned>>
  BY DEF Take
<1>2. Range(pending) = Range(pending') \cup {worker'.of}
  BY <1>1, TakeOne DEF TypeInv, QueueOK
<1> QED BY <1>1, <1>2, ForgetWork DEF Queued, InWork

\* A mod that has its source is found, so that the worker stores its files.
LEMMA NotFound ==
  ASSUME TypeInv, SourceInv, NEW i \in source, ~Found(i)
  PROVE  Excused(i)
<1> SUFFICES ASSUME ~Excused(i) PROVE FALSE
  OBVIOUS
<1>1. text[Dir[jarOf[i]]] = [x \in Text |-> IF x = Content[jarOf[i]] THEN "whole" ELSE "none"]
  BY OwnIs DEF SourceIsOwn, Excused, Erasing
<1>2. i \in mods /\ Content[jarOf[i]] \in Text
  BY InTable, Jars DEF TypeInv, TableOK
<1>3. text[Dir[jarOf[i]]][Content[jarOf[i]]] = "whole"
  BY <1>1, <1>2
<1> QED BY <1>2, <1>3 DEF Found

LEMMA ForgetWalk ==
  ASSUME TypeInv, SourceInv, ForgetInv, Aside, Walk(Found(worker.of))
  PROVE  ForgetInv'
<1>1. /\ worker.at = "walk" /\ UNCHANGED <<pending, wanted, abandoned>> /\ QueueOK /\ TableOK
      /\ worker \in Job
  BY DEF Walk, TypeInv, QueueOK
<1>2. CASE ollama /\ worker.of \in source
  <2>1. /\ worker' = [worker EXCEPT !.at = "embed"]
        /\ files' = [files EXCEPT ![worker.of] =
                       IF files[worker.of] = "none" /\ Found(worker.of) THEN "stored" ELSE files[worker.of]]
    BY <1>2 DEF Walk
  <2>2. worker'.at = "embed" /\ worker'.of = worker.of
    BY <2>1, <1>1 DEF Job
  <2>3. files'[worker.of] = "none" => ~Found(worker.of)
    BY <2>1, <1>1 DEF Job, TableOK
  <2>4. files'[worker.of] = "none" => Excused(worker.of)
    BY <2>3, <1>2, NotFound
  <2>5. \A i \in mods : files[i] = "embedded" => files'[i] = "embedded"
    BY <2>1, <1>1 DEF Job, TableOK
  <2>6. \A i : /\ InWork(i) => InWork(i)'
               /\ Queued(i) => Queued(i)'
    BY <2>2, <1>1 DEF InWork, Queued
  <2> QED BY <2>2, <2>4, <2>5, <2>6, <1>1, ForgetWork
<1>3. CASE ~(ollama /\ worker.of \in source)
  <2>1. UNCHANGED files /\ worker'.at = "wait" /\ worker'.of = worker.of
    BY <1>1, <1>3, FailedIs DEF Walk
  <2> QED BY <2>1, <1>1, ForgetWork DEF InWork, Queued
<1> QED BY <1>2, <1>3

LEMMA ForgetEmbed ==
  ASSUME TypeInv, ForgetInv, Aside, Embed
  PROVE  ForgetInv'
<1>1. /\ worker.at = "embed" /\ UNCHANGED <<pending, wanted, abandoned>> /\ QueueOK /\ TableOK
      /\ worker.of \in Id
  BY DEF Embed, TypeInv, QueueOK, Job
<1>2. CASE /\ files' = [files EXCEPT ![worker.of] = IF @ = "stored" THEN "embedded" ELSE @]
           /\ worker' = Loop(pending)
  <2>1. worker'.at # "embed" /\ \A i : Queued(i) => Queued(i)'
    BY <1>1, <1>2, LoopIs DEF Queued
  <2>2. \A i \in Id : files[i] = "embedded" => files'[i] = "embedded"
    BY <1>1, <1>2 DEF TableOK
  <2>3. ASSUME NEW i \in mods, InWork(i) PROVE files'[i] = "embedded" \/ Excused(i)
    <3>1. i = worker.of
      BY <2>3 DEF InWork
    <3>2. CASE files[i] = "none"
      BY <3>1, <3>2, <1>1 DEF ForgetInv
    <3>3. CASE files[i] # "none"
      BY <3>1, <3>3, <1>1, <1>2 DEF TableOK
    <3> QED BY <3>2, <3>3
  <2> QED BY <2>1, <2>2, <2>3, <1>1, ForgetWork DEF TableOK
<1>3. CASE Failed /\ UNCHANGED files
  <2>1. worker'.at = "wait" /\ worker'.of = worker.of
    BY <1>1, <1>3, FailedIs
  <2> QED BY <2>1, <1>1, <1>3, ForgetWork DEF InWork, Queued
<1> QED BY <1>2, <1>3 DEF Embed

LEMMA ForgetRetry ==
  ASSUME TypeInv, ForgetInv, Aside, Retry
  PROVE  ForgetInv'
<1>1. worker.at = "wait" /\ UNCHANGED <<files, wanted>> /\ QueueOK /\ worker \in Job
  BY DEF Retry, TypeInv, QueueOK
<1>2. CASE ~ollama
  <2>1. pending' = Queue(worker.of) /\ worker'.at = "off" /\ UNCHANGED abandoned
    BY <1>2 DEF Retry, Off
  <2>2. Range(pending') = Range(pending) \cup {worker.of}
    BY <2>1, <1>1, QueueIs DEF Job
  <2> QED BY <2>1, <2>2, <1>1, ForgetWork DEF InWork, Queued
<1>3. CASE ollama /\ worker.tries < MaxRetries
  <2>1. pending' = pending /\ worker' = [worker EXCEPT !.at = "walk"] /\ UNCHANGED abandoned
    BY <1>3 DEF Retry
  <2>2. worker'.at = "walk" /\ worker'.of = worker.of
    BY <2>1, <1>1 DEF Job
  <2> QED BY <2>1, <2>2, <1>1, ForgetWork DEF InWork, Queued
<1>4. CASE ollama /\ ~(worker.tries < MaxRetries)
  <2>1. pending' = pending /\ worker' = Loop(pending) /\ abandoned' = abandoned \cup {worker.of}
    BY <1>4 DEF Retry
  <2>2. worker'.at # "embed" /\ \A i : InWork(i) => i \in abandoned'
    BY <2>1, LoopIs DEF InWork
  <2> QED BY <2>1, <2>2, <1>1, ForgetWork DEF Queued
<1> QED BY <1>2, <1>3, <1>4

\* Ollama turns, or a client indexes: the worker stays where it is.
LEMMA ForgetIndex ==
  ASSUME TypeInv, ForgetInv, Aside, OllamaTurns \/ \E i \in Id : IndexFts(i, Found(i))
  PROVE  ForgetInv'
<1>1. /\ UNCHANGED <<pending, worker, wanted, abandoned>>
      /\ \/ files' = files
         \/ \E i \in Id : files[i] = "none" /\ files' = [files EXCEPT ![i] = "stored"]
  BY DEF OllamaTurns, IndexFts, queueVars
<1>2. \A i \in Id : /\ files[i] = "embedded" => files'[i] = "embedded"
                    /\ files'[i] = "none" => files[i] = "none"
  BY <1>1 DEF TypeInv, TableOK
<1>3. worker.at = "embed" /\ worker.of \in mods /\ files'[worker.of] = "none" => Excused(worker.of)
  BY <1>2 DEF ForgetInv, TypeInv, TableOK
<1> QED BY <1>1, <1>2, <1>3, ForgetWork DEF InWork, Queued, TypeInv, TableOK

LEMMA NextForget == TypeInv /\ SourceInv /\ ForgetInv /\ [Next]_vars => ForgetInv'
<1> SUFFICES ASSUME TypeInv, SourceInv, ForgetInv, [Next]_vars PROVE ForgetInv'
  OBVIOUS
<1>1. ASSUME NEW c \in Call, NEW j \in Jar, NEW replace \in BOOLEAN, Ingest(c, j, replace) PROVE ForgetInv'
  BY <1>1, ForgetCall
<1>2. ASSUME NEW c \in Call, IngestStep(c) PROVE ForgetInv'
  BY <1>2, ForgetCall, ForgetCreate DEF IngestStep
<1>3. ASSUME NEW c \in Call, Spawn(c) \/ Mark(c) \/ Note(c) \/ Ask(c) \/ Erase(c) PROVE ForgetInv'
  BY <1>3, ForgetCall, ForgetAsk, ForgetErase
<1>4. ASSUME NEW c \in Call, NEW i \in Id, Decompile(c, i) \/ PollStatus(c, i) \/ Delete(c, i)
      PROVE  ForgetInv'
  BY <1>4, ForgetCall
<1>5. ASSUME NEW d \in Place, NEW n \in Run, Succeeds(d, n) \/ Crashes(d, n) PROVE ForgetInv'
  <2>1. UNCHANGED <<mods, files, pending, worker, wanted, abandoned, jarOf, call, spoilt>>
    BY <1>5 DEF Succeeds, Crashes, RunEnds, embedVars, queueVars
  <2>2. \A i : Erasing(i) => Erasing(i)'
    BY <2>1 DEF Erasing, At
  <2> QED BY <2>1, <2>2, SameJars, ForgetAside
<1>6. ASSUME Restart PROVE ForgetInv'
  BY <1>6 DEF Restart, ForgetQueue, Off, ForgetInv
<1>7. ASSUME QueueNext PROVE ForgetInv'
  <2>1. Aside /\ QueueStep
    BY <1>7, QueueSteps
  <2> QED BY <2>1, ForgetTake, ForgetWalk, ForgetEmbed, ForgetRetry, ForgetScan, ForgetIndex DEF QueueStep
<1>8. CASE UNCHANGED vars
  <2>1. UNCHANGED <<mods, files, pending, worker, wanted, abandoned, jarOf, call, spoilt>>
    BY <1>8 DEF vars, embedVars, queueVars
  <2>2. \A i : Erasing(i) => Erasing(i)'
    BY <2>1 DEF Erasing, At
  <2> QED BY <2>1, <2>2, SameJars, ForgetAside
<1> QED BY <1>1, <1>2, <1>3, <1>4, <1>5, <1>6, <1>7, <1>8 DEF Next

LEMMA AlwaysRemembered == Spec => []ForgetInv
BY AlwaysTyped, AlwaysOwn, InitForget, NextForget, PTL DEF Spec

\* A mod that was queued for embedding is not lost from the queue: as long as the server
\* runs it is embedded, waits, is worked on or was given up, unless its directory was
\* removed under it.
THEOREM NoneForgotten == Spec => []NothingForgotten
BY AlwaysRemembered, ForgottenIs, PTL
=============================================================================
