---------------------- MODULE SourcePreparationProofs ----------------------
(***************************************************************************)
(* Theorems about SourcePreparation, for any versions, classes and bounds:  *)
(* the counters of the class pool agree with its jobs, and what is marked   *)
(* as indexed is whole.                                                     *)
(***************************************************************************)
EXTENDS SourcePreparation, SequenceTheorems, FiniteSetTheorems, WellFoundedInduction, TLAPS

PrepState == {"none", "queued", "running", "failed"}
Job == [at : {"idle", "check", "writing", "read", "store"},
        from : {"none", "standard", "priority"}, text : Text]

\* The pool, as it is before and after a call of runClassPreparations().
PoolOK(states, queue, running, taken, workers) ==
  /\ states \in [Class -> PrepState] /\ workers \in [Class -> Job]
  /\ queue \in Seq(Class) /\ IsInjective(queue)
  /\ {c \in Class : states[c] = "queued"} = Range(queue)
  /\ running \in Nat /\ running <= Slots
  /\ taken \in SUBSET Version /\ IsFiniteSet(taken) /\ running = Cardinality(taken)
  /\ \A c \in Class : states[c] = "running" => VersionOf[c] \in taken
  /\ \A v \in taken : \E c \in Class : states[c] = "running" /\ VersionOf[c] = v
  /\ \A c, d \in Class : states[c] = "running" /\ states[d] = "running"
                         /\ VersionOf[c] = VersionOf[d] => c = d
  /\ \A c \in Class : workers[c].at = "idle" <=> states[c] # "running"

PoolInv == PoolOK(prep, prepQueue, active, busy, worker)

Process == [state : {"none", "child", "orphan", "dead"}, todo : SUBSET Class, on : SUBSET Class]
Directory == [done : BOOLEAN, error : BOOLEAN, running : 0..MaxRuns, named : BOOLEAN,
              proc : [Run -> Process]]
Build == [at : {"idle", "check", "decompile", "mark", "poll", "names", "list", "index"},
          of : Version, left : SUBSET Class]

Naming == [at : {"idle", "waiting", "walking"}, left : SUBSET Class]

\* One version is built at a time.
JobsInv ==
  /\ job \in [Version -> PrepState] /\ build \in Build
  /\ jobQueue \in Seq(Version) /\ IsInjective(jobQueue)
  /\ {v \in Version : job[v] = "queued"} = Range(jobQueue)
  /\ \A v \in Version : job[v] = "running" <=> build.at # "idle" /\ build.of = v

\* The runs of a version were started in turn; one whose pid is to be written is there.
Used(v) == {n \in Run : dir[v].proc[n].state # "none"}
DirInv ==
  /\ dir \in [Version -> Directory]
  /\ \A v \in Version : \E m \in 0..MaxRuns : Used(v) = 1..m
  /\ build.at = "mark" => Used(build.of) # {}

RestInv ==
  /\ naming \in [Version -> Naming] /\ mcp \in [Version -> {"unasked", "found", "missing"}]
  /\ completed \in SUBSET Version /\ nameless \in SUBSET Class
  /\ standard \in [Class -> Text] /\ priority \in [Class -> [text : Text, ready : BOOLEAN]]
  /\ rows \in [Class -> Text] /\ indexed \in [Version -> BOOLEAN]
  /\ late \in SUBSET Class /\ doubled \in SUBSET Version /\ faults \in 0..MaxFaults

TypeInv == PoolInv /\ JobsInv /\ DirInv /\ RestInv

\* Vineflower is through with the class.
Written(c) == standard[c] = "whole" \/ (VersionOf[c] \in Srg /\ standard[c] = "raw")

\* A text has its names, unless they were not to be had.
Named(c)  == standard[c] = "whole" \/ (standard[c] = "raw" /\ c \in nameless)
Stored(c) == rows[c] = "whole" \/ (rows[c] = "raw" /\ c \in nameless)
AllNamed(v) == \A c \in ClassesOf(v) : Named(c)

\* A run writes the classes of its own version.
TodoInv(v) ==
  \A n \in Run : dir[v].proc[n].todo \cup dir[v].proc[n].on \subseteq ClassesOf(v)

\* One run writes a directory at a time, unless the version is in doubled; what it is through
\* with is written, and nobody writes when it is done.
RunsInv(v) ==
  /\ \A m, n \in Alive(v) : m = n
  /\ \A n \in Alive(v), c \in ClassesOf(v) : c \in dir[v].proc[n].todo \/ Written(c)
  /\ dir[v].done => Alive(v) = {} /\ \A c \in ClassesOf(v) : Written(c)
  /\ dir[v].named => dir[v].done /\ AllNamed(v)

\* What a job that replaces names has walked is whole, if there are names, and only what is done
\* is walked.
NamingInv(v) ==
  naming[v].at = "walking" /\ v \notin doubled =>
    /\ dir[v].done /\ mcp[v] # "unasked"
    /\ mcp[v] = "found" => \A c \in ClassesOf(v) \ naming[v].left : standard[c] = "whole"

\* A class' file of its own has its names when it is marked as ready, and a worker that takes it
\* takes it then.
PriorityInv(c) ==
  /\ priority[c].ready =>
       priority[c].text = "whole" \/ (priority[c].text = "raw" /\ c \in nameless)
  /\ worker[c].at \in {"read", "store"} /\ worker[c].from = "priority" => priority[c].ready

\* Rows that are stored before the version is marked, and after.
BuildInv ==
  LET v == build.of IN
  /\ build.at \in {"names", "list", "index"} => dir[v].done
  /\ build.at \in {"list", "index"} /\ v \notin doubled => AllNamed(v)
  /\ build.at = "index" /\ v \notin doubled =>
       \A c \in ClassesOf(v) \ (build.left \cup late) : Stored(c)

IndexInv(v) ==
  indexed[v] /\ v \notin doubled =>
    dir[v].done /\ AllNamed(v) /\ \A c \in ClassesOf(v) \ late : Stored(c)

RunsPart == \A v \in Version : TodoInv(v) /\ (v \notin doubled => RunsInv(v))
IndexPart == \A v \in Version : IndexInv(v)
NamingPart == \A v \in Version : NamingInv(v)
PriorityPart == \A c \in Class : PriorityInv(c)

SourceInv == RunsPart /\ IndexPart /\ NamingPart /\ PriorityPart /\ BuildInv
-----------------------------------------------------------------------------
(* Numbers and sequences.                                                   *)

LEMMA Constants ==
  /\ Slots \in Nat \ {0} /\ MaxQueue \in Nat \ {0} /\ MaxRuns \in Nat \ {0} /\ MaxFaults \in Nat \ {0}
  /\ Run \subseteq Nat /\ Version # {} /\ VersionOf \in [Class -> Version] /\ Srg \subseteq Version
BY PreparationAssumption DEF Run

LEMMA LeastOf ==
  ASSUME NEW S \in SUBSET Nat, S # {}
  PROVE  \E x \in S : \A y \in S : x <= y
<1> DEFINE R == OpToRel(<, Nat)
<1>1. PICK x \in S : \A y \in S : ~(<<y, x>> \in R)
  <2>1. IsWellFoundedOn(R, Nat)
    BY NatLessThanWellFounded
  <2> HIDE DEF R
  <2> QED BY <2>1, WFMin
<1>2. \A y, z \in Nat : <<y, z>> \in R <=> y < z
  BY DEF OpToRel
<1> HIDE DEF R
<1>3. ASSUME NEW y \in S PROVE x <= y
  <2>1. x \in Nat /\ y \in Nat /\ ~(<<y, x>> \in R)
    BY <1>1
  <2> QED BY <2>1, <1>2
<1> QED BY <1>3

\* What a queue holds, after one was added, after the first was taken, and after any was.
LEMMA AppendOne ==
  ASSUME NEW S, NEW q \in Seq(S), IsInjective(q), NEW e \in S, e \notin Range(q)
  PROVE  /\ Append(q, e) \in Seq(S) /\ IsInjective(Append(q, e)) /\ Append(q, e) # <<>>
         /\ Range(Append(q, e)) = Range(q) \cup {e}
<1> DEFINE s == Append(q, e)
<1>1. /\ s \in Seq(S) /\ s # <<>> /\ Len(s) = Len(q) + 1 /\ Len(q) \in Nat
      /\ \A n \in 1..Len(q) : s[n] = q[n]
      /\ s[Len(q) + 1] = e
  BY AppendProperties, LenProperties
<1>2. DOMAIN s = 1..Len(s) /\ DOMAIN q = 1..Len(q)
  BY <1>1, LenProperties
<1>3. \A n : n \in 1..Len(s) <=> n \in 1..Len(q) \/ n = Len(q) + 1
  BY <1>1
<1> HIDE DEF s
<1>4. Range(s) = Range(q) \cup {e}
  BY <1>1, <1>2, <1>3 DEF Range
<1>5. IsInjective(s)
  <2> SUFFICES ASSUME NEW a \in 1..Len(s), NEW b \in 1..Len(s), s[a] = s[b] PROVE a = b
    BY <1>2 DEF IsInjective
  <2>1. \A n \in 1..Len(q) : q[n] \in Range(q) /\ s[n] # e
    BY <1>1, <1>2 DEF Range
  <2>2. CASE a \in 1..Len(q) /\ b \in 1..Len(q)
    BY <2>2, <1>1, <1>2 DEF IsInjective
  <2>3. CASE a = Len(q) + 1 \/ b = Len(q) + 1
    BY <2>3, <2>1, <1>1, <1>3
  <2> QED BY <2>2, <2>3, <1>3
<1> QED BY <1>1, <1>4, <1>5 DEF s

LEMMA RemoveOne ==
  ASSUME NEW S, NEW q \in Seq(S), IsInjective(q), NEW i \in 1..Len(q)
  PROVE  /\ RemoveAt(q, i) \in Seq(S) /\ IsInjective(RemoveAt(q, i))
         /\ Range(RemoveAt(q, i)) = Range(q) \ {q[i]}
<1> DEFINE r == RemoveAt(q, i)
<1>1. Len(q) \in Nat /\ DOMAIN q = 1..Len(q) /\ \A n \in 1..Len(q) : q[n] \in S
  BY LenProperties, ElementOfSeq
<1>2. /\ r \in Seq(S) /\ Len(r) = Len(q) - 1 /\ DOMAIN r = 1..Len(r)
      /\ \A n \in 1..Len(r) : r[n] = IF n < i THEN q[n] ELSE q[n + 1]
  <2> DEFINE a == SubSeq(q, 1, i - 1)  b == SubSeq(q, i + 1, Len(q))
  <2>1. /\ a \in Seq(S) /\ Len(a) = i - 1
        /\ \A n \in 1..(i - 1) : a[n] = q[n]
    <3>1. \A n \in 1..(i - 1) : q[n] \in S
      BY <1>1
    <3>2. /\ SubSeq(q, 1, i - 1) \in Seq(S)
          /\ Len(SubSeq(q, 1, i - 1)) = IF 1 <= i - 1 THEN (i - 1) - 1 + 1 ELSE 0
          /\ \A n \in 1..((i - 1) - 1 + 1) : SubSeq(q, 1, i - 1)[n] = q[1 + n - 1]
      BY <3>1, <1>1, SubSeqProperties
    <3> QED BY <3>2, <1>1
  <2>2. /\ b \in Seq(S) /\ Len(b) = Len(q) - i
        /\ \A n \in 1..(Len(q) - i) : b[n] = q[n + i]
    <3>1. \A n \in (i + 1)..Len(q) : q[n] \in S
      BY <1>1
    <3>2. /\ SubSeq(q, i + 1, Len(q)) \in Seq(S)
          /\ Len(SubSeq(q, i + 1, Len(q))) = IF i + 1 <= Len(q) THEN Len(q) - (i + 1) + 1 ELSE 0
          /\ \A n \in 1..(Len(q) - (i + 1) + 1) : SubSeq(q, i + 1, Len(q))[n] = q[(i + 1) + n - 1]
      BY <3>1, <1>1, SubSeqProperties
    <3> HIDE DEF b
    <3>3. /\ b \in Seq(S)
          /\ Len(b) = IF i + 1 <= Len(q) THEN Len(q) - (i + 1) + 1 ELSE 0
          /\ \A n \in 1..(Len(q) - (i + 1) + 1) : b[n] = q[(i + 1) + n - 1]
      BY <3>2, Zenon DEF b
    <3>4. ASSUME NEW n \in 1..(Len(q) - i) PROVE b[n] = q[n + i]
      <4>1. n \in 1..(Len(q) - (i + 1) + 1) /\ (i + 1) + n - 1 = n + i
        BY <1>1
      <4> QED BY <4>1, <3>3, Zenon
    <3>5. Len(b) = Len(q) - i
      <4>1. Len(b) = IF i + 1 <= Len(q) THEN Len(q) - (i + 1) + 1 ELSE 0
        BY <3>3
      <4>2. Len(q) \in Nat /\ i \in 1..Len(q)
        BY <1>1
      <4> QED BY <4>1, <4>2
    <3> QED BY <3>3, <3>4, <3>5
  <2>3. r = a \o b
    BY Zenon DEF RemoveAt
  <2> HIDE DEF a, b, r
  <2>4. /\ r \in Seq(S) /\ Len(r) = Len(a) + Len(b)
        /\ \A n \in 1..(Len(a) + Len(b)) : r[n] = IF n <= Len(a) THEN a[n] ELSE b[n - Len(a)]
    BY <2>1, <2>2, <2>3, ConcatProperties
  <2>5. Len(r) = Len(q) - 1 /\ DOMAIN r = 1..Len(r)
    BY <2>1, <2>2, <2>4, <1>1, LenProperties
  <2>6. ASSUME NEW n \in 1..Len(r) PROVE r[n] = IF n < i THEN q[n] ELSE q[n + 1]
    <3>1. CASE n < i
      BY <3>1, <2>1, <2>2, <2>4, <1>1
    <3>2. CASE ~(n < i)
      <4>1. n - Len(a) \in 1..(Len(q) - i) /\ n - Len(a) + i = n + 1
        BY <3>2, <2>1, <2>5, <1>1
      <4> QED BY <4>1, <3>2, <2>1, <2>2, <2>4
    <3> QED BY <3>1, <3>2
  <2> QED BY <2>4, <2>5, <2>6
<1> HIDE DEF r
\* Where the entry of r is found in q, and back.
<1> DEFINE at(n) == IF n < i THEN n ELSE n + 1
<1>3. \A n \in 1..Len(r) : at(n) \in 1..Len(q) /\ at(n) # i /\ r[n] = q[at(n)]
  BY <1>1, <1>2
<1>4. \A n \in 1..Len(q) : n = i \/ \E m \in 1..Len(r) : at(m) = n
  <2> SUFFICES ASSUME NEW n \in 1..Len(q), n # i PROVE \E m \in 1..Len(r) : at(m) = n
    OBVIOUS
  <2> DEFINE m == IF n < i THEN n ELSE n - 1
  <2>1. m \in 1..Len(r) /\ at(m) = n
    BY <1>1, <1>2
  <2> QED BY <2>1
<1>5. \A m, n \in 1..Len(r) : at(m) = at(n) => m = n
  BY <1>2
<1> HIDE DEF at
<1>6. IsInjective(r)
  <2> SUFFICES ASSUME NEW m \in 1..Len(r), NEW n \in 1..Len(r), r[m] = r[n] PROVE m = n
    BY <1>2 DEF IsInjective
  <2>1. at(m) = at(n)
    BY <1>1, <1>3 DEF IsInjective
  <2> QED BY <2>1, <1>5
<1>7. Range(r) \subseteq Range(q) \ {q[i]}
  <2> SUFFICES ASSUME NEW n \in 1..Len(r) PROVE r[n] \in Range(q) /\ r[n] # q[i]
    BY <1>2 DEF Range
  <2> QED BY <1>1, <1>3 DEF Range, IsInjective
<1>8. Range(q) \ {q[i]} \subseteq Range(r)
  <2> SUFFICES ASSUME NEW n \in 1..Len(q), q[n] # q[i] PROVE q[n] \in Range(r)
    BY <1>1 DEF Range
  <2>1. PICK m \in 1..Len(r) : at(m) = n
    BY <1>4
  <2> QED BY <2>1, <1>2, <1>3 DEF Range
<1> QED BY <1>2, <1>6, <1>7, <1>8 DEF r

LEMMA TakeOne ==
  ASSUME NEW S, NEW q \in Seq(S), IsInjective(q), q # <<>>
  PROVE  /\ Tail(q) \in Seq(S) /\ IsInjective(Tail(q)) /\ Head(q) \in S
         /\ Head(q) \in Range(q) /\ Range(Tail(q)) = Range(q) \ {Head(q)}
<1> DEFINE t == Tail(q)  h == Head(q)
<1>1. /\ t \in Seq(S) /\ h \in S /\ Len(t) = Len(q) - 1 /\ Len(q) \in Nat \ {0} /\ h = q[1]
      /\ \A n \in 1..Len(t) : t[n] = q[n + 1]
  BY HeadTailProperties, EmptySeq, LenProperties
<1>2. DOMAIN t = 1..Len(t) /\ DOMAIN q = 1..Len(q)
  BY <1>1, LenProperties
<1>3. /\ \A n \in 1..Len(t) : n + 1 \in 1..Len(q) /\ n + 1 # 1
      /\ \A n \in 1..Len(q) : n = 1 \/ (n - 1 \in 1..Len(t) /\ t[n - 1] = q[n])
      /\ 1 \in 1..Len(q)
  BY <1>1
<1> HIDE DEF t, h
<1>4. IsInjective(t)
  <2> SUFFICES ASSUME NEW a \in 1..Len(t), NEW b \in 1..Len(t), t[a] = t[b] PROVE a = b
    BY <1>2 DEF IsInjective
  <2>1. a + 1 \in 1..Len(q) /\ b + 1 \in 1..Len(q) /\ q[a + 1] = q[b + 1]
    BY <1>1, <1>3
  <2>2. a + 1 = b + 1
    BY <2>1, <1>2 DEF IsInjective
  <2> QED BY <2>2
<1>5. Range(q) \ {h} \subseteq Range(t)
  <2> SUFFICES ASSUME NEW n \in 1..Len(q), q[n] # h PROVE \E m \in 1..Len(t) : t[m] = q[n]
    BY <1>2 DEF Range
  <2>1. n - 1 \in 1..Len(t) /\ t[n - 1] = q[n]
    BY <1>1, <1>3
  <2> QED BY <2>1
<1>6. Range(t) \subseteq Range(q) \ {h}
  <2> SUFFICES ASSUME NEW n \in 1..Len(t) PROVE t[n] \in Range(q) /\ t[n] # h
    BY <1>2 DEF Range
  <2>1. n + 1 \in DOMAIN q /\ 1 \in DOMAIN q /\ n + 1 # 1 /\ t[n] = q[n + 1]
    BY <1>1, <1>2, <1>3
  <2> QED BY <2>1, <1>1 DEF Range, IsInjective
<1>7. h \in Range(q)
  BY <1>1, <1>2, <1>3 DEF Range
<1> QED BY <1>1, <1>4, <1>5, <1>6, <1>7 DEF t, h
-----------------------------------------------------------------------------
(* The class pool.                                                          *)

\* The call of runClassPreparations() keeps the counters right.
LEMMA RunPool ==
  ASSUME NEW p, NEW q, NEW a, NEW b, NEW w, PoolOK(p, q, a, b, w), RunPreparations(p, q, a, b, w)
  PROVE  PoolOK(prep', prepQueue', active', busy', worker')
<1> DEFINE next == {i \in DOMAIN q : VersionOf[q[i]] \notin b}
           least == CHOOSE k \in next : \A l \in next : k <= l
           c == q[least]
<1>1. DOMAIN q = 1..Len(q) /\ Len(q) \in Nat /\ \A n \in 1..Len(q) : q[n] \in Class
  BY LenProperties, ElementOfSeq DEF PoolOK
<1>2. CASE a < Slots /\ next # {}
  <2>1. least \in next
    <3>1. next \in SUBSET Nat
      BY <1>1
    <3> HIDE DEF next
    <3>2. \E k \in next : \A l \in next : k <= l
      BY <1>2, <3>1, LeastOf
    <3> QED BY <3>2
  <2>2. least \in 1..Len(q) /\ c \in Class /\ VersionOf[c] \in Version /\ VersionOf[c] \notin b
    BY <2>1, <1>1, Constants
  <2>3. /\ prep' = [p EXCEPT ![c] = "running"] /\ prepQueue' = RemoveAt(q, least)
        /\ active' = a + 1 /\ busy' = b \cup {VersionOf[c]}
        /\ worker' = [w EXCEPT ![c].at = "check"]
    BY <1>2 DEF RunPreparations
  <2> HIDE DEF next, least
  <2>4. c \in Range(q)
    BY <2>2, <1>1 DEF Range
  <2> HIDE DEF c
  <2>5. p[c] = "queued"
    BY <2>2, <2>4 DEF PoolOK
  <2>6. /\ prepQueue' \in Seq(Class) /\ IsInjective(prepQueue')
        /\ Range(prepQueue') = Range(q) \ {c}
    BY <2>2, <2>3, RemoveOne DEF PoolOK, c
  <2>7. /\ IsFiniteSet(busy') /\ active' = Cardinality(busy') /\ active' \in Nat /\ active' <= Slots
        /\ busy' \in SUBSET Version
    <3>1. a \in Nat /\ IsFiniteSet(b) /\ a = Cardinality(b) /\ b \in SUBSET Version
      BY DEF PoolOK
    <3>2. /\ IsFiniteSet(b \cup {VersionOf[c]})
          /\ Cardinality(b \cup {VersionOf[c]}) = Cardinality(b) + 1
      BY <3>1, <2>2, FS_AddElement
    <3>3. a < Slots /\ Slots \in Nat
      BY <1>2, Constants
    <3> QED BY <3>1, <3>2, <3>3, <2>2, <2>3
  <2>8. /\ prep' \in [Class -> PrepState] /\ worker' \in [Class -> Job]
        /\ \A d \in Class : /\ prep'[d] = IF d = c THEN "running" ELSE p[d]
                            /\ worker'[d].at = IF d = c THEN "check" ELSE w[d].at
    BY <2>2, <2>3 DEF PoolOK, PrepState, Job
  <2>9. {d \in Class : prep'[d] = "queued"} = Range(prepQueue')
    BY <2>2, <2>6, <2>8 DEF PoolOK
  <2>10. /\ \A d \in Class : prep'[d] = "running" => VersionOf[d] \in busy'
         /\ \A v \in busy' : \E d \in Class : prep'[d] = "running" /\ VersionOf[d] = v
         /\ \A d \in Class : worker'[d].at = "idle" <=> prep'[d] # "running"
    BY <2>2, <2>3, <2>8 DEF PoolOK
  <2>11. ASSUME NEW d \in Class, NEW e \in Class, prep'[d] = "running", prep'[e] = "running",
                VersionOf[d] = VersionOf[e]
         PROVE  d = e
    BY <2>2, <2>8, <2>11 DEF PoolOK
  <2> QED BY <2>6, <2>7, <2>8, <2>9, <2>10, <2>11 DEF PoolOK
<1>3. CASE ~(a < Slots /\ next # {})
  <2>1. prep' = p /\ prepQueue' = q /\ active' = a /\ busy' = b /\ worker' = w
    BY <1>3 DEF RunPreparations
  <2> QED BY <2>1
<1> QED BY <1>2, <1>3

\* A job that is over frees its slot and its version.
LEMMA EndPool ==
  ASSUME NEW p, NEW q, NEW a, NEW b, NEW w, PoolOK(p, q, a, b, w),
         NEW c \in Class, p[c] = "running", NEW state \in {"none", "failed"}
  PROVE  PoolOK([p EXCEPT ![c] = state], q, a - 1, b \ {VersionOf[c]}, [w EXCEPT ![c] = NoWork])
<1> DEFINE r == [p EXCEPT ![c] = state]  x == [w EXCEPT ![c] = NoWork]  t == b \ {VersionOf[c]}
<1>1. /\ r \in [Class -> PrepState] /\ x \in [Class -> Job]
      /\ \A d \in Class : /\ r[d] = IF d = c THEN state ELSE p[d]
                          /\ x[d].at = IF d = c THEN "idle" ELSE w[d].at
  BY DEF PoolOK, PrepState, Job, NoWork, Text
<1>2. VersionOf[c] \in b /\ a \in Nat /\ a = Cardinality(b) /\ IsFiniteSet(b) /\ b \in SUBSET Version
  BY DEF PoolOK
<1>3. IsFiniteSet(t) /\ a - 1 = Cardinality(t) /\ Cardinality(t) \in Nat
  BY <1>2, FS_RemoveElement, FS_CardinalityType
<1>4. a - 1 \in Nat /\ a - 1 <= Slots
  BY <1>2, <1>3, Constants DEF PoolOK
<1>5. {d \in Class : r[d] = "queued"} = Range(q)
  BY <1>1 DEF PoolOK
<1>6. /\ \A d \in Class : r[d] = "running" => p[d] = "running" /\ d # c
      /\ \A d \in Class : d # c /\ p[d] = "running" => r[d] = "running"
  BY <1>1
<1>7. /\ \A d \in Class : r[d] = "running" => VersionOf[d] \in t
      /\ \A v \in t : \E d \in Class : r[d] = "running" /\ VersionOf[d] = v
      /\ \A d, e \in Class : r[d] = "running" /\ r[e] = "running" /\ VersionOf[d] = VersionOf[e]
                             => d = e
  BY <1>6 DEF PoolOK
<1>8. \A d \in Class : x[d].at = "idle" <=> r[d] # "running"
  BY <1>1 DEF PoolOK
<1> HIDE DEF r, x, t
<1>9. PoolOK(r, q, a - 1, t, x)
  BY <1>1, <1>2, <1>3, <1>4, <1>5, <1>7, <1>8 DEF PoolOK, t
<1> QED BY <1>9 DEF r, x, t

\* A class that waits, one whose failure is forgotten, and a job that goes on.
LEMMA QueuePool ==
  ASSUME NEW p, NEW q, NEW a, NEW b, NEW w, PoolOK(p, q, a, b, w), NEW c \in Class, p[c] = "none"
  PROVE  PoolOK([p EXCEPT ![c] = "queued"], Append(q, c), a, b, w)
<1> DEFINE r == [p EXCEPT ![c] = "queued"]
<1>1. /\ r \in [Class -> PrepState]
      /\ \A d \in Class : r[d] = IF d = c THEN "queued" ELSE p[d]
  BY DEF PoolOK, PrepState
<1>2. c \notin Range(q)
  BY DEF PoolOK
<1>3. /\ Append(q, c) \in Seq(Class) /\ IsInjective(Append(q, c))
      /\ Range(Append(q, c)) = Range(q) \cup {c}
  BY <1>2, AppendOne DEF PoolOK
<1> HIDE DEF r
<1>4. PoolOK(r, Append(q, c), a, b, w)
  BY <1>1, <1>3 DEF PoolOK
<1> QED BY <1>4 DEF r

LEMMA ForgetPool ==
  ASSUME NEW p, NEW q, NEW a, NEW b, NEW w, PoolOK(p, q, a, b, w), NEW c \in Class, p[c] = "failed"
  PROVE  PoolOK([p EXCEPT ![c] = "none"], q, a, b, w)
<1> DEFINE r == [p EXCEPT ![c] = "none"]
<1>1. /\ r \in [Class -> PrepState]
      /\ \A d \in Class : r[d] = IF d = c THEN "none" ELSE p[d]
  BY DEF PoolOK, PrepState
<1> HIDE DEF r
<1>2. PoolOK(r, q, a, b, w)
  BY <1>1 DEF PoolOK
<1> QED BY <1>2 DEF r

LEMMA WorkPool ==
  ASSUME PoolInv, UNCHANGED PoolRest, worker' \in [Class -> Job],
         \A c \in Class : worker'[c].at = "idle" <=> worker[c].at = "idle"
  PROVE  PoolInv'
BY DEF PoolInv, PoolOK, PoolRest

LEMMA SamePool ==
  ASSUME PoolInv, UNCHANGED Pool
  PROVE  PoolInv'
BY DEF PoolInv, PoolOK, Pool

LEMMA EndWorkPool ==
  ASSUME PoolInv, NEW c \in Class, worker[c].at # "idle", NEW state \in {"none", "failed"},
         EndWork(c, state)
  PROVE  PoolInv'
<1>1. prep[c] = "running"
  BY DEF PoolInv, PoolOK
<1>2. PoolOK([prep EXCEPT ![c] = state], prepQueue, active - 1, busy \ {VersionOf[c]},
             [worker EXCEPT ![c] = NoWork])
  BY <1>1, EndPool DEF PoolInv
<1>3. PoolOK(prep', prepQueue', active', busy', worker')
  BY <1>2, RunPool DEF EndWork
<1> QED BY <1>3 DEF PoolInv
-----------------------------------------------------------------------------
(* Types.                                                                   *)

LEMMA InitTypes == Init => TypeInv
<1> SUFFICES ASSUME Init PROVE TypeInv
  OBVIOUS
<1>1. <<>> \in Seq(Class) /\ <<>> \in Seq(Version) /\ IsInjective(<<>>) /\ Range(<<>>) = {}
  BY DEF IsInjective, Range
<1>2. PoolInv
  BY <1>1, Constants, FS_EmptySet DEF Init, PoolInv, PoolOK, PrepState, Job, NoWork, Text
<1>3. (CHOOSE v \in Version : TRUE) \in Version
  BY Constants
<1>4. JobsInv
  BY <1>1, <1>3 DEF Init, JobsInv, PrepState, Build, NoBuild
<1>5. /\ dir \in [Version -> Directory]
      /\ \A v \in Version : \A n \in Run : dir[v].proc[n].state = "none"
  BY Constants DEF Init, Directory, Process, NoDir, NoProcess
<1>6. \A v \in Version : Used(v) = {} /\ Used(v) = 1..0
  BY <1>5 DEF Used
<1>7. DirInv
  <2>1. 0 \in 0..MaxRuns
    BY Constants
  <2>2. build.at # "mark"
    BY DEF Init, NoBuild
  <2> QED BY <2>1, <2>2, <1>5, <1>6 DEF DirInv
<1>8. RestInv
  BY Constants DEF Init, RestInv, Text, Naming, NoNaming
<1> QED BY <1>2, <1>4, <1>7, <1>8 DEF TypeInv

\* pump(): the job that ran has another state now, and the first that waits runs.
LEMMA PumpJobs ==
  ASSUME NEW jobs \in [Version -> PrepState], NEW queue \in Seq(Version), IsInjective(queue),
         {v \in Version : jobs[v] = "queued"} = Range(queue),
         \A v \in Version : jobs[v] # "running",
         Pump(jobs, queue)
  PROVE  JobsInv' /\ build'.at # "mark"
<1>0. (CHOOSE v \in Version : TRUE) \in Version
  BY Constants
<1>1. CASE queue # <<>>
  <2> DEFINE h == Head(queue)
  <2>1. /\ h \in Version /\ Tail(queue) \in Seq(Version) /\ IsInjective(Tail(queue))
        /\ h \in Range(queue) /\ Range(Tail(queue)) = Range(queue) \ {h}
    BY <1>1, TakeOne
  <2> HIDE DEF h
  <2>2. /\ job' = [jobs EXCEPT ![h] = "running"] /\ jobQueue' = Tail(queue)
        /\ build' \in Build /\ build'.at = "check" /\ build'.of = h
    BY <1>0, <1>1, <2>1 DEF Pump, NoBuild, Build, h
  <2>3. /\ job' \in [Version -> PrepState]
        /\ \A v \in Version : job'[v] = IF v = h THEN "running" ELSE jobs[v]
    BY <2>1, <2>2 DEF PrepState
  <2> QED BY <2>1, <2>2, <2>3 DEF JobsInv
<1>2. CASE queue = <<>>
  <2>1. job' = jobs /\ jobQueue' = queue /\ build' \in Build /\ build'.at = "idle"
    BY <1>0, <1>2 DEF Pump, NoBuild, Build
  <2> QED BY <2>1 DEF JobsInv
<1> QED BY <1>1, <1>2

LEMMA EndJobs ==
  ASSUME JobsInv, build.at # "idle", NEW state \in {"none", "failed"},
         Pump([job EXCEPT ![build.of] = state], jobQueue)
  PROVE  JobsInv' /\ build'.at # "mark"
<1> DEFINE jobs == [job EXCEPT ![build.of] = state]
<1>1. build.of \in Version
  BY DEF JobsInv, Build
<1>2. /\ jobs \in [Version -> PrepState]
      /\ \A v \in Version : jobs[v] = IF v = build.of THEN state ELSE job[v]
  BY <1>1 DEF JobsInv, PrepState
<1>3. job[build.of] = "running" /\ \A v \in Version : job[v] = "running" => v = build.of
  BY <1>1 DEF JobsInv
<1> HIDE DEF jobs
<1>4. {v \in Version : jobs[v] = "queued"} = Range(jobQueue)
  BY <1>1, <1>2, <1>3 DEF JobsInv
<1>5. \A v \in Version : jobs[v] # "running"
  BY <1>2, <1>3
<1>6. jobQueue \in Seq(Version) /\ IsInjective(jobQueue)
  BY DEF JobsInv
<1> QED BY <1>2, <1>4, <1>5, <1>6, PumpJobs DEF jobs

\* The build goes on, with the same job.
LEMMA OnJobs ==
  ASSUME JobsInv, build.at # "idle", UNCHANGED <<job, jobQueue>>,
         build' \in Build, build'.at # "idle", build'.of = build.of
  PROVE  JobsInv'
BY DEF JobsInv

LEMMA SameJobs ==
  ASSUME JobsInv, UNCHANGED <<job, jobQueue, build>>
  PROVE  JobsInv'
BY DEF JobsInv

\* A directory as it was, or with processes in other states.
LEMMA SameDir ==
  ASSUME DirInv, UNCHANGED dir, build'.at = "mark" => UNCHANGED build
  PROVE  DirInv'
BY DEF DirInv, Used

LEMMA UsedDir ==
  ASSUME DirInv, dir' \in [Version -> Directory],
         \A v \in Version, n \in Run :
           dir'[v].proc[n].state = "none" <=> dir[v].proc[n].state = "none",
         build'.at = "mark" => UNCHANGED build, build.of \in Version
  PROVE  DirInv'
<1>1. ASSUME NEW v \in Version
      PROVE  {n \in Run : dir'[v].proc[n].state # "none"} = Used(v)
  BY DEF Used
<1>2. \A v \in Version : \E m \in 0..MaxRuns : {n \in Run : dir'[v].proc[n].state # "none"} = 1..m
  BY <1>1 DEF DirInv
<1>3. build'.at = "mark" => {n \in Run : dir'[build'.of].proc[n].state # "none"} # {}
  BY <1>1 DEF DirInv
<1> QED BY <1>2, <1>3 DEF DirInv, Used

\* The steps of the class pool.
LEMMA PrepareType ==
  ASSUME TypeInv, NEW c \in Class, Prepare(c)
  PROVE  TypeInv'
<1>1. PICK over \in BOOLEAN :
        /\ over => prep[c] = "failed"
        /\ LET states == IF over THEN [prep EXCEPT ![c] = "none"] ELSE prep IN
           IF states[c] # "none" \/ Len(prepQueue) + active >= MaxQueue
           THEN prep' = states /\ UNCHANGED <<prepQueue, active, busy, worker>>
           ELSE RunPreparations([states EXCEPT ![c] = "queued"], Append(prepQueue, c),
                                active, busy, worker)
  BY DEF Prepare
<1> DEFINE states == IF over THEN [prep EXCEPT ![c] = "none"] ELSE prep
<1>2. PoolOK(states, prepQueue, active, busy, worker)
  BY <1>1, ForgetPool DEF TypeInv, PoolInv
<1>3. \/ prep' = states /\ UNCHANGED <<prepQueue, active, busy, worker>>
      \/ /\ states[c] = "none"
         /\ RunPreparations([states EXCEPT ![c] = "queued"], Append(prepQueue, c),
                            active, busy, worker)
  BY <1>1
<1> HIDE DEF states
<1>4. PoolOK(prep', prepQueue', active', busy', worker')
  <2>1. CASE prep' = states /\ UNCHANGED <<prepQueue, active, busy, worker>>
    BY <2>1, <1>2
  <2>2. CASE /\ states[c] = "none"
             /\ RunPreparations([states EXCEPT ![c] = "queued"], Append(prepQueue, c),
                                active, busy, worker)
    <3>1. PoolOK([states EXCEPT ![c] = "queued"], Append(prepQueue, c), active, busy, worker)
      BY <2>2, <1>2, QueuePool
    <3> QED BY <3>1, <2>2, RunPool
  <2> QED BY <2>1, <2>2, <1>3
<1>5. PoolInv'
  BY <1>4 DEF PoolInv
<1>6. UNCHANGED <<Jobs, Files, Index, Hist, faults>>
  BY DEF Prepare
<1>7. JobsInv' /\ DirInv' /\ RestInv'
  BY <1>6, SameJobs, SameDir DEF TypeInv, RestInv, Jobs, Files, Index, Hist
<1> QED BY <1>5, <1>7 DEF TypeInv

LEMMA ChooseFileType ==
  ASSUME TypeInv, NEW c \in Class, ChooseFile(c)
  PROVE  TypeInv'
<1>1. /\ worker[c].at = "check" /\ UNCHANGED PoolRest
      /\ worker' \in [Class -> Job] /\ worker'[c].at \in {"read", "writing"}
      /\ \A d \in Class \ {c} : worker'[d] = worker[d]
  BY DEF ChooseFile, Works, TypeInv, PoolInv, PoolOK, Job
<1>2. PoolInv'
  BY <1>1, WorkPool DEF TypeInv
<1>3. UNCHANGED <<Jobs, dir, standard, Index, Hist, faults>>
  BY DEF ChooseFile
<1>4. priority' \in [Class -> [text : Text, ready : BOOLEAN]]
  BY DEF ChooseFile, TypeInv, RestInv, Text
<1>5. JobsInv' /\ DirInv' /\ RestInv'
  BY <1>3, <1>4, SameJobs, SameDir DEF TypeInv, RestInv, Jobs, Index, Hist
<1> QED BY <1>2, <1>5 DEF TypeInv

\* What a version has been answered is kept.
LEMMA GetNamesIs ==
  ASSUME RestInv, NEW v \in Version, GetNames(v)
  PROVE  /\ mcp' \in [Version -> {"unasked", "found", "missing"}] /\ mcp'[v] \in {"found", "missing"}
         /\ mcp[v] # "unasked" => mcp' = mcp
         /\ \A u \in Version \ {v} : mcp'[u] = mcp[u]
<1>1. PICK answer \in {"found", "missing"} :
        mcp[v] \in {"unasked", answer} /\ mcp' = [mcp EXCEPT ![v] = answer]
  BY DEF GetNames
<1> QED BY <1>1 DEF RestInv

LEMMA EndClassType ==
  ASSUME TypeInv, NEW c \in Class, EndClass(c)
  PROVE  TypeInv'
<1>1. /\ worker[c].at = "writing" /\ UNCHANGED PoolRest
      /\ worker' \in [Class -> Job] /\ worker'[c].at = "read"
      /\ \A d \in Class \ {c} : worker'[d] = worker[d]
  <2>1. Works(c, "writing") /\ WorkOn(c, "read") /\ UNCHANGED PoolRest
    BY DEF EndClass
  <2>2. worker \in [Class -> Job]
    BY DEF TypeInv, PoolInv, PoolOK
  <2> QED BY <2>1, <2>2 DEF Works, WorkOn, Job
<1>2. PoolInv'
  BY <1>1, WorkPool DEF TypeInv
<1>3. UNCHANGED <<job, jobQueue, build, naming, completed, dir, standard, Index, late, doubled, faults>>
  BY DEF EndClass
<1>4. priority' \in [Class -> [text : Text, ready : BOOLEAN]] /\ nameless' \in SUBSET Class
  BY DEF EndClass, TypeInv, RestInv, Text
<1>5. mcp' \in [Version -> {"unasked", "found", "missing"}]
  BY Constants, GetNamesIs DEF EndClass, TypeInv, RestInv
<1>6. JobsInv' /\ DirInv' /\ RestInv'
  BY <1>3, <1>4, <1>5, SameJobs, SameDir DEF TypeInv, RestInv, Index
<1> QED BY <1>2, <1>6 DEF TypeInv

LEMMA FaultType ==
  ASSUME RestInv, Fault
  PROVE  faults' \in 0..MaxFaults
BY Constants DEF RestInv, Fault

LEMMA ClassFailsType ==
  ASSUME TypeInv, NEW c \in Class, ClassFails(c)
  PROVE  TypeInv'
<1>1. worker[c].at = "writing" /\ EndWork(c, "failed") /\ Fault
      /\ UNCHANGED <<Jobs, Files, Index, Hist>>
  BY DEF ClassFails, Works
<1>2. PoolInv'
  BY <1>1, EndWorkPool DEF TypeInv
<1>3. JobsInv' /\ DirInv' /\ RestInv'
  BY <1>1, FaultType, SameJobs, SameDir DEF TypeInv, RestInv, Jobs, Files, Index, Hist
<1> QED BY <1>2, <1>3 DEF TypeInv

LEMMA FileTextType ==
  ASSUME TypeInv, NEW c \in Class
  PROVE  FileText(c) \in Text
BY DEF TypeInv, RestInv, FileText

LEMMA ReadClassType ==
  ASSUME TypeInv, NEW c \in Class, ReadClass(c)
  PROVE  TypeInv'
<1>1. worker[c].at = "read" /\ UNCHANGED <<Jobs, Files, Index, Hist, faults>>
  BY DEF ReadClass, Works
<1>2. PoolInv'
  <2>1. CASE EndWork(c, "none")
    BY <1>1, <2>1, EndWorkPool DEF TypeInv
  <2>2. CASE /\ worker' = [worker EXCEPT ![c].at = "store", ![c].text = FileText(c)]
             /\ UNCHANGED PoolRest
    <3>1. /\ worker' \in [Class -> Job] /\ worker'[c].at = "store"
          /\ \A d \in Class \ {c} : worker'[d] = worker[d]
      <4>1. FileText(c) \in Text /\ worker \in [Class -> Job]
        BY FileTextType DEF TypeInv, PoolInv, PoolOK
      <4> QED BY <2>2, <4>1 DEF Job
    <3> QED BY <2>2, <3>1, <1>1, WorkPool DEF TypeInv
  <2> QED BY <2>1, <2>2 DEF ReadClass
<1>3. JobsInv' /\ DirInv' /\ RestInv'
  BY <1>1, SameJobs, SameDir DEF TypeInv, RestInv, Jobs, Files, Index, Hist
<1> QED BY <1>2, <1>3 DEF TypeInv

LEMMA StoreClassType ==
  ASSUME TypeInv, NEW c \in Class, StoreClass(c)
  PROVE  TypeInv'
<1>1. worker[c].at = "store" /\ EndWork(c, "none")
      /\ UNCHANGED <<Jobs, Files, indexed, doubled, nameless, faults>>
  BY DEF StoreClass, Works
<1>2. PoolInv'
  BY <1>1, EndWorkPool DEF TypeInv
<1>3. rows' \in [Class -> Text] /\ late' \in SUBSET Class
  BY DEF StoreClass, TypeInv, PoolInv, PoolOK, Job, RestInv
<1>4. JobsInv' /\ DirInv' /\ RestInv'
  BY <1>1, <1>3, SameJobs, SameDir DEF TypeInv, RestInv, Jobs, Files
<1> QED BY <1>2, <1>4 DEF TypeInv

\* The steps of the build.
LEMMA BuildOnType ==
  ASSUME JobsInv, build.at # "idle", NEW at \in {"decompile", "mark", "poll", "names", "list"},
         BuildOn(at)
  PROVE  JobsInv' /\ build'.at = at /\ build'.of = build.of
<1>1. build' \in Build /\ build'.at = at /\ build'.of = build.of
  BY DEF BuildOn, JobsInv, Build
<1> QED BY <1>1, OnJobs DEF BuildOn

LEMMA OfVersion == JobsInv => build.of \in Version
BY DEF JobsInv, Build

LEMMA ScheduleType ==
  ASSUME TypeInv, NEW v \in Version, Schedule(v)
  PROVE  TypeInv'
<1>1. UNCHANGED <<Pool, naming, mcp, completed, Files, Index, Hist, faults>>
  BY DEF Schedule
<1> DEFINE jobs == [job EXCEPT ![v] = "none"]
           queued == [jobs EXCEPT ![v] = "queued"]
<1>2. job[v] \in {"none", "failed"} /\ \/ job' = jobs /\ UNCHANGED <<jobQueue, build>>
                                       \/ build.at = "idle" /\ Pump(queued, Append(jobQueue, v))
                                       \/ build.at # "idle" /\ job' = queued
                                          /\ jobQueue' = Append(jobQueue, v) /\ UNCHANGED build
  BY DEF Schedule
<1>3. /\ job \in [Version -> PrepState] /\ jobQueue \in Seq(Version) /\ IsInjective(jobQueue)
      /\ {u \in Version : job[u] = "queued"} = Range(jobQueue)
      /\ \A u \in Version : job[u] = "running" <=> build.at # "idle" /\ build.of = u
  BY DEF TypeInv, JobsInv
<1>4. v \notin Range(jobQueue)
  BY <1>2, <1>3
<1>5. /\ Append(jobQueue, v) \in Seq(Version) /\ IsInjective(Append(jobQueue, v))
      /\ Range(Append(jobQueue, v)) = Range(jobQueue) \cup {v}
  BY <1>3, <1>4, AppendOne
<1>6. /\ jobs \in [Version -> PrepState] /\ queued \in [Version -> PrepState]
      /\ \A u \in Version : /\ jobs[u] = IF u = v THEN "none" ELSE job[u]
                            /\ queued[u] = IF u = v THEN "queued" ELSE job[u]
  BY <1>3 DEF PrepState
<1> HIDE DEF jobs, queued
<1>7. {u \in Version : queued[u] = "queued"} = Range(Append(jobQueue, v))
  BY <1>3, <1>5, <1>6
<1>8. JobsInv' /\ (build'.at = "mark" => UNCHANGED build)
  <2>1. CASE job' = jobs /\ UNCHANGED <<jobQueue, build>>
    <3>1. {u \in Version : job'[u] = "queued"} = Range(jobQueue)
      BY <2>1, <1>2, <1>3, <1>6
    <3>2. \A u \in Version : job'[u] = "running" <=> build.at # "idle" /\ build.of = u
      BY <2>1, <1>2, <1>3, <1>6
    <3> QED BY <2>1, <3>1, <3>2, <1>3, <1>6 DEF TypeInv, JobsInv
  <2>2. CASE build.at = "idle" /\ Pump(queued, Append(jobQueue, v))
    <3>1. \A u \in Version : queued[u] # "running"
      BY <2>2, <1>3, <1>6
    <3> QED BY <2>2, <3>1, <1>5, <1>6, <1>7, PumpJobs
  <2>3. CASE build.at # "idle" /\ job' = queued
             /\ jobQueue' = Append(jobQueue, v) /\ UNCHANGED build
    <3>1. \A u \in Version : job'[u] = "running" <=> build.at # "idle" /\ build.of = u
      BY <2>3, <1>2, <1>3, <1>6
    <3> QED BY <2>3, <3>1, <1>5, <1>6, <1>7 DEF TypeInv, JobsInv
  <2> QED BY <2>1, <2>2, <2>3, <1>2
<1>9. PoolInv' /\ DirInv' /\ RestInv'
  BY <1>1, <1>8, SamePool, SameDir DEF TypeInv, RestInv, Files, Index, Hist
<1> QED BY <1>8, <1>9 DEF TypeInv

LEMMA CheckIndexedType ==
  ASSUME TypeInv, NEW v \in Version, CheckIndexed(v)
  PROVE  TypeInv'
<1>1. /\ build.of = v /\ build.at = "check"
      /\ UNCHANGED <<Pool, naming, mcp, Files, Index, Hist, faults>>
  BY DEF CheckIndexed, Builds
<1>2. JobsInv' /\ build'.at # "mark" /\ completed' \in SUBSET Version
  <2>1. CASE EndBuild(v)
    BY <2>1, <1>1, EndJobs DEF EndBuild, TypeInv, RestInv
  <2>2. CASE BuildOn("decompile") /\ UNCHANGED completed
    BY <2>2, <1>1, BuildOnType DEF TypeInv, RestInv
  <2> QED BY <2>1, <2>2 DEF CheckIndexed
<1>3. PoolInv' /\ DirInv' /\ RestInv'
  BY <1>1, <1>2, SamePool, SameDir DEF TypeInv, RestInv, Files, Index, Hist
<1> QED BY <1>2, <1>3 DEF TypeInv

LEMMA StartNamingType ==
  ASSUME RestInv, NEW v \in Version, StartNaming(v)
  PROVE  naming' \in [Version -> Naming]
BY DEF StartNaming, RestInv, Naming

LEMMA GoOnType ==
  ASSUME TypeInv, NEW v \in Version, GoOn(v)
  PROVE  TypeInv'
<1>1. /\ build.of = v /\ build.at = "decompile" /\ BuildOn("poll")
      /\ UNCHANGED <<Pool, mcp, completed, Files, Index, Hist, faults>>
  BY DEF GoOn, Builds
<1>2. JobsInv' /\ build'.at # "mark"
  BY <1>1, BuildOnType DEF TypeInv
<1>3. naming' \in [Version -> Naming]
  BY StartNamingType DEF GoOn, TypeInv, RestInv
<1>4. PoolInv' /\ DirInv' /\ RestInv'
  BY <1>1, <1>2, <1>3, SamePool, SameDir DEF TypeInv, RestInv, Files, Index, Hist
<1> QED BY <1>2, <1>4 DEF TypeInv

LEMMA PollType ==
  ASSUME TypeInv, NEW v \in Version, Poll(v)
  PROVE  TypeInv'
<1>1. /\ build.of = v /\ build.at = "poll"
      /\ UNCHANGED <<Pool, naming, mcp, completed, Files, Index, Hist, faults>>
  BY DEF Poll, Builds
<1>2. JobsInv' /\ build'.at # "mark"
  <2>1. CASE BuildOn(IF v \in Srg THEN "names" ELSE "list")
    BY <2>1, <1>1, BuildOnType DEF TypeInv
  <2>2. CASE FailBuild(v)
    BY <2>2, <1>1, EndJobs DEF FailBuild, TypeInv
  <2> QED BY <2>1, <2>2 DEF Poll
<1>3. PoolInv' /\ DirInv' /\ RestInv'
  BY <1>1, <1>2, SamePool, SameDir DEF TypeInv, RestInv, Files, Index, Hist
<1> QED BY <1>2, <1>3 DEF TypeInv

LEMMA BuildFailsType ==
  ASSUME TypeInv, NEW v \in Version, BuildFails(v)
  PROVE  TypeInv'
<1>1. /\ build.of = v /\ build.at # "idle" /\ Fault /\ FailBuild(v)
      /\ UNCHANGED <<Pool, naming, mcp, completed, Files, Index, Hist>>
  BY DEF BuildFails
<1>2. JobsInv' /\ build'.at # "mark"
  BY <1>1, EndJobs DEF FailBuild, TypeInv
<1>3. PoolInv' /\ DirInv' /\ RestInv'
  BY <1>1, <1>2, FaultType, SamePool, SameDir DEF TypeInv, RestInv, Files, Index, Hist
<1> QED BY <1>2, <1>3 DEF TypeInv

LEMMA AwaitNamesType ==
  ASSUME TypeInv, NEW v \in Version, AwaitNames(v)
  PROVE  TypeInv'
<1>1. /\ build.of = v /\ build.at = "names"
      /\ UNCHANGED <<Pool, mcp, completed, Files, Index, Hist, faults>>
  BY DEF AwaitNames, Builds
<1>2. JobsInv' /\ build'.at # "mark" /\ naming' \in [Version -> Naming]
  <2>1. CASE BuildOn("list") /\ UNCHANGED naming
    BY <2>1, <1>1, BuildOnType DEF TypeInv, RestInv
  <2>2. CASE StartNaming(v) /\ UNCHANGED <<job, jobQueue, build>>
    BY <2>2, <1>1, SameJobs, StartNamingType DEF TypeInv
  <2> QED BY <2>1, <2>2 DEF AwaitNames
<1>3. PoolInv' /\ DirInv' /\ RestInv'
  BY <1>1, <1>2, SamePool, SameDir DEF TypeInv, RestInv, Files, Index, Hist
<1> QED BY <1>2, <1>3 DEF TypeInv

LEMMA BeginNamingType ==
  ASSUME TypeInv, NEW v \in Version, BeginNaming(v)
  PROVE  TypeInv'
<1>1. UNCHANGED <<Pool, job, jobQueue, build, completed, Files, Index, Hist, faults>>
  BY DEF BeginNaming
<1>2. mcp' \in [Version -> {"unasked", "found", "missing"}]
  BY GetNamesIs DEF BeginNaming, TypeInv
<1>3. naming' \in [Version -> Naming]
  BY DEF BeginNaming, TypeInv, RestInv, Naming, ClassesOf
<1> QED BY <1>1, <1>2, <1>3, SamePool, SameJobs, SameDir DEF TypeInv, RestInv, Files, Index, Hist

LEMMA ReplaceNamesType ==
  ASSUME TypeInv, NEW c \in Class, ReplaceNames(c)
  PROVE  TypeInv'
<1>1. UNCHANGED <<Pool, job, jobQueue, build, mcp, completed, dir, priority, Index, Hist, faults>>
  BY DEF ReplaceNames
<1>2. standard' \in [Class -> Text]
  BY DEF ReplaceNames, TypeInv, RestInv, Text
<1>3. naming' \in [Version -> Naming]
  <2> DEFINE v == VersionOf[c]
  <2>1. v \in Version /\ naming \in [Version -> Naming]
    BY Constants DEF TypeInv, RestInv
  <2>2. naming' = [naming EXCEPT ![v].left = @ \ {c}]
    BY DEF ReplaceNames
  <2>3. [naming[v] EXCEPT !.left = @ \ {c}] \in Naming
    BY <2>1 DEF Naming
  <2> QED BY <2>1, <2>2, <2>3 DEF Naming
<1> QED BY <1>1, <1>2, <1>3, SamePool, SameJobs, SameDir DEF TypeInv, RestInv, Index, Hist

\* The naming job fails, and a build that awaits it with it.
LEMMA DropNamingType ==
  ASSUME TypeInv, NEW v \in Version, DropNaming(v), faults' \in 0..MaxFaults
  PROVE  TypeInv'
<1>1. UNCHANGED <<Pool, mcp, completed, Files, Index, Hist>>
  BY DEF DropNaming
<1>2. naming' \in [Version -> Naming]
  BY DEF DropNaming, TypeInv, RestInv, Naming, NoNaming
<1>3. JobsInv' /\ (build'.at = "mark" => UNCHANGED build)
  <2>1. CASE UNCHANGED <<job, jobQueue, build>>
    BY <2>1, SameJobs DEF TypeInv
  <2>2. CASE build.at = "names" /\ build.of = v /\ FailBuild(v)
    BY <2>2, EndJobs DEF TypeInv, FailBuild
  <2> QED BY <2>1, <2>2 DEF DropNaming, Builds
<1> QED BY <1>1, <1>2, <1>3, SamePool, SameDir DEF TypeInv, RestInv, Files, Index, Hist

LEMMA ListFilesType ==
  ASSUME TypeInv, NEW v \in Version, ListFiles(v)
  PROVE  TypeInv'
<1>1. /\ build.of = v /\ build.at = "list"
      /\ UNCHANGED <<Pool, naming, mcp, completed, Files, Index, Hist, faults>>
  BY DEF ListFiles, Builds
<1>2. JobsInv' /\ build'.at # "mark"
  <2>1. CASE FailBuild(v)
    BY <2>1, <1>1, EndJobs DEF FailBuild, TypeInv
  <2>2. CASE ~FailBuild(v)
    <3> DEFINE files == {c \in ClassesOf(v) : standard[c] # "none"}
    <3>1. /\ build' = [build EXCEPT !.at = "index", !.left = files]
          /\ UNCHANGED <<job, jobQueue>>
      BY <2>2 DEF ListFiles
    <3>2. files \in SUBSET Class
      BY DEF ClassesOf
    <3> HIDE DEF files
    <3>3. build' \in Build /\ build'.at = "index" /\ build'.of = build.of
      BY <3>1, <3>2 DEF TypeInv, JobsInv, Build
    <3> QED BY <3>1, <3>3, <1>1, OnJobs DEF TypeInv
  <2> QED BY <2>1, <2>2
<1>3. PoolInv' /\ DirInv' /\ RestInv'
  BY <1>1, <1>2, SamePool, SameDir DEF TypeInv, RestInv, Files, Index, Hist
<1> QED BY <1>2, <1>3 DEF TypeInv

LEMMA IndexFileType ==
  ASSUME TypeInv, NEW v \in Version, NEW c \in Class, IndexFile(v, c)
  PROVE  TypeInv'
<1>1. /\ build.of = v /\ build.at = "index" /\ build' = [build EXCEPT !.left = @ \ {c}]
      /\ UNCHANGED <<Pool, job, jobQueue, naming, mcp, completed, Files, indexed, Hist, faults>>
  BY DEF IndexFile, Builds
<1>2. build' \in Build /\ build'.at = "index" /\ build'.of = build.of
  BY <1>1 DEF TypeInv, JobsInv, Build
<1>3. JobsInv'
  BY <1>1, <1>2, OnJobs DEF TypeInv
<1>4. rows' \in [Class -> Text]
  BY DEF IndexFile, TypeInv, RestInv
<1>5. PoolInv' /\ DirInv' /\ RestInv'
  BY <1>1, <1>2, <1>4, SamePool, SameDir DEF TypeInv, RestInv, Files, Hist
<1> QED BY <1>3, <1>5 DEF TypeInv

LEMMA MarkIndexedType ==
  ASSUME TypeInv, NEW v \in Version, MarkIndexed(v)
  PROVE  TypeInv'
<1>1. /\ build.of = v /\ build.at = "index" /\ EndBuild(v)
      /\ UNCHANGED <<Pool, naming, mcp, Files, rows, Hist, faults>>
  BY DEF MarkIndexed, Builds
<1>2. JobsInv' /\ build'.at # "mark" /\ completed' \in SUBSET Version
  BY <1>1, EndJobs DEF EndBuild, TypeInv, RestInv
<1>3. indexed' \in [Version -> BOOLEAN]
  BY DEF MarkIndexed, TypeInv, RestInv
<1>4. PoolInv' /\ DirInv' /\ RestInv'
  BY <1>1, <1>2, <1>3, SamePool, SameDir DEF TypeInv, RestInv, Files, Hist
<1> QED BY <1>2, <1>4 DEF TypeInv

\* What the steps that write in a directory leave in it.
Only(v, n) ==
  /\ dir' \in [Version -> Directory]
  /\ \A u \in Version \ {v} : dir'[u] = dir[u]
  /\ \A m \in Run \ {n} : dir'[v].proc[m] = dir[v].proc[m]

LEMMA SpawnDir ==
  ASSUME dir \in [Version -> Directory], NEW v \in Version, NEW n \in Run,
         dir' = [dir EXCEPT ![v] = [done |-> FALSE, error |-> FALSE, named |-> FALSE,
           running |-> dir[v].running,
           proc |-> [dir[v].proc EXCEPT ![n] =
                       [state |-> "child", todo |-> ClassesOf(v), on |-> {}]]]]
  PROVE  /\ Only(v, n) /\ dir'[v].done = FALSE /\ dir'[v].named = FALSE
         /\ dir'[v].proc[n] = [state |-> "child", todo |-> ClassesOf(v), on |-> {}]
<1> DEFINE p == [state |-> "child", todo |-> ClassesOf(v), on |-> {}]
           procs == [dir[v].proc EXCEPT ![n] = p]
           d == [done |-> FALSE, error |-> FALSE, named |-> FALSE,
                 running |-> dir[v].running, proc |-> procs]
<1>1. p \in Process /\ FALSE \in BOOLEAN
  BY DEF Process, ClassesOf
<1>2. dir' = [dir EXCEPT ![v] = d]
  OBVIOUS
<1>3. dir[v].proc \in [Run -> Process] /\ dir[v].running \in 0..MaxRuns
  BY DEF Directory
<1> HIDE DEF p
<1>4. /\ procs \in [Run -> Process] /\ procs[n] = p
      /\ \A m \in Run \ {n} : procs[m] = dir[v].proc[m]
  BY <1>1, <1>3
<1> HIDE DEF procs
<1>5. d \in Directory /\ d.done = FALSE /\ d.named = FALSE /\ d.proc = procs
  BY <1>3, <1>4 DEF Directory
<1> HIDE DEF d
<1>6. /\ dir' \in [Version -> Directory] /\ dir'[v] = d
      /\ \A u \in Version \ {v} : dir'[u] = dir[u]
  BY <1>2, <1>5
<1> QED BY <1>4, <1>5, <1>6 DEF Only, p

LEMMA ProcessDir ==
  ASSUME dir \in [Version -> Directory], NEW v \in Version, NEW n \in Run, NEW p \in Process,
         dir' = [dir EXCEPT ![v].proc[n] = p]
  PROVE  /\ Only(v, n) /\ dir'[v].done = dir[v].done /\ dir'[v].named = dir[v].named
         /\ dir'[v].proc[n] = p
<1> DEFINE procs == [dir[v].proc EXCEPT ![n] = p]
           d == [dir[v] EXCEPT !.proc = procs]
<1>1. dir[v] \in Directory /\ dir[v].proc \in [Run -> Process]
  BY DEF Directory
<1>2. /\ procs \in [Run -> Process] /\ procs[n] = p
      /\ \A m \in Run \ {n} : procs[m] = dir[v].proc[m]
  BY <1>1
<1>3. dir' = [dir EXCEPT ![v] = d]
  BY Zenon
<1> HIDE DEF procs
<1>4. /\ d \in Directory /\ d.done = dir[v].done /\ d.named = dir[v].named /\ d.proc = procs
  BY <1>1, <1>2 DEF Directory
<1> HIDE DEF d
<1>5. /\ dir' \in [Version -> Directory] /\ dir'[v] = d
      /\ \A u \in Version \ {v} : dir'[u] = dir[u]
  BY <1>3, <1>4
<1> QED BY <1>2, <1>4, <1>5 DEF Only

LEMMA BeginFileDir ==
  ASSUME dir \in [Version -> Directory], NEW v \in Version, NEW n \in Run, NEW c \in Class,
         BeginFile(v, n, c)
  PROVE  /\ Only(v, n) /\ dir'[v].done = dir[v].done /\ dir'[v].named = dir[v].named
         /\ dir'[v].proc[n] = [dir[v].proc[n] EXCEPT !.on = {c}]
<1> DEFINE p == [dir[v].proc[n] EXCEPT !.on = {c}]
<1>1. dir' = [dir EXCEPT ![v].proc[n] = p]
  BY DEF BeginFile
<1>2. p \in Process
  <2>1. dir[v].proc[n] \in Process /\ {c} \in SUBSET Class
    BY DEF Directory
  <2> QED BY <2>1 DEF Process
<1> HIDE DEF p
<1>3. /\ Only(v, n) /\ dir'[v].done = dir[v].done /\ dir'[v].named = dir[v].named
      /\ dir'[v].proc[n] = p
  BY <1>1, <1>2, ProcessDir, Zenon
<1> QED BY <1>3 DEF p

LEMMA EndFileDir ==
  ASSUME dir \in [Version -> Directory], NEW v \in Version, NEW n \in Run, NEW c \in Class,
         EndFile(v, n, c)
  PROVE  /\ Only(v, n) /\ dir'[v].done = dir[v].done /\ dir'[v].named = dir[v].named
         /\ dir'[v].proc[n].state = dir[v].proc[n].state
         /\ dir'[v].proc[n].todo = dir[v].proc[n].todo \ {c} /\ dir'[v].proc[n].on = {}
<1> DEFINE p == [state |-> dir[v].proc[n].state, todo |-> dir[v].proc[n].todo \ {c}, on |-> {}]
<1>1. dir' = [dir EXCEPT ![v].proc[n] = p]
  BY Zenon DEF EndFile
<1>2. p \in Process
  <2>1. dir[v].proc[n] \in Process
    BY DEF Directory
  <2> QED BY <2>1 DEF Process
<1>3. p.state = dir[v].proc[n].state /\ p.todo = dir[v].proc[n].todo \ {c} /\ p.on = {}
  OBVIOUS
<1> HIDE DEF p
<1>4. /\ Only(v, n) /\ dir'[v].done = dir[v].done /\ dir'[v].named = dir[v].named
      /\ dir'[v].proc[n] = p
  BY <1>1, <1>2, ProcessDir, Zenon
<1> QED BY <1>3, <1>4

LEMMA EndsDir ==
  ASSUME dir \in [Version -> Directory], NEW v \in Version, NEW n \in Run, NEW good \in BOOLEAN,
         Ends(v, n, good)
  PROVE  /\ Only(v, n) /\ dir'[v].named = dir[v].named
         /\ dir'[v].done <=> dir[v].done \/ (dir[v].proc[n].state = "child" /\ good)
         /\ dir'[v].proc[n].state = "dead" /\ dir'[v].proc[n].todo = dir[v].proc[n].todo
         /\ dir'[v].proc[n].on = dir[v].proc[n].on
<1> DEFINE p == [dir[v].proc[n] EXCEPT !.state = "dead"]
           procs == [dir[v].proc EXCEPT ![n].state = "dead"]
           child == dir[v].proc[n].state = "child"
           d == [done |-> dir[v].done \/ (child /\ good), error |-> dir[v].error \/ (child /\ ~good),
                 named |-> dir[v].named, running |-> IF child THEN 0 ELSE dir[v].running,
                 proc |-> procs]
<1>1. /\ dir[v] \in Directory /\ dir[v].proc \in [Run -> Process] /\ dir[v].proc[n] \in Process
      /\ dir[v].running \in 0..MaxRuns /\ 0 \in 0..MaxRuns
  BY Constants DEF Directory
<1>2. /\ p \in Process /\ p.state = "dead" /\ p.todo = dir[v].proc[n].todo
      /\ p.on = dir[v].proc[n].on
  BY <1>1 DEF Process
<1>3. dir' = [dir EXCEPT ![v] = d]
  BY Zenon DEF Ends
<1>4. procs = [dir[v].proc EXCEPT ![n] = p]
  BY Zenon
<1> HIDE DEF p, procs, child
<1>5. /\ procs \in [Run -> Process] /\ procs[n] = p
      /\ \A m \in Run \ {n} : procs[m] = dir[v].proc[m]
  BY <1>1, <1>2, <1>4
<1>6. /\ d.named = dir[v].named /\ d.proc = procs
      /\ d.done = (dir[v].done \/ (child /\ good))
  OBVIOUS
<1>7. d \in Directory
  <2>1. /\ (dir[v].done \/ (child /\ good)) \in BOOLEAN
        /\ (dir[v].error \/ (child /\ ~good)) \in BOOLEAN
    BY Zenon
  <2>2. dir[v].named \in BOOLEAN /\ (IF child THEN 0 ELSE dir[v].running) \in 0..MaxRuns
    BY <1>1 DEF Directory
  <2> QED BY <2>1, <2>2, <1>5 DEF Directory
<1> HIDE DEF d
<1>8. /\ dir' \in [Version -> Directory] /\ dir'[v] = d
      /\ \A u \in Version \ {v} : dir'[u] = dir[u]
  BY <1>3, <1>7
<1> QED BY <1>2, <1>5, <1>6, <1>8 DEF Only, child

LEMMA RestartDir ==
  ASSUME dir \in [Version -> Directory], Restart
  PROVE  /\ dir' \in [Version -> Directory]
         /\ \A v \in Version : dir'[v].done = dir[v].done /\ dir'[v].named = dir[v].named
         /\ \A v \in Version, n \in Run :
              /\ dir'[v].proc[n].todo = dir[v].proc[n].todo /\ dir'[v].proc[n].on = dir[v].proc[n].on
              /\ dir'[v].proc[n].state = IF dir[v].proc[n].state = "child" THEN "orphan"
                                         ELSE dir[v].proc[n].state
<1> DEFINE p(v, n) == [dir[v].proc[n] EXCEPT !.state = IF @ = "child" THEN "orphan" ELSE @]
           d(v) == [dir[v] EXCEPT !.proc = [n \in Run |-> p(v, n)]]
<1>1. dir' = [v \in Version |-> d(v)]
  BY Zenon DEF Restart
<1>2. ASSUME NEW v \in Version
      PROVE  /\ d(v) \in Directory /\ d(v).done = dir[v].done /\ d(v).named = dir[v].named
             /\ \A n \in Run :
                  /\ d(v).proc[n].todo = dir[v].proc[n].todo /\ d(v).proc[n].on = dir[v].proc[n].on
                  /\ d(v).proc[n].state = IF dir[v].proc[n].state = "child" THEN "orphan"
                                          ELSE dir[v].proc[n].state
  <2>1. dir[v] \in Directory /\ dir[v].proc \in [Run -> Process]
    BY DEF Directory
  <2>2. ASSUME NEW n \in Run
        PROVE  /\ p(v, n) \in Process /\ p(v, n).todo = dir[v].proc[n].todo
               /\ p(v, n).on = dir[v].proc[n].on
               /\ p(v, n).state = IF dir[v].proc[n].state = "child" THEN "orphan"
                                  ELSE dir[v].proc[n].state
    BY <2>1 DEF Process
  <2> HIDE DEF p
  <2>3. [n \in Run |-> p(v, n)] \in [Run -> Process]
    BY <2>2
  <2>4. /\ d(v) \in Directory /\ d(v).done = dir[v].done /\ d(v).named = dir[v].named
        /\ d(v).proc = [n \in Run |-> p(v, n)]
    BY <2>1, <2>3 DEF Directory
  <2> HIDE DEF d
  <2> QED BY <2>2, <2>4
<1> HIDE DEF d
<1> QED BY <1>1, <1>2

\* A step of a run, or the end of one.
LEMMA OnlyUsed ==
  ASSUME DirInv, NEW v \in Version, NEW n \in Run, Only(v, n),
         dir'[v].proc[n].state # "none", dir[v].proc[n].state # "none",
         UNCHANGED build, build.of \in Version
  PROVE  DirInv'
<1>1. \A u \in Version, m \in Run :
         dir'[u].proc[m].state = "none" <=> dir[u].proc[m].state = "none"
  BY DEF Only
<1> QED BY <1>1, UsedDir DEF Only

LEMMA WritingState ==
  ASSUME NEW v, NEW n, Writing(v, n)
  PROVE  n \in Run /\ dir[v].proc[n].state \in {"child", "orphan"}
BY DEF Writing, Alive

LEMMA BeginFileType ==
  ASSUME TypeInv, NEW v \in Version, NEW n \in Run, NEW c \in Class, BeginFile(v, n, c)
  PROVE  TypeInv'
<1>1. UNCHANGED <<Pool, Jobs, priority, Index, Hist, faults>> /\ Writing(v, n)
  BY DEF BeginFile
<1>2. /\ Only(v, n) /\ dir'[v].proc[n] = [dir[v].proc[n] EXCEPT !.on = {c}]
      /\ dir[v].proc[n] \in Process
  BY BeginFileDir DEF TypeInv, DirInv, Directory
<1>3. dir[v].proc[n].state # "none" /\ dir'[v].proc[n].state # "none"
  BY <1>1, <1>2, WritingState DEF Process
<1>4. DirInv'
  BY <1>1, <1>2, <1>3, OnlyUsed, OfVersion DEF TypeInv, Jobs
<1>5. standard' \in [Class -> Text]
  BY DEF BeginFile, TypeInv, RestInv, Text
<1> QED BY <1>1, <1>4, <1>5, SamePool, SameJobs DEF TypeInv, RestInv, Jobs, Index, Hist

LEMMA EndFileType ==
  ASSUME TypeInv, NEW v \in Version, NEW n \in Run, NEW c \in Class, EndFile(v, n, c)
  PROVE  TypeInv'
<1>1. UNCHANGED <<Pool, Jobs, priority, Index, Hist, faults>> /\ Writing(v, n)
  BY DEF EndFile
<1>2. Only(v, n) /\ dir'[v].proc[n].state = dir[v].proc[n].state
  BY EndFileDir DEF TypeInv, DirInv
<1>3. dir[v].proc[n].state # "none" /\ dir'[v].proc[n].state # "none"
  BY <1>1, <1>2, WritingState
<1>4. DirInv'
  BY <1>1, <1>2, <1>3, OnlyUsed, OfVersion DEF TypeInv, Jobs
<1>5. standard' \in [Class -> Text]
  BY DEF EndFile, TypeInv, RestInv, Text
<1> QED BY <1>1, <1>4, <1>5, SamePool, SameJobs DEF TypeInv, RestInv, Jobs, Index, Hist

LEMMA EndsType ==
  ASSUME TypeInv, NEW v \in Version, NEW n \in Run, NEW good \in BOOLEAN, Ends(v, n, good),
         faults' \in 0..MaxFaults
  PROVE  TypeInv'
<1>1. UNCHANGED <<Pool, Jobs, standard, priority, Index, Hist>> /\ Writing(v, n)
  BY DEF Ends
<1>2. Only(v, n) /\ dir'[v].proc[n].state = "dead"
  BY EndsDir DEF TypeInv, DirInv
<1>3. dir[v].proc[n].state # "none"
  BY <1>1, WritingState
<1>4. DirInv'
  BY <1>1, <1>2, <1>3, OnlyUsed, OfVersion DEF TypeInv, Jobs
<1> QED BY <1>1, <1>4, SamePool, SameJobs DEF TypeInv, RestInv, Jobs, Index, Hist

\* The next run is the first that was not used.
LEMMA SpawnType ==
  ASSUME TypeInv, NEW v \in Version, Spawn(v)
  PROVE  TypeInv'
<1> DEFINE n == Cardinality({k \in Run : dir[v].proc[k].state # "none"}) + 1
<1>1. /\ build.of = v /\ build.at = "decompile" /\ BuildOn("mark") /\ n \in Run
      /\ UNCHANGED <<Pool, naming, mcp, completed, standard, priority, Index, late, nameless, faults>>
      /\ dir' = [dir EXCEPT ![v] = [done |-> FALSE, error |-> FALSE, named |-> FALSE,
           running |-> dir[v].running,
           proc |-> [dir[v].proc EXCEPT ![n] =
                       [state |-> "child", todo |-> ClassesOf(v), on |-> {}]]]]
  BY DEF Spawn, Builds
<1>2. PICK m \in 0..MaxRuns : Used(v) = 1..m
  BY DEF TypeInv, DirInv
<1>3. n = m + 1
  <2>1. m \in Int /\ 1 \in Int /\ m >= 0
    BY Constants
  <2>2. Cardinality(1..m) = IF 1 > m THEN 0 ELSE m - 1 + 1
    BY <2>1, FS_Interval
  <2>3. Cardinality(1..m) = m
    BY <2>1, <2>2
  <2>4. n = Cardinality(1..m) + 1
    BY <1>2, Zenon DEF Used
  <2> QED BY <2>3, <2>4
<1> HIDE DEF n
<1>4. Only(v, n) /\ dir'[v].proc[n].state = "child"
  <2>1. dir \in [Version -> Directory]
    BY DEF TypeInv, DirInv
  <2>2. Only(v, n) /\ dir'[v].proc[n] = [state |-> "child", todo |-> ClassesOf(v), on |-> {}]
    BY <2>1, <1>1, SpawnDir
  <2> QED BY <2>2
<1>5. JobsInv' /\ build'.at = "mark" /\ build'.of = v
  BY <1>1, BuildOnType DEF TypeInv
<1>6. {k \in Run : dir'[v].proc[k].state # "none"} = 1..n
  <2>1. \A k \in Run : k \in 1..n <=> k = n \/ dir[v].proc[k].state # "none"
    <3>1. \A k \in Run : k \in 1..m <=> dir[v].proc[k].state # "none"
      BY <1>2 DEF Used
    <3>2. \A k \in 1..n : k \in 1..m \/ k = n
      BY <1>3
    <3>3. n \in 1..n /\ 1..m \subseteq 1..n
      BY <1>3
    <3> QED BY <3>1, <3>2, <3>3
  <2>2. 1..n \subseteq Run
    BY <1>1, <1>3, Constants DEF Run
  <2> QED BY <2>1, <2>2, <1>4 DEF Only
<1>7. DirInv'
  <2>1. n \in 0..MaxRuns /\ n \in 1..n
    BY <1>1, <1>3, Constants DEF Run
  <2>2. \A u \in Version \ {v} : {k \in Run : dir'[u].proc[k].state # "none"} = Used(u)
    BY <1>4 DEF Only, Used
  <2>3. \A u \in Version : \E l \in 0..MaxRuns : {k \in Run : dir'[u].proc[k].state # "none"} = 1..l
    BY <2>1, <2>2, <1>6 DEF TypeInv, DirInv
  <2>4. {k \in Run : dir'[build'.of].proc[k].state # "none"} # {}
    BY <2>1, <1>5, <1>6
  <2> QED BY <2>3, <2>4, <1>4 DEF DirInv, Used, Only
<1>8. doubled' \in SUBSET Version
  BY DEF Spawn, TypeInv, RestInv
<1> QED BY <1>1, <1>5, <1>7, <1>8, SamePool DEF TypeInv, RestInv, Index

\* The pid is that of the last run.
LEMMA WritePidType ==
  ASSUME TypeInv, NEW v \in Version, WritePid(v)
  PROVE  TypeInv'
<1> DEFINE last(k) == dir[v].proc[k].state # "none"
                      /\ \A l \in Run : l > k => dir[v].proc[l].state = "none"
           n == CHOOSE k \in Run : last(k)
<1>1. /\ build.of = v /\ build.at = "mark" /\ BuildOn("poll")
      /\ dir' = [dir EXCEPT ![v].running = n]
      /\ UNCHANGED <<Pool, mcp, completed, standard, priority, Index, Hist, faults>>
  BY DEF WritePid, Builds
<1>2. PICK m \in 0..MaxRuns : Used(v) = 1..m /\ Used(v) # {}
  BY <1>1 DEF TypeInv, DirInv
<1>3. m \in Run /\ last(m)
  <2>1. m \in 1..m /\ \A l \in Run : l > m => l \notin 1..m
    BY <1>2, Constants
  <2> QED BY <2>1, <1>2 DEF Used
<1>4. n \in Run
  BY <1>3
<1> HIDE DEF n
<1>5. n \in 0..MaxRuns
  BY <1>4, Constants DEF Run
<1>6. /\ dir' \in [Version -> Directory]
      /\ \A u \in Version : dir'[u].proc = dir[u].proc
  BY <1>1, <1>5 DEF TypeInv, DirInv, Directory
<1>7. JobsInv' /\ build'.at = "poll"
  BY <1>1, BuildOnType DEF TypeInv
<1>8. DirInv'
  BY <1>6, <1>7, <1>1, UsedDir DEF TypeInv
<1>9. naming' \in [Version -> Naming]
  BY StartNamingType DEF WritePid, TypeInv, RestInv
<1> QED BY <1>1, <1>7, <1>8, <1>9, SamePool DEF TypeInv, RestInv, Index, Hist

LEMMA EndNamingType ==
  ASSUME TypeInv, NEW v \in Version, EndNaming(v)
  PROVE  TypeInv'
<1>1. UNCHANGED <<Pool, job, jobQueue, build, mcp, completed, standard, priority, Index, late,
                  doubled, faults>>
  BY DEF EndNaming
<1>2. naming' \in [Version -> Naming] /\ nameless' \in SUBSET Class
  BY DEF EndNaming, TypeInv, RestInv, Naming, NoNaming, ClassesOf
<1>3. /\ dir' \in [Version -> Directory]
      /\ \A u \in Version : dir'[u].proc = dir[u].proc
  BY DEF EndNaming, TypeInv, DirInv, Directory
<1>4. DirInv'
  BY <1>1, <1>3, UsedDir, OfVersion DEF TypeInv
<1> QED BY <1>1, <1>2, <1>4, SamePool, SameJobs DEF TypeInv, RestInv, Index

LEMMA RestartType ==
  ASSUME TypeInv, Restart
  PROVE  TypeInv'
<1>1. <<>> \in Seq(Class) /\ <<>> \in Seq(Version) /\ IsInjective(<<>>) /\ Range(<<>>) = {}
  BY DEF IsInjective, Range
<1>2. PoolInv'
  BY <1>1, Constants, FS_EmptySet DEF Restart, PoolInv, PoolOK, PrepState, Job, NoWork, Text
<1>3. (CHOOSE v \in Version : TRUE) \in Version
  BY Constants
<1>4. JobsInv' /\ build'.at = "idle"
  BY <1>1, <1>3 DEF Restart, JobsInv, PrepState, Build, NoBuild
<1>5. DirInv'
  BY <1>4, RestartDir, UsedDir, OfVersion DEF TypeInv, DirInv
<1>6. RestInv'
  BY FaultType DEF Restart, TypeInv, RestInv, Index, Hist, Naming, NoNaming
<1> QED BY <1>2, <1>4, <1>5, <1>6 DEF TypeInv

LEMMA TypeStep ==
  TypeInv /\ [Next]_vars => TypeInv'
<1> SUFFICES ASSUME TypeInv, [Next]_vars PROVE TypeInv'
  OBVIOUS
<1>1. ASSUME NEW c \in Class, Prepare(c) \/ Work(c) \/ ClassFails(c) PROVE TypeInv'
  BY <1>1, PrepareType, ChooseFileType, EndClassType, ClassFailsType, ReadClassType, StoreClassType
     DEF Work
<1>2. ASSUME NEW v \in Version, Schedule(v) \/ BuildFails(v) PROVE TypeInv'
  BY <1>2, ScheduleType, BuildFailsType
<1>3. ASSUME NEW v \in Version, NamingFails(v) \/ NamingBreaks(v) PROVE TypeInv'
  <2>1. DropNaming(v) /\ faults' \in 0..MaxFaults
    BY <1>3, FaultType DEF NamingFails, NamingBreaks, TypeInv, RestInv
  <2> QED BY <2>1, DropNamingType
<1>4. ASSUME NEW v \in Version, BuildStep(v) PROVE TypeInv'
  <2>1. \A c \in ClassesOf(v) : c \in Class
    BY DEF ClassesOf
  <2> QED BY <1>3, <1>4, <2>1, CheckIndexedType, GoOnType, SpawnType, WritePidType, PollType,
             AwaitNamesType, BeginNamingType, EndNamingType, ListFilesType, MarkIndexedType,
             IndexFileType, ReplaceNamesType
          DEF BuildStep
<1>5. ASSUME NEW v \in Version, NEW n \in Run, Vineflower(v, n) \/ Crashes(v, n) PROVE TypeInv'
  <2>1. CASE \E c \in Class : BeginFile(v, n, c) \/ EndFile(v, n, c)
    BY <2>1, BeginFileType, EndFileType
  <2>2. CASE Succeeds(v, n)
    BY <2>2, EndsType DEF Succeeds, TypeInv, RestInv
  <2>3. CASE Crashes(v, n)
    BY <2>3, EndsType, FaultType DEF Crashes, TypeInv
  <2> QED BY <1>5, <2>1, <2>2, <2>3 DEF Vineflower
<1>6. CASE UNCHANGED vars
  BY <1>6, SamePool, SameJobs, SameDir DEF vars, Pool, TypeInv, RestInv
<1> QED BY <1>1, <1>2, <1>3, <1>4, <1>5, <1>6, RestartType DEF Next
-----------------------------------------------------------------------------
(* What is indexed.                                                         *)

LEMMA InitSource == Init => SourceInv
<1> SUFFICES ASSUME Init PROVE SourceInv
  OBVIOUS
<1>1. ASSUME NEW v \in Version
      PROVE  /\ dir[v].done = FALSE /\ dir[v].named = FALSE /\ indexed[v] = FALSE
             /\ \A n \in Run : /\ dir[v].proc[n].state = "none" /\ dir[v].proc[n].todo = {}
                               /\ dir[v].proc[n].on = {}
  BY DEF Init, NoDir, NoProcess
<1>2. RunsPart
  BY <1>1 DEF RunsPart, TodoInv, RunsInv, Alive
<1>3. IndexPart
  BY <1>1 DEF IndexPart, IndexInv
<1>4. PriorityPart
  BY DEF Init, PriorityPart, PriorityInv, NoWork
<1>5. BuildInv
  BY DEF Init, BuildInv, NoBuild
<1>6. NamingPart
  BY DEF Init, NamingPart, NamingInv, NoNaming
<1> QED BY <1>2, <1>3, <1>4, <1>5, <1>6 DEF SourceInv

\* Each part holds as long as what it speaks of stays, or more classes pass for named.
LEMMA SameRuns ==
  ASSUME RunsPart, UNCHANGED <<dir, standard, doubled>>, nameless \subseteq nameless'
  PROVE  RunsPart'
BY DEF RunsPart, TodoInv, RunsInv, Alive, Written, AllNamed, Named

LEMMA SameIndex ==
  ASSUME IndexPart, UNCHANGED <<rows, indexed, dir, standard, late, doubled>>,
         nameless \subseteq nameless'
  PROVE  IndexPart'
BY DEF IndexPart, IndexInv, AllNamed, Named, Stored

LEMMA SameNaming ==
  ASSUME NamingPart, UNCHANGED <<naming, mcp, dir, standard, doubled>>
  PROVE  NamingPart'
BY DEF NamingPart, NamingInv

LEMMA StartNamingPart ==
  ASSUME RestInv, NamingPart, NEW v \in Version, StartNaming(v) \/ UNCHANGED naming,
         UNCHANGED <<mcp, standard, doubled>>,
         \A u \in Version : dir'[u].done = dir[u].done
  PROVE  NamingPart'
<1>1. \A u \in Version : naming'[u].at = "walking" => naming'[u] = naming[u]
  BY DEF StartNaming, RestInv, Naming
<1> QED BY <1>1 DEF NamingPart, NamingInv

LEMMA SameBuild ==
  ASSUME BuildInv, UNCHANGED <<build, rows, dir, standard, late, doubled>>,
         nameless \subseteq nameless'
  PROVE  BuildInv'
BY DEF BuildInv, AllNamed, Named, Stored

LEMMA EarlyBuild ==
  ASSUME build'.at \notin {"names", "list", "index"}
  PROVE  BuildInv'
BY DEF BuildInv

LEMMA PumpBuild ==
  ASSUME NEW jobs, NEW queue, Pump(jobs, queue)
  PROVE  BuildInv'
<1>1. build'.at \in {"check", "idle"}
  <2>1. CASE queue # <<>>
    <3>1. build' = [NoBuild EXCEPT !.at = "check", !.of = Head(queue)]
      BY <2>1 DEF Pump
    <3> QED BY <3>1 DEF NoBuild
  <2>2. CASE queue = <<>>
    BY <2>2 DEF Pump, NoBuild
  <2> QED BY <2>1, <2>2
<1> QED BY <1>1, EarlyBuild

\* Only the worker that goes on matters; one that starts or ends has no text.
LEMMA WorkerPriority ==
  ASSUME PriorityPart, NEW c \in Class, UNCHANGED <<priority, nameless>>,
         \A d \in Class : worker'[d].at \in {"read", "store"} =>
           worker'[d].from = worker[d].from /\ worker[d].at \in {"read", "store"}
  PROVE  PriorityPart'
BY DEF PriorityPart, PriorityInv

LEMMA RunWorkers ==
  ASSUME NEW p, NEW q \in Seq(Class), NEW a, NEW b, NEW w \in [Class -> Job],
         RunPreparations(p, q, a, b, w), NEW d \in Class, worker'[d].at \in {"read", "store"}
  PROVE  worker'[d].from = w[d].from /\ w[d].at \in {"read", "store"}
<1> DEFINE next == {i \in DOMAIN q : VersionOf[q[i]] \notin b}
           i == CHOOSE k \in next : \A l \in next : k <= l
<1>1. CASE a < Slots /\ next # {}
  <2>1. worker' = [w EXCEPT ![q[i]].at = "check"]
    BY <1>1, Zenon DEF RunPreparations
  <2> DEFINE e == q[i]
  <2>2. worker' = [w EXCEPT ![e].at = "check"]
    BY <2>1
  <2> HIDE DEF e
  <2> QED BY <2>2 DEF Job
<1>2. CASE ~(a < Slots /\ next # {})
  BY <1>2, Zenon DEF RunPreparations
<1> QED BY <1>1, <1>2

LEMMA EndWorkPriority ==
  ASSUME TypeInv, PriorityPart, UNCHANGED <<priority, nameless>>, NEW c \in Class, NEW state, EndWork(c, state)
  PROVE  PriorityPart'
<1> DEFINE w == [worker EXCEPT ![c] = NoWork]
<1>1. prepQueue \in Seq(Class) /\ worker \in [Class -> Job]
  BY DEF TypeInv, PoolInv, PoolOK
<1>2. /\ w \in [Class -> Job]
      /\ \A d \in Class : w[d].at \in {"read", "store"} => w[d] = worker[d]
  BY <1>1 DEF NoWork, Job, Text
<1>3. RunPreparations([prep EXCEPT ![c] = state], prepQueue, active - 1, busy \ {VersionOf[c]}, w)
  BY DEF EndWork
<1> HIDE DEF w
<1>4. ASSUME NEW d \in Class, worker'[d].at \in {"read", "store"}
      PROVE  worker'[d].from = worker[d].from /\ worker[d].at \in {"read", "store"}
  <2>1. worker'[d].from = w[d].from /\ w[d].at \in {"read", "store"}
    BY <1>1, <1>2, <1>3, <1>4, RunWorkers
  <2> QED BY <2>1, <1>2
<1> QED BY <1>4, WorkerPriority

\* The steps that prepare a class.
LEMMA PrepareSource ==
  ASSUME TypeInv, SourceInv, NEW c \in Class, Prepare(c)
  PROVE  SourceInv'
<1>1. UNCHANGED <<Jobs, Files, Index, Hist, faults>>
  BY DEF Prepare
<1>2. PriorityPart'
  <2>1. PICK over \in BOOLEAN :
          LET states == IF over THEN [prep EXCEPT ![c] = "none"] ELSE prep IN
          \/ UNCHANGED worker
          \/ RunPreparations([states EXCEPT ![c] = "queued"], Append(prepQueue, c), active, busy, worker)
    BY Zenon DEF Prepare
  <2> DEFINE states == IF over THEN [prep EXCEPT ![c] = "none"] ELSE prep
             p == [states EXCEPT ![c] = "queued"]
  <2>2. \/ UNCHANGED worker
        \/ RunPreparations(p, Append(prepQueue, c), active, busy, worker)
    BY <2>1
  <2> HIDE DEF p
  <2>3. Append(prepQueue, c) \in Seq(Class) /\ worker \in [Class -> Job]
    BY AppendProperties DEF TypeInv, PoolInv, PoolOK
  <2>4. \A d \in Class : worker'[d].at \in {"read", "store"} =>
           worker'[d].from = worker[d].from /\ worker[d].at \in {"read", "store"}
    BY <2>2, <2>3, RunWorkers
  <2> QED BY <1>1, <2>4, WorkerPriority DEF SourceInv, Files, Hist
<1> QED BY <1>1, <1>2, SameRuns, SameIndex, SameNaming, SameBuild DEF SourceInv, Jobs, Files, Index, Hist

LEMMA ChooseFileSource ==
  ASSUME TypeInv, SourceInv, NEW c \in Class, ChooseFile(c)
  PROVE  SourceInv'
<1>1. UNCHANGED <<PoolRest, Jobs, dir, standard, Index, Hist, faults>>
  BY DEF ChooseFile
<1>2. /\ worker \in [Class -> Job] /\ priority \in [Class -> [text : Text, ready : BOOLEAN]]
  BY DEF TypeInv, PoolInv, PoolOK, RestInv
<1>3. /\ priority' \in [Class -> [text : Text, ready : BOOLEAN]]
      /\ \A d \in Class : /\ priority'[d].ready = priority[d].ready
                          /\ priority[d].ready => priority'[d].text = priority[d].text
      /\ \A d \in Class \ {c} : worker'[d] = worker[d]
      /\ worker'[c].at = "read" /\ worker'[c].from = "priority" => priority[c].ready
      /\ worker'[c].at # "store"
  BY <1>2 DEF ChooseFile, Job, Text
<1>4. PriorityPart'
  <2> SUFFICES ASSUME NEW d \in Class PROVE PriorityInv(d)'
    BY DEF PriorityPart
  <2>1. PriorityInv(d) /\ nameless' = nameless
    BY <1>1 DEF SourceInv, PriorityPart, Hist
  <2>2. /\ priority'[d].ready = priority[d].ready
        /\ priority[d].ready => priority'[d].text = priority[d].text
    BY <1>3
  <2>3. CASE d # c
    BY <2>1, <2>2, <2>3, <1>3 DEF PriorityInv
  <2>4. CASE d = c
    BY <2>1, <2>2, <2>4, <1>3 DEF PriorityInv
  <2> QED BY <2>3, <2>4
<1> QED BY <1>1, <1>4, SameRuns, SameIndex, SameNaming, SameBuild DEF SourceInv, Jobs, Index, Hist

LEMMA EndClassSource ==
  ASSUME TypeInv, SourceInv, NEW c \in Class, EndClass(c)
  PROVE  SourceInv'
<1> DEFINE v == VersionOf[c]
<1>1. /\ UNCHANGED <<job, jobQueue, build, naming, dir, standard, Index, late, doubled>>
      /\ nameless \subseteq nameless'
  BY DEF EndClass
<1>2. /\ worker \in [Class -> Job] /\ priority \in [Class -> [text : Text, ready : BOOLEAN]]
  BY DEF TypeInv, PoolInv, PoolOK, RestInv
<1>3. /\ \A d \in Class \ {c} : priority'[d] = priority[d] /\ worker'[d] = worker[d]
      /\ priority'[c].ready
      /\ priority'[c].text = "whole" \/ (priority'[c].text = "raw" /\ c \in nameless')
  BY <1>2 DEF EndClass, WorkOn
<1>4. PriorityPart'
  BY <1>1, <1>3 DEF SourceInv, PriorityPart, PriorityInv
<1>5. v \in Version
  BY Constants
<1> HIDE DEF v
<1>6. \A u \in Version : mcp[u] # "unasked" => mcp'[u] = mcp[u]
  <2>1. GetNames(v) \/ UNCHANGED mcp
    BY DEF EndClass, v
  <2> QED BY <2>1, <1>5, GetNamesIs DEF TypeInv
<1>7. NamingPart'
  BY <1>1, <1>6 DEF SourceInv, NamingPart, NamingInv
<1> QED BY <1>1, <1>4, <1>7, SameRuns, SameIndex, SameBuild DEF SourceInv, Index

LEMMA ClassFailsSource ==
  ASSUME TypeInv, SourceInv, NEW c \in Class, ClassFails(c)
  PROVE  SourceInv'
<1>1. UNCHANGED <<Jobs, Files, Index, Hist>> /\ EndWork(c, "failed")
  BY DEF ClassFails
<1> QED BY <1>1, EndWorkPriority, SameRuns, SameIndex, SameNaming, SameBuild
        DEF SourceInv, Jobs, Files, Index, Hist

LEMMA ReadClassSource ==
  ASSUME TypeInv, SourceInv, NEW c \in Class, ReadClass(c)
  PROVE  SourceInv'
<1>1. worker[c].at = "read" /\ UNCHANGED <<Jobs, Files, Index, Hist, faults>>
  BY DEF ReadClass, Works
<1>2. PriorityPart'
  <2>1. CASE EndWork(c, "none")
    BY <2>1, <1>1, EndWorkPriority DEF SourceInv, Files, Hist
  <2>2. CASE ~EndWork(c, "none")
    <3>1. worker' = [worker EXCEPT ![c].at = "store", ![c].text = FileText(c)]
      BY <2>2 DEF ReadClass
    <3>2. worker \in [Class -> Job]
      BY DEF TypeInv, PoolInv, PoolOK
    <3>3. /\ \A d \in Class : worker'[d].from = worker[d].from
          /\ \A d \in Class \ {c} : worker'[d].at = worker[d].at
      BY <3>1, <3>2 DEF Job
    <3> QED BY <3>3, <1>1, WorkerPriority DEF SourceInv, Files, Hist
  <2> QED BY <2>1, <2>2
<1> QED BY <1>1, <1>2, SameRuns, SameIndex, SameNaming, SameBuild DEF SourceInv, Jobs, Files, Index, Hist

\* The text a worker stores has its names, unless the file changed after it was read.
LEMMA StoreClassSource ==
  ASSUME TypeInv, SourceInv, NEW c \in Class, StoreClass(c)
  PROVE  SourceInv'
<1>1. /\ worker[c].at = "store" /\ EndWork(c, "none")
      /\ rows' = [rows EXCEPT ![c] = worker[c].text]
      /\ late' = IF worker[c].text = FileText(c) THEN late ELSE late \cup {c}
      /\ UNCHANGED <<Jobs, Files, indexed, doubled, nameless, faults>>
  BY DEF StoreClass, Works
<1>2. PriorityPart' /\ RunsPart' /\ NamingPart'
  BY <1>1, EndWorkPriority, SameRuns, SameNaming DEF SourceInv, Files, Jobs, Hist
<1>3. /\ late \subseteq late'
      /\ \A d \in Class \ {c} : rows'[d] = rows[d]
      /\ c \notin late' => rows'[c] = FileText(c)
  BY <1>1 DEF TypeInv, RestInv
<1>4. c \notin late' /\ Named(c) => rows'[c] = "whole" \/ (rows'[c] = "raw" /\ c \in nameless)
  BY <1>1, <1>3 DEF FileText, Named, SourceInv, PriorityPart, PriorityInv
<1>5. \A v \in Version : c \in ClassesOf(v) /\ AllNamed(v) => Named(c)
  BY DEF AllNamed
<1>6. IndexPart'
  BY <1>1, <1>3, <1>4, <1>5
     DEF SourceInv, IndexPart, IndexInv, AllNamed, Named, Stored, Files, ClassesOf
<1>7. BuildInv'
  <2>1. build.of \in Version
    BY OfVersion DEF TypeInv
  <2> QED BY <2>1, <1>1, <1>3, <1>4, <1>5
          DEF SourceInv, BuildInv, AllNamed, Named, Stored, Files, Jobs, ClassesOf
<1> QED BY <1>2, <1>6, <1>7 DEF SourceInv

\* The steps of a build.
LEMMA FrameSource ==
  ASSUME SourceInv, UNCHANGED <<Pool, Files, Index, Hist>>, NamingPart', BuildInv'
  PROVE  SourceInv'
BY SameRuns, SameIndex DEF SourceInv, Pool, Files, Index, Hist, PriorityPart, PriorityInv

LEMMA ScheduleSource ==
  ASSUME TypeInv, SourceInv, NEW v \in Version, Schedule(v)
  PROVE  SourceInv'
<1>1. UNCHANGED <<Pool, naming, mcp, completed, Files, Index, Hist, faults>>
  BY DEF Schedule
<1>2. UNCHANGED build \/ \E jobs, queue : Pump(jobs, queue)
  BY Zenon DEF Schedule
<1>3. BuildInv'
  BY <1>1, <1>2, SameBuild, PumpBuild DEF SourceInv, Files, Index, Hist
<1>4. NamingPart'
  BY <1>1, SameNaming DEF SourceInv, Files, Hist
<1> QED BY <1>1, <1>3, <1>4, FrameSource

LEMMA CheckIndexedSource ==
  ASSUME TypeInv, SourceInv, NEW v \in Version, CheckIndexed(v)
  PROVE  SourceInv'
<1>1. build.at = "check" /\ UNCHANGED <<Pool, naming, mcp, Files, Index, Hist, faults>>
  BY DEF CheckIndexed, Builds
<1>2. BuildInv'
  <2>1. CASE EndBuild(v)
    BY <2>1, PumpBuild DEF EndBuild
  <2>2. CASE BuildOn("decompile")
    BY <2>2, <1>1, BuildOnType, EarlyBuild DEF TypeInv
  <2> QED BY <2>1, <2>2 DEF CheckIndexed
<1>3. NamingPart'
  BY <1>1, SameNaming DEF SourceInv, Files, Hist
<1> QED BY <1>1, <1>2, <1>3, FrameSource

LEMMA GoOnSource ==
  ASSUME TypeInv, SourceInv, NEW v \in Version, GoOn(v)
  PROVE  SourceInv'
<1>1. /\ build.at = "decompile" /\ BuildOn("poll")
      /\ UNCHANGED <<Pool, mcp, completed, Files, Index, Hist, faults>>
  BY DEF GoOn, Builds
<1>2. BuildInv'
  BY <1>1, BuildOnType, EarlyBuild DEF TypeInv
<1>3. NamingPart'
  BY <1>1, StartNamingPart DEF GoOn, TypeInv, SourceInv, Files, Hist
<1> QED BY <1>1, <1>2, <1>3, FrameSource

LEMMA BuildFailsSource ==
  ASSUME SourceInv, NEW v \in Version, BuildFails(v)
  PROVE  SourceInv'
<1>1. UNCHANGED <<Pool, naming, mcp, completed, Files, Index, Hist>> /\ FailBuild(v)
  BY DEF BuildFails
<1>2. BuildInv'
  BY <1>1, PumpBuild DEF FailBuild
<1>3. NamingPart'
  BY <1>1, SameNaming DEF SourceInv, Files, Hist
<1> QED BY <1>1, <1>2, <1>3, FrameSource

LEMMA StatusDone ==
  ASSUME NEW v \in Version, dir \in [Version -> Directory]
  PROVE  Status(v) = "done" <=> dir[v].done
BY DEF Status, Directory

\* What Vineflower is through with is whole, unless its names are to be replaced.
LEMMA PollSource ==
  ASSUME TypeInv, SourceInv, NEW v \in Version, Poll(v)
  PROVE  SourceInv'
<1>1. /\ build.of = v /\ build.at = "poll"
      /\ UNCHANGED <<Pool, naming, mcp, completed, Files, Index, Hist, faults>>
  BY DEF Poll, Builds
<1>2. BuildInv'
  <2>1. CASE FailBuild(v)
    BY <2>1, PumpBuild DEF FailBuild
  <2>2. CASE Status(v) = "done" /\ BuildOn(IF v \in Srg THEN "names" ELSE "list")
    <3>1. dir[v].done
      BY <2>2, StatusDone DEF TypeInv, DirInv
    <3>2. build'.of = v /\ build'.at = IF v \in Srg THEN "names" ELSE "list"
      BY <2>2, <1>1, BuildOnType DEF TypeInv
    <3>3. ASSUME v \notin Srg, v \notin doubled PROVE AllNamed(v)
      BY <3>1, <3>3 DEF SourceInv, RunsPart, RunsInv, AllNamed, Named, Written, ClassesOf
    <3> QED BY <3>1, <3>2, <3>3, <1>1 DEF BuildInv, AllNamed, Named, Files, Hist
  <2> QED BY <2>1, <2>2 DEF Poll
<1>3. NamingPart'
  BY <1>1, SameNaming DEF SourceInv, Files, Hist
<1> QED BY <1>1, <1>2, <1>3, FrameSource

LEMMA AwaitNamesSource ==
  ASSUME TypeInv, SourceInv, NEW v \in Version, AwaitNames(v)
  PROVE  SourceInv'
<1>1. /\ build.of = v /\ build.at = "names"
      /\ UNCHANGED <<Pool, mcp, completed, Files, Index, Hist, faults>>
  BY DEF AwaitNames, Builds
<1>2. BuildInv'
  <2>1. CASE UNCHANGED build
    BY <2>1, <1>1, SameBuild DEF SourceInv, Files, Index, Hist
  <2>2. CASE dir[v].named /\ BuildOn("list")
    <3>1. build'.of = v /\ build'.at = "list"
      BY <2>2, <1>1, BuildOnType DEF TypeInv
    <3>2. dir[v].done /\ (v \notin doubled => AllNamed(v))
      BY <2>2, <1>1 DEF SourceInv, BuildInv, RunsPart, RunsInv
    <3> QED BY <3>1, <3>2, <1>1 DEF BuildInv, AllNamed, Named, Files, Hist
  <2> QED BY <2>1, <2>2 DEF AwaitNames
<1>3. NamingPart'
  BY <1>1, StartNamingPart DEF AwaitNames, TypeInv, SourceInv, Files, Hist
<1> QED BY <1>1, <1>2, <1>3, FrameSource

LEMMA ListFilesSource ==
  ASSUME TypeInv, SourceInv, NEW v \in Version, ListFiles(v)
  PROVE  SourceInv'
<1> DEFINE files == {c \in ClassesOf(v) : standard[c] # "none"}
<1>1. /\ build.of = v /\ build.at = "list"
      /\ UNCHANGED <<Pool, naming, mcp, completed, Files, Index, Hist, faults>>
  BY DEF ListFiles, Builds
<1>2. BuildInv'
  <2>1. CASE FailBuild(v)
    BY <2>1, PumpBuild DEF FailBuild
  <2>2. CASE build' = [build EXCEPT !.at = "index", !.left = files]
    <3> HIDE DEF files
    <3>1. build'.of = v /\ build'.at = "index" /\ build'.left = files
      BY <2>2, <1>1 DEF TypeInv, JobsInv, Build
    <3> USE DEF files
    <3>2. dir[v].done /\ (v \notin doubled => AllNamed(v))
      BY <1>1 DEF SourceInv, BuildInv
    <3>3. v \notin doubled => ClassesOf(v) \subseteq files
      BY <3>2 DEF AllNamed, Named
    <3> HIDE DEF files
    <3> QED BY <3>1, <3>2, <3>3, <1>1 DEF BuildInv, AllNamed, Named, Files, Hist
  <2> QED BY <2>1, <2>2 DEF ListFiles
<1>3. NamingPart'
  BY <1>1, SameNaming DEF SourceInv, Files, Hist
<1> QED BY <1>1, <1>2, <1>3, FrameSource

LEMMA IndexFileSource ==
  ASSUME TypeInv, SourceInv, NEW v \in Version, NEW c \in Class, IndexFile(v, c)
  PROVE  SourceInv'
<1>1. /\ build.of = v /\ build.at = "index" /\ build' = [build EXCEPT !.left = @ \ {c}]
      /\ rows' = [rows EXCEPT ![c] = standard[c]]
      /\ UNCHANGED <<Pool, job, jobQueue, naming, mcp, completed, Files, indexed, Hist, faults>>
  BY DEF IndexFile, Builds
<1>2. build'.of = v /\ build'.at = "index" /\ build'.left = build.left \ {c}
  BY <1>1 DEF TypeInv, JobsInv, Build
<1>3. rows'[c] = standard[c] /\ \A d \in Class \ {c} : rows'[d] = rows[d]
  BY <1>1 DEF TypeInv, RestInv
<1>4. \A u \in Version : c \in ClassesOf(u) /\ AllNamed(u) =>
        rows'[c] = "whole" \/ (rows'[c] = "raw" /\ c \in nameless)
  BY <1>3 DEF AllNamed, Named
<1>5. IndexPart'
  BY <1>1, <1>3, <1>4 DEF SourceInv, IndexPart, IndexInv, AllNamed, Named, Stored, Files, Hist, ClassesOf
<1>6. BuildInv'
  BY <1>1, <1>2, <1>3, <1>4 DEF SourceInv, BuildInv, AllNamed, Named, Stored, Files, Hist, ClassesOf
<1> QED BY <1>1, <1>5, <1>6, SameRuns, SameNaming
        DEF SourceInv, Files, Hist, Pool, PriorityPart, PriorityInv

LEMMA MarkIndexedSource ==
  ASSUME TypeInv, SourceInv, NEW v \in Version, MarkIndexed(v)
  PROVE  SourceInv'
<1>1. /\ build.of = v /\ build.at = "index" /\ build.left = {} /\ EndBuild(v)
      /\ indexed' = [indexed EXCEPT ![v] = TRUE]
      /\ UNCHANGED <<Pool, naming, mcp, Files, rows, Hist, faults>>
  BY DEF MarkIndexed, Builds
<1>2. v \notin doubled => dir[v].done /\ AllNamed(v) /\ \A c \in ClassesOf(v) \ late : Stored(c)
  BY <1>1 DEF SourceInv, BuildInv
<1>3. \A u \in Version \ {v} : indexed'[u] = indexed[u]
  BY <1>1 DEF TypeInv, RestInv
<1>4. IndexPart'
  BY <1>1, <1>2, <1>3 DEF SourceInv, IndexPart, IndexInv, AllNamed, Named, Stored, Files, Hist
<1>5. BuildInv'
  BY <1>1, PumpBuild DEF EndBuild
<1> QED BY <1>1, <1>4, <1>5, SameRuns, SameNaming
        DEF SourceInv, Files, Hist, Pool, PriorityPart, PriorityInv

\* A job that begins to replace names has walked nothing, or there are none.
LEMMA BeginNamingSource ==
  ASSUME TypeInv, SourceInv, NEW v \in Version, BeginNaming(v)
  PROVE  SourceInv'
<1>1. UNCHANGED <<Pool, job, jobQueue, build, completed, Files, Index, Hist, faults>>
  BY DEF BeginNaming
<1>2. dir[v].done
  BY StatusDone DEF BeginNaming, TypeInv, DirInv
<1>3. /\ mcp'[v] # "unasked" /\ \A u \in Version \ {v} : mcp'[u] = mcp[u]
  BY GetNamesIs DEF BeginNaming, TypeInv
<1>4. /\ mcp'[v] = "found" => naming'[v].left = ClassesOf(v)
      /\ \A u \in Version \ {v} : naming'[u] = naming[u]
  BY DEF BeginNaming, TypeInv, RestInv
<1>5. NamingPart'
  <2> SUFFICES ASSUME NEW u \in Version PROVE NamingInv(u)'
    BY DEF NamingPart
  <2>1. NamingInv(u)
    BY DEF SourceInv, NamingPart
  <2>2. CASE u = v
    BY <2>2, <1>1, <1>2, <1>3, <1>4 DEF NamingInv, Files
  <2>3. CASE u # v
    BY <2>1, <2>3, <1>1, <1>3, <1>4 DEF NamingInv, Files, Hist
  <2> QED BY <2>2, <2>3
<1>6. BuildInv'
  BY <1>1, SameBuild DEF SourceInv, Files, Index, Hist
<1> QED BY <1>1, <1>5, <1>6, FrameSource

\* The names of one more class are replaced: what has its names keeps them.
LEMMA ReplaceNamesSource ==
  ASSUME TypeInv, SourceInv, NEW c \in Class, ReplaceNames(c)
  PROVE  SourceInv'
<1> DEFINE w == VersionOf[c]
<1>1. /\ standard' = [standard EXCEPT ![c] = IF @ = "raw" THEN "whole" ELSE @]
      /\ naming' = [naming EXCEPT ![w].left = @ \ {c}] /\ naming[w].at = "walking"
      /\ UNCHANGED <<Pool, job, jobQueue, build, mcp, completed, dir, priority, Index, Hist, faults>>
  BY DEF ReplaceNames
<1>2. /\ \A d \in Class : standard'[d] = standard[d] \/ standard'[d] = "whole"
      /\ standard'[c] = IF standard[c] = "raw" THEN "whole" ELSE standard[c]
  BY <1>1 DEF TypeInv, RestInv
<1>3. \A v : ClassesOf(v) \subseteq Class
  BY DEF ClassesOf
<1>4. /\ \A d \in Class : standard[d] = "whole" => standard'[d] = "whole"
      /\ \A d \in Class : Named(d) =>
           standard'[d] = "whole" \/ (standard'[d] = "raw" /\ d \in nameless)
      /\ \A d \in Class : Written(d) =>
           standard'[d] = "whole" \/ (VersionOf[d] \in Srg /\ standard'[d] = "raw")
  BY <1>2 DEF Written, Named
<1>5. RunsPart'
  <2> SUFFICES ASSUME NEW v \in Version PROVE TodoInv(v)' /\ (v \notin doubled' => RunsInv(v)')
    BY DEF RunsPart
  <2>1. TodoInv(v)'
    BY <1>1 DEF SourceInv, RunsPart, TodoInv
  <2>2. ASSUME v \notin doubled' PROVE RunsInv(v)'
    <3>1. RunsInv(v)
      BY <2>2, <1>1 DEF SourceInv, RunsPart, Hist
    <3> QED BY <3>1, <1>1, <1>3, <1>4 DEF RunsInv, Alive, Written, AllNamed, Named, Hist
  <2> QED BY <2>1, <2>2
<1>6. IndexPart'
  BY <1>1, <1>3, <1>4 DEF SourceInv, IndexPart, IndexInv, AllNamed, Named, Stored, Index, Hist
<1>7. BuildInv'
  BY <1>1, <1>3, <1>4 DEF SourceInv, BuildInv, AllNamed, Named, Stored, Index, Hist
<1>8. NamingPart'
  <2> SUFFICES ASSUME NEW v \in Version, naming'[v].at = "walking", v \notin doubled'
               PROVE  /\ dir'[v].done /\ mcp'[v] # "unasked"
                      /\ mcp'[v] = "found" =>
                           \A d \in ClassesOf(v) \ naming'[v].left : standard'[d] = "whole"
    BY DEF NamingPart, NamingInv
  <2>1. /\ w \in Version /\ c \in ClassesOf(w)
    BY Constants DEF ClassesOf
  <2>2. naming \in [Version -> Naming]
    BY DEF TypeInv, RestInv
  <2> HIDE DEF w
  <2>3. /\ naming'[v].at = naming[v].at
        /\ v # w => naming'[v].left = naming[v].left
        /\ v = w => naming'[v].left = naming[v].left \ {c}
    BY <2>1, <2>2, <1>1 DEF Naming
  <2>4. NamingInv(v) /\ v \notin doubled
    BY <1>1 DEF SourceInv, NamingPart, Hist
  <2>5. dir[v].done /\ mcp[v] # "unasked" /\ \A d \in ClassesOf(v) : Written(d)
    BY <2>3, <2>4 DEF NamingInv, SourceInv, RunsPart, RunsInv
  <2>6. v = w => standard'[c] = "whole"
    BY <2>1, <2>5, <1>2 DEF Written
  <2>7. mcp[v] = "found" => \A d \in ClassesOf(v) \ naming[v].left : standard[d] = "whole"
    BY <2>3, <2>4 DEF NamingInv
  <2>8. mcp[v] = "found" => \A d \in ClassesOf(v) \ naming'[v].left : standard'[d] = "whole"
    BY <2>3, <2>6, <2>7, <1>3, <1>4
  <2> QED BY <2>5, <2>8, <1>1
<1> QED BY <1>1, <1>5, <1>6, <1>7, <1>8 DEF SourceInv, Pool, Hist, PriorityPart, PriorityInv

\* When the marker is written every class of the version has its names, or there were none.
LEMMA EndNamingSource ==
  ASSUME TypeInv, SourceInv, NEW v \in Version, EndNaming(v)
  PROVE  SourceInv'
<1>1. /\ UNCHANGED <<Pool, job, jobQueue, build, mcp, completed, standard, priority, Index, late,
                     doubled, faults>>
      /\ naming[v].at = "walking" /\ naming[v].left = {}
      /\ nameless' = IF mcp[v] = "missing" THEN nameless \cup ClassesOf(v) ELSE nameless
      /\ dir' = [dir EXCEPT ![v].named = TRUE]
  BY DEF EndNaming
<1>2. dir \in [Version -> Directory] /\ mcp[v] \in {"unasked", "found", "missing"}
  BY DEF TypeInv, DirInv, RestInv
<1>3. \A u \in Version : dir'[u].proc = dir[u].proc /\ dir'[u].done = dir[u].done
  BY <1>1, <1>2 DEF Directory
<1>4. \A u \in Version \ {v} : dir'[u].named = dir[u].named
  BY <1>1, <1>2
<1>5. nameless \subseteq nameless'
  BY <1>1
<1>6. ASSUME v \notin doubled
      PROVE  dir[v].done /\ \A c \in ClassesOf(v) :
               standard[c] = "whole" \/ (standard[c] = "raw" /\ c \in nameless')
  <2>1. /\ dir[v].done /\ mcp[v] # "unasked"
        /\ mcp[v] = "found" => \A c \in ClassesOf(v) : standard[c] = "whole"
    BY <1>1, <1>6 DEF SourceInv, NamingPart, NamingInv
  <2>2. \A c \in ClassesOf(v) : standard[c] \in {"whole", "raw"}
    BY <2>1, <1>6 DEF SourceInv, RunsPart, RunsInv, Written
  <2>3. CASE mcp[v] = "found"
    BY <2>1, <2>3
  <2>4. CASE mcp[v] = "missing"
    BY <2>1, <2>2, <2>4, <1>1
  <2> QED BY <2>1, <2>3, <2>4, <1>2
<1>7. RunsPart'
  <2> SUFFICES ASSUME NEW u \in Version PROVE TodoInv(u)' /\ (u \notin doubled' => RunsInv(u)')
    BY DEF RunsPart
  <2>1. TodoInv(u)'
    BY <1>3 DEF SourceInv, RunsPart, TodoInv
  <2>2. ASSUME u \notin doubled' PROVE RunsInv(u)'
    <3>1. RunsInv(u) /\ u \notin doubled
      BY <2>2, <1>1 DEF SourceInv, RunsPart
    <3>2. dir'[u].named => dir[u].done /\ \A c \in ClassesOf(u) :
            standard[c] = "whole" \/ (standard[c] = "raw" /\ c \in nameless')
      BY <3>1, <1>4, <1>5, <1>6 DEF RunsInv, AllNamed, Named
    <3> QED BY <3>1, <3>2, <1>1, <1>3 DEF RunsInv, Alive, Written, AllNamed, Named
  <2> QED BY <2>1, <2>2
<1>8. IndexPart'
  BY <1>1, <1>3, <1>5 DEF SourceInv, IndexPart, IndexInv, AllNamed, Named, Stored, Index
<1>9. BuildInv'
  <2>1. build.of \in Version
    BY OfVersion DEF TypeInv
  <2> QED BY <2>1, <1>1, <1>3, <1>5 DEF SourceInv, BuildInv, AllNamed, Named, Stored, Index
<1>10. NamingPart'
  <2>1. /\ naming'[v].at = "idle" /\ \A u \in Version \ {v} : naming'[u] = naming[u]
    BY DEF EndNaming, NoNaming, TypeInv, RestInv
  <2> QED BY <2>1, <1>1, <1>3 DEF SourceInv, NamingPart, NamingInv
<1>11. PriorityPart'
  BY <1>1, <1>5 DEF SourceInv, Pool, PriorityPart, PriorityInv
<1> QED BY <1>7, <1>8, <1>9, <1>10, <1>11 DEF SourceInv

\* A job that fails marks nothing.
LEMMA DropNamingSource ==
  ASSUME TypeInv, SourceInv, NEW v \in Version, DropNaming(v)
  PROVE  SourceInv'
<1>1. UNCHANGED <<Pool, mcp, completed, Files, Index, Hist>>
  BY DEF DropNaming
<1>2. BuildInv'
  <2>1. UNCHANGED build \/ FailBuild(v)
    BY DEF DropNaming
  <2> QED BY <2>1, <1>1, SameBuild, PumpBuild DEF FailBuild, SourceInv, Files, Index, Hist
<1>3. NamingPart'
  <2>1. /\ naming'[v].at = "idle" /\ \A u \in Version \ {v} : naming'[u] = naming[u]
    BY DEF DropNaming, NoNaming, TypeInv, RestInv
  <2> QED BY <2>1, <1>1 DEF SourceInv, NamingPart, NamingInv, Files, Hist
<1> QED BY <1>1, <1>2, <1>3, FrameSource

LEMMA WritePidSource ==
  ASSUME TypeInv, SourceInv, NEW v \in Version, WritePid(v)
  PROVE  SourceInv'
<1>1. /\ build.at = "mark" /\ BuildOn("poll")
      /\ UNCHANGED <<Pool, mcp, completed, standard, priority, Index, Hist, faults>>
  BY DEF WritePid, Builds
<1>2. \A u \in Version : /\ dir'[u].proc = dir[u].proc /\ dir'[u].done = dir[u].done
                         /\ dir'[u].named = dir[u].named
  <2>1. PICK n : dir' = [dir EXCEPT ![v].running = n]
    BY DEF WritePid
  <2> QED BY <2>1 DEF TypeInv, DirInv, Directory
<1>3. RunsPart'
  <2> SUFFICES ASSUME NEW u \in Version PROVE TodoInv(u)' /\ (u \notin doubled' => RunsInv(u)')
    BY DEF RunsPart
  <2>1. TodoInv(u) /\ (u \notin doubled => RunsInv(u))
    BY DEF SourceInv, RunsPart
  <2> QED BY <2>1, <1>1, <1>2 DEF TodoInv, RunsInv, Alive, Written, AllNamed, Named, Hist
<1>4. IndexPart'
  BY <1>1, <1>2 DEF SourceInv, IndexPart, IndexInv, AllNamed, Named, Stored, Index, Hist
<1>5. BuildInv'
  BY <1>1, BuildOnType, EarlyBuild DEF TypeInv
<1>6. NamingPart'
  BY <1>1, <1>2, StartNamingPart DEF WritePid, TypeInv, SourceInv, Hist
<1> QED BY <1>1, <1>3, <1>4, <1>5, <1>6 DEF SourceInv, Pool, Hist, PriorityPart, PriorityInv

\* A new run starts with all classes to do, and only when the directory is not done.
LEMMA SpawnSource ==
  ASSUME TypeInv, SourceInv, NEW v \in Version, Spawn(v)
  PROVE  SourceInv'
<1> DEFINE n == Cardinality({k \in Run : dir[v].proc[k].state # "none"}) + 1
<1>1. /\ build.of = v /\ build.at = "decompile" /\ BuildOn("mark") /\ n \in Run
      /\ Status(v) # "done" /\ doubled' = IF Alive(v) = {} THEN doubled ELSE doubled \cup {v}
      /\ UNCHANGED <<Pool, naming, mcp, completed, standard, priority, Index, late, nameless, faults>>
      /\ dir' = [dir EXCEPT ![v] = [done |-> FALSE, error |-> FALSE, named |-> FALSE,
           running |-> dir[v].running,
           proc |-> [dir[v].proc EXCEPT ![n] =
                       [state |-> "child", todo |-> ClassesOf(v), on |-> {}]]]]
  BY DEF Spawn, Builds
<1> HIDE DEF n
<1>2. /\ Only(v, n) /\ dir'[v].done = FALSE /\ dir'[v].named = FALSE
      /\ dir'[v].proc[n] = [state |-> "child", todo |-> ClassesOf(v), on |-> {}]
  <2>1. dir \in [Version -> Directory]
    BY DEF TypeInv, DirInv
  <2> QED BY <2>1, <1>1, SpawnDir
<1>3. dir'[v].proc[n].todo = ClassesOf(v) /\ dir'[v].proc[n].on = {}
  BY <1>2
<1>4. ~dir[v].done
  BY <1>1, StatusDone DEF TypeInv, DirInv
<1>5. RunsPart'
  <2> SUFFICES ASSUME NEW u \in Version PROVE TodoInv(u)' /\ (u \notin doubled' => RunsInv(u)')
    BY DEF RunsPart
  <2>1. TodoInv(u) /\ (u \notin doubled => RunsInv(u))
    BY DEF SourceInv, RunsPart
  <2>2. CASE u # v
    BY <2>1, <2>2, <1>1, <1>2 DEF Only, TodoInv, RunsInv, Alive, Written, AllNamed, Named
  <2>3. CASE u = v
    <3>1. TodoInv(u)'
      BY <2>1, <2>3, <1>2, <1>3 DEF Only, TodoInv
    <3>2. ASSUME u \notin doubled' PROVE RunsInv(u)'
      <4>1. \A k \in Run : dir[v].proc[k].state \notin {"child", "orphan"}
        BY <3>2, <2>3, <1>1 DEF Alive
      <4>2. \A k \in Run : dir'[v].proc[k].state \in {"child", "orphan"} => k = n
        BY <4>1, <1>2 DEF Only
      <4> QED BY <4>2, <2>3, <1>2, <1>3 DEF RunsInv, Alive
    <3> QED BY <3>1, <3>2
  <2> QED BY <2>2, <2>3
<1>6. IndexPart'
  <2> SUFFICES ASSUME NEW u \in Version PROVE IndexInv(u)'
    BY DEF IndexPart
  <2>1. IndexInv(u)
    BY DEF SourceInv, IndexPart
  <2>2. u \notin doubled' => u \notin doubled
    BY <1>1
  <2>3. CASE u = v
    BY <2>1, <2>2, <2>3, <1>1, <1>4 DEF IndexInv, Index
  <2>4. CASE u # v
    BY <2>1, <2>2, <2>4, <1>1, <1>2 DEF IndexInv, Index, Only, AllNamed, Named, Stored
  <2> QED BY <2>3, <2>4
<1>7. BuildInv'
  BY <1>1, BuildOnType, EarlyBuild DEF TypeInv
<1>8. NamingPart'
  <2> SUFFICES ASSUME NEW u \in Version PROVE NamingInv(u)'
    BY DEF NamingPart
  <2>1. NamingInv(u) /\ (u \notin doubled' => u \notin doubled)
    BY <1>1 DEF SourceInv, NamingPart
  <2> QED BY <2>1, <1>1, <1>2, <1>4 DEF NamingInv, Only
<1> QED BY <1>1, <1>5, <1>6, <1>7, <1>8 DEF SourceInv, Pool, PriorityPart, PriorityInv

\* What a run does matters to its own version alone; and a version that is done, or
\* indexed, has none.
LEMMA VineflowerSource ==
  ASSUME TypeInv, SourceInv, NEW v \in Version, NEW n \in Run, n \in Alive(v), Only(v, n),
         dir[v].done => dir'[v].done,
         dir'[v].proc[n].todo \cup dir'[v].proc[n].on \subseteq ClassesOf(v),
         \A d \in Class \ ClassesOf(v) : standard'[d] = standard[d],
         v \notin doubled => RunsInv(v)',
         UNCHANGED <<Pool, Jobs, priority, Index, Hist>>
  PROVE  SourceInv'
<1>1. v \notin doubled => ~dir[v].done
  BY DEF SourceInv, RunsPart, RunsInv
<1>2. \A u \in Version \ {v} : \A d \in ClassesOf(u) : standard'[d] = standard[d]
  BY DEF ClassesOf
<1>3. RunsPart'
  <2> SUFFICES ASSUME NEW u \in Version PROVE TodoInv(u)' /\ (u \notin doubled' => RunsInv(u)')
    BY DEF RunsPart
  <2>1. TodoInv(u) /\ (u \notin doubled => RunsInv(u))
    BY DEF SourceInv, RunsPart
  <2>2. CASE u # v
    <3>1. dir'[u] = dir[u] /\ \A d \in ClassesOf(u) : standard'[d] = standard[d]
      BY <2>2, <1>2 DEF Only
    <3> QED BY <2>1, <3>1 DEF TodoInv, RunsInv, Alive, Written, AllNamed, Named, Hist
  <2>3. CASE u = v
    BY <2>1, <2>3 DEF Only, TodoInv, Hist
  <2> QED BY <2>2, <2>3
<1>4. IndexPart'
  <2> SUFFICES ASSUME NEW u \in Version PROVE IndexInv(u)'
    BY DEF IndexPart
  <2>1. IndexInv(u)
    BY DEF SourceInv, IndexPart
  <2>2. CASE u = v
    BY <2>1, <2>2, <1>1 DEF IndexInv, Index, Hist
  <2>3. CASE u # v
    <3>1. dir'[u] = dir[u] /\ \A d \in ClassesOf(u) : standard'[d] = standard[d]
      BY <2>3, <1>2 DEF Only
    <3> QED BY <2>1, <3>1 DEF IndexInv, AllNamed, Named, Stored, Index, Hist
  <2> QED BY <2>2, <2>3
<1>5. BuildInv'
  <2>1. build.of \in Version /\ BuildInv
    BY OfVersion DEF TypeInv, SourceInv
  <2>2. CASE build.of = v
    BY <2>1, <2>2, <1>1 DEF BuildInv, Jobs, Hist
  <2>3. CASE build.of # v
    <3>1. /\ dir'[build.of] = dir[build.of]
          /\ \A d \in ClassesOf(build.of) : standard'[d] = standard[d]
      BY <2>1, <2>3, <1>2 DEF Only
    <3> QED BY <2>1, <3>1 DEF BuildInv, AllNamed, Named, Stored, Jobs, Index, Hist
  <2> QED BY <2>2, <2>3
<1>6. NamingPart'
  <2> SUFFICES ASSUME NEW u \in Version PROVE NamingInv(u)'
    BY DEF NamingPart
  <2>1. NamingInv(u)
    BY DEF SourceInv, NamingPart
  <2>2. CASE u = v
    BY <2>1, <2>2, <1>1 DEF NamingInv, Jobs, Hist
  <2>3. CASE u # v
    <3>1. dir'[u] = dir[u] /\ \A d \in ClassesOf(u) : standard'[d] = standard[d]
      BY <2>3, <1>2 DEF Only
    <3> QED BY <2>1, <3>1 DEF NamingInv, Jobs, Hist
  <2> QED BY <2>2, <2>3
<1> QED BY <1>3, <1>4, <1>5, <1>6 DEF SourceInv, Pool, Hist, PriorityPart, PriorityInv

LEMMA BeginFileSource ==
  ASSUME TypeInv, SourceInv, NEW v \in Version, NEW n \in Run, NEW c \in Class, BeginFile(v, n, c)
  PROVE  SourceInv'
<1>1. /\ n \in Alive(v) /\ c \in dir[v].proc[n].todo
      /\ standard' = [standard EXCEPT ![c] = "torn"]
      /\ UNCHANGED <<Pool, Jobs, priority, Index, Hist, faults>>
  BY DEF BeginFile, Writing
<1>2. dir \in [Version -> Directory] /\ dir[v].proc[n] \in Process
  BY DEF TypeInv, DirInv, Directory
<1>3. /\ Only(v, n) /\ dir'[v].done = dir[v].done /\ dir'[v].named = dir[v].named
      /\ dir'[v].proc[n] = [dir[v].proc[n] EXCEPT !.on = {c}]
  BY <1>2, BeginFileDir
<1>4. /\ dir'[v].proc[n].state = dir[v].proc[n].state /\ dir'[v].proc[n].on = {c}
      /\ dir'[v].proc[n].todo = dir[v].proc[n].todo
  BY <1>2, <1>3 DEF Process
<1>5. c \in ClassesOf(v) /\ dir[v].proc[n].todo \subseteq ClassesOf(v)
  BY <1>1 DEF SourceInv, RunsPart, TodoInv
<1>6. \A d \in Class \ {c} : standard'[d] = standard[d]
  BY <1>1 DEF TypeInv, RestInv
<1>7. ASSUME v \notin doubled PROVE RunsInv(v)'
  <2>1. RunsInv(v)
    BY <1>7 DEF SourceInv, RunsPart
  <2>2. ~dir[v].done /\ ~dir[v].named
    BY <2>1, <1>1 DEF RunsInv
  <2>3. \A m \in Run : dir'[v].proc[m].state = dir[v].proc[m].state
                       /\ dir'[v].proc[m].todo = dir[v].proc[m].todo
    BY <1>3, <1>4 DEF Only
  <2>4. \A m \in Alive(v) : m = n
    BY <2>1, <1>1 DEF RunsInv
  <2>5. \A m \in Alive(v), d \in ClassesOf(v) : d \in dir'[v].proc[m].todo \/ Written(d)'
    <3> SUFFICES ASSUME NEW d \in ClassesOf(v) PROVE d \in dir'[v].proc[n].todo \/ Written(d)'
      BY <2>4
    <3>1. CASE d = c
      BY <3>1, <1>1, <1>4
    <3>2. CASE d # c
      BY <3>2, <2>1, <1>1, <1>4, <1>6 DEF RunsInv, Written, ClassesOf
    <3> QED BY <3>1, <3>2
  <2>6. Alive(v)' = Alive(v)
    BY <2>3 DEF Alive
  <2> QED BY <2>1, <2>2, <2>5, <2>6, <1>3 DEF RunsInv
<1> QED BY <1>1, <1>3, <1>4, <1>5, <1>6, <1>7, VineflowerSource DEF ClassesOf

LEMMA EndFileSource ==
  ASSUME TypeInv, SourceInv, NEW v \in Version, NEW n \in Run, NEW c \in Class, EndFile(v, n, c)
  PROVE  SourceInv'
<1>1. /\ n \in Alive(v) /\ c \in dir[v].proc[n].on
      /\ standard' = [standard EXCEPT ![c] = IF v \in Srg THEN "raw" ELSE "whole"]
      /\ UNCHANGED <<Pool, Jobs, priority, Index, Hist, faults>>
  BY DEF EndFile, Writing
<1>2. /\ Only(v, n) /\ dir'[v].done = dir[v].done /\ dir'[v].named = dir[v].named
      /\ dir'[v].proc[n].state = dir[v].proc[n].state
      /\ dir'[v].proc[n].todo = dir[v].proc[n].todo \ {c} /\ dir'[v].proc[n].on = {}
  BY EndFileDir DEF TypeInv, DirInv
<1>3. c \in ClassesOf(v) /\ dir[v].proc[n].todo \subseteq ClassesOf(v)
  BY <1>1 DEF SourceInv, RunsPart, TodoInv
<1>4. \A d \in Class \ {c} : standard'[d] = standard[d]
  BY <1>1 DEF TypeInv, RestInv
<1>5. Written(c)'
  BY <1>1, <1>3 DEF Written, TypeInv, RestInv, ClassesOf
<1>6. ASSUME v \notin doubled PROVE RunsInv(v)'
  <2>1. RunsInv(v)
    BY <1>6 DEF SourceInv, RunsPart
  <2>2. ~dir[v].done /\ ~dir[v].named
    BY <2>1, <1>1 DEF RunsInv
  <2>3. \A m \in Run : dir'[v].proc[m].state = dir[v].proc[m].state
    BY <1>2 DEF Only
  <2>4. \A m \in Alive(v) : m = n
    BY <2>1, <1>1 DEF RunsInv
  <2>5. \A m \in Alive(v), d \in ClassesOf(v) : d \in dir'[v].proc[m].todo \/ Written(d)'
    <3> SUFFICES ASSUME NEW d \in ClassesOf(v), d # c
                 PROVE  d \in dir'[v].proc[n].todo \/ Written(d)'
      BY <2>4, <1>5
    <3> QED BY <2>1, <1>1, <1>2, <1>4 DEF RunsInv, Written, ClassesOf
  <2>6. Alive(v)' = Alive(v)
    BY <2>3 DEF Alive
  <2> QED BY <2>1, <2>2, <2>5, <2>6, <1>2 DEF RunsInv
<1> QED BY <1>1, <1>2, <1>3, <1>4, <1>6, VineflowerSource DEF ClassesOf

\* A run that succeeds leaves nothing to do.
LEMMA EndsSource ==
  ASSUME TypeInv, SourceInv, NEW v \in Version, NEW n \in Run, NEW good \in BOOLEAN,
         Ends(v, n, good), good => dir[v].proc[n].todo = {}
  PROVE  SourceInv'
<1>1. n \in Alive(v) /\ UNCHANGED <<Pool, Jobs, standard, priority, Index, Hist>>
  BY DEF Ends, Writing
<1>2. /\ Only(v, n) /\ dir'[v].named = dir[v].named
      /\ dir'[v].done <=> dir[v].done \/ (dir[v].proc[n].state = "child" /\ good)
      /\ dir'[v].proc[n].state = "dead" /\ dir'[v].proc[n].todo = dir[v].proc[n].todo
      /\ dir'[v].proc[n].on = dir[v].proc[n].on
  BY EndsDir DEF TypeInv, DirInv
<1>3. dir'[v].proc[n].todo \cup dir'[v].proc[n].on \subseteq ClassesOf(v)
  BY <1>2 DEF SourceInv, RunsPart, TodoInv
<1>4. ASSUME v \notin doubled PROVE RunsInv(v)'
  <2>1. RunsInv(v)
    BY <1>4 DEF SourceInv, RunsPart
  <2>2. ~dir[v].done /\ ~dir[v].named
    BY <2>1, <1>1 DEF RunsInv
  <2>3. \A m \in Run : m \in Alive(v) => m = n
    BY <2>1, <1>1 DEF RunsInv
  <2>4. Alive(v)' = {}
    BY <2>3, <1>2 DEF Only, Alive
  <2>5. dir'[v].done => \A c \in ClassesOf(v) : Written(c)
    BY <2>1, <2>2, <1>1, <1>2 DEF RunsInv
  <2> QED BY <2>2, <2>4, <2>5, <1>1, <1>2 DEF RunsInv, Written
<1> QED BY <1>1, <1>2, <1>3, <1>4, VineflowerSource

LEMMA RestartSource ==
  ASSUME TypeInv, SourceInv, Restart
  PROVE  SourceInv'
<1>1. UNCHANGED <<standard, priority, Index, Hist>>
  BY DEF Restart
<1>2. /\ \A v \in Version : dir'[v].done = dir[v].done /\ dir'[v].named = dir[v].named
      /\ \A v \in Version, n \in Run :
           /\ dir'[v].proc[n].todo = dir[v].proc[n].todo
           /\ dir'[v].proc[n].on = dir[v].proc[n].on
           /\ dir'[v].proc[n].state \in {"child", "orphan"} =>
                dir[v].proc[n].state \in {"child", "orphan"}
           /\ dir[v].proc[n].state \in {"child", "orphan"} =>
                dir'[v].proc[n].state \in {"child", "orphan"}
  BY RestartDir DEF TypeInv, DirInv
<1>3. RunsPart'
  <2> SUFFICES ASSUME NEW v \in Version PROVE TodoInv(v)' /\ (v \notin doubled' => RunsInv(v)')
    BY DEF RunsPart
  <2>1. TodoInv(v) /\ (v \notin doubled => RunsInv(v))
    BY DEF SourceInv, RunsPart
  <2>2. TodoInv(v)'
    BY <2>1, <1>2 DEF TodoInv
  <2>3. Alive(v)' = Alive(v)
    BY <1>2 DEF Alive
  <2>4. \A n \in Alive(v) : n \in Run
    BY DEF Alive
  <2>5. v \notin doubled' => RunsInv(v)'
    BY <2>1, <2>3, <2>4, <1>1, <1>2 DEF RunsInv, Written, AllNamed, Named, Hist
  <2> QED BY <2>2, <2>5
<1>4. IndexPart'
  BY <1>1, <1>2 DEF SourceInv, IndexPart, IndexInv, AllNamed, Named, Stored, Index, Hist
<1>5. PriorityPart'
  BY <1>1 DEF Restart, NoWork, Hist, SourceInv, PriorityPart, PriorityInv
<1>6. BuildInv'
  BY EarlyBuild DEF Restart, NoBuild
<1>7. NamingPart'
  BY DEF Restart, NoNaming, NamingPart, NamingInv
<1> QED BY <1>3, <1>4, <1>5, <1>6, <1>7 DEF SourceInv

LEMMA SourceStep ==
  TypeInv /\ SourceInv /\ [Next]_vars => SourceInv'
<1> SUFFICES ASSUME TypeInv, SourceInv, [Next]_vars PROVE SourceInv'
  OBVIOUS
<1>1. ASSUME NEW c \in Class, Prepare(c) \/ Work(c) \/ ClassFails(c) PROVE SourceInv'
  BY <1>1, PrepareSource, ChooseFileSource, EndClassSource, ClassFailsSource, ReadClassSource,
     StoreClassSource
  DEF Work
<1>2. ASSUME NEW v \in Version,
             Schedule(v) \/ BuildFails(v) \/ NamingFails(v) \/ NamingBreaks(v)
      PROVE  SourceInv'
  BY <1>2, ScheduleSource, BuildFailsSource, DropNamingSource DEF NamingFails, NamingBreaks
<1>3. ASSUME NEW v \in Version, BuildStep(v) PROVE SourceInv'
  <2>1. \A c \in ClassesOf(v) : c \in Class
    BY DEF ClassesOf
  <2> QED BY <1>2, <1>3, <2>1, CheckIndexedSource, GoOnSource, SpawnSource, WritePidSource,
             PollSource, AwaitNamesSource, BeginNamingSource, EndNamingSource, ListFilesSource, MarkIndexedSource,
             IndexFileSource, ReplaceNamesSource
          DEF BuildStep
<1>4. ASSUME NEW v \in Version, NEW n \in Run, Vineflower(v, n) \/ Crashes(v, n) PROVE SourceInv'
  <2>1. CASE \E c \in Class : BeginFile(v, n, c) \/ EndFile(v, n, c)
    BY <2>1, BeginFileSource, EndFileSource
  <2>2. CASE Succeeds(v, n)
    BY <2>2, EndsSource DEF Succeeds
  <2>3. CASE Crashes(v, n)
    BY <2>3, EndsSource DEF Crashes
  <2> QED BY <1>4, <2>1, <2>2, <2>3 DEF Vineflower
<1>5. CASE UNCHANGED vars
  BY <1>5, FrameSource, SameNaming, SameBuild DEF vars, Pool, Files, Index, Hist, SourceInv
<1> QED BY <1>1, <1>2, <1>3, <1>4, <1>5, RestartSource DEF Next
-----------------------------------------------------------------------------
(* The theorems.                                                            *)

LEMMA Invariant == Spec => [](TypeInv /\ SourceInv)
BY InitTypes, InitSource, TypeStep, SourceStep, PTL DEF Spec

LEMMA TypeInvTypes == TypeInv => TypeOK
<1> SUFFICES ASSUME TypeInv PROVE TypeOK
  OBVIOUS
<1>1. PoolInStep
  <2>1. busy = {VersionOf[c] : c \in Preparing}
    BY DEF TypeInv, PoolInv, PoolOK, Preparing
  <2> QED BY <2>1 DEF TypeInv, PoolInv, PoolOK, PoolInStep, Preparing
<1> QED BY <1>1 DEF TypeInv, TypeOK, PoolInv, PoolOK, PrepState, Job, JobsInv, Build, DirInv,
                    Directory, Process, RestInv, Naming

\* Every variable keeps its type; and the pool of vanilla.ts stays in step with itself: the
\* queue holds the classes that wait, the counter and the busy versions are those of the
\* jobs that run, which are at most Slots and of different versions, whatever fails.
THEOREM Typing == Spec => []TypeOK
BY Invariant, TypeInvTypes, PTL

\* A version is marked as indexed by hosted-mc-index.ts only when every class' row is whole, with
\* its names replaced unless they were not to be had when the class passed for named, and stays
\* so, through failed builds and naming jobs, Vineflowers that crash or outlive the server, and
\* classes prepared meanwhile; unless two Vineflowers wrote the directory at once or a text was
\* stored late.
THEOREM IndexedWhole == Spec => []IndexedIsWhole
<1>1. SourceInv => IndexedIsWhole
  <2> SUFFICES ASSUME SourceInv, NEW c \in Class, indexed[VersionOf[c]],
                      VersionOf[c] \notin doubled, c \notin late
               PROVE  rows[c] = "whole" \/ (rows[c] = "raw" /\ c \in nameless)
    BY DEF IndexedIsWhole
  <2>1. VersionOf[c] \in Version /\ c \in ClassesOf(VersionOf[c])
    BY Constants DEF ClassesOf
  <2> QED BY <2>1 DEF SourceInv, IndexPart, IndexInv, Stored
<1> QED BY <1>1, Invariant, PTL
=============================================================================
