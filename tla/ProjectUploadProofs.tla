------------------------ MODULE ProjectUploadProofs ------------------------
(***************************************************************************)
(* Theorems about ProjectUpload, for any runs, environments, bundle sizes,  *)
(* numbers of tries and limits.                                             *)
(***************************************************************************)
EXTENDS ProjectUpload, SequenceTheorems, FiniteSetTheorems, TLAPS

\* A begin of the run is on its way, or waits for the lock of the root.
Members(s) == {s[i] : i \in 1..Len(s)}
Distinct(s) == \A i, j \in 1..Len(s) : s[i] = s[j] => i = j
InFlight(r) == BeginCall \in calls[r] \/ r \in Members(root)

\* Until its begin is answered or given up nothing of a run is on the server.
BeginInv(r) ==
  /\ client[r].phase = "new" => ~InFlight(r)
  /\ client[r].phase \in {"new", "begin"} \/ InFlight(r)
       => queue[r] = <<>> /\ calls[r] \subseteq {BeginCall} /\ bundle[r] = <<>>
  /\ InFlight(r) => client[r].phase = "failed"
                    \/ (client[r].phase = "begin" /\ reply[r].is = "none")
  /\ ~ (BeginCall \in calls[r] /\ r \in Members(root))

\* The handler of the first call has checked what it goes on to rely on.
StepInv(r) ==
  /\ step[r] # "start" => queue[r] # <<>>
  /\ step[r] = "write" => Head(queue[r]).at = Len(bundle[r])
                          /\ Head(queue[r]).kind = "chunk"
  /\ step[r] \in {"import", "receipt", "clean"} => Len(bundle[r]) = Size
  /\ step[r] \in {"receipt", "clean"} => EnvOf[r] \in environments

\* The bundle is what the script reads, and it is as long as the script is told.
StoreInv(r) ==
  /\ Len(bundle[r]) <= Size
  /\ bundle[r] = [i \in 1..Len(bundle[r]) |-> i]
  /\ client[r].phase \in {"chunk", "finish"} => client[r].at <= Len(bundle[r])
  /\ client[r].phase = "chunk" /\ reply[r].is = "ok" => reply[r].at <= Len(bundle[r])

\* A receipt, an answer to finish and a report stand for an environment.
ReceiptInv(r) ==
  /\ \/ "receipt" \in files[r] \/ client[r].told
     \/ client[r].phase = "finish" /\ reply[r].is = "ok"
     => Len(bundle[r]) = Size /\ EnvOf[r] \in environments
  /\ client[r].phase \in {"new", "begin", "chunk", "finish"} => ~client[r].told

\* begin() counts under the root's lock; what changes meanwhile only shrinks.
LimitInv ==
  /\ Distinct(root)
  /\ begun.at # "list" => root # <<>>
  /\ begun.at = "rmdir" => begun.victim \in Run
  /\ begun.at = "fill" => files[Head(root)] = {"dir"} /\ Cardinality(Active) <= MaxActive
  /\ \A r \in Run : "bundle" \in files[r] => "dir" \in files[r]
  /\ Cardinality(Receiving) <= MaxActive

Inv ==
  /\ \A r \in Run : BeginInv(r) /\ StepInv(r) /\ StoreInv(r) /\ ReceiptInv(r)
  /\ LimitInv
-----------------------------------------------------------------------------
LEMMA Constants ==
  /\ IsFiniteSet(Run) /\ NoRun \notin Run
  /\ Size \in Nat /\ Size > 0 /\ Attempts \in Nat /\ Attempts > 0
  /\ MaxActive \in Nat /\ MaxFaults \in Nat
  BY UploadAssumption

LEMMA TailMembers ==
  ASSUME NEW S, NEW s \in Seq(S), s # <<>>
  PROVE  /\ Head(s) \in S /\ Head(s) \in Members(s) /\ Tail(s) \in Seq(S)
         /\ Members(Tail(s)) \subseteq Members(s)
         /\ Distinct(s) => Distinct(Tail(s)) /\ Members(Tail(s)) = Members(s) \ {Head(s)}
<1>1. /\ Len(s) \in Nat \ {0} /\ Tail(s) \in Seq(S) /\ Len(Tail(s)) = Len(s) - 1
      /\ \A i \in 1..Len(Tail(s)) : Tail(s)[i] = s[i + 1]
      /\ Head(s) = s[1] /\ Head(s) \in S
  BY HeadTailProperties, EmptySeq
<1>2. Head(s) \in Members(s) /\ Members(Tail(s)) \subseteq Members(s)
  BY <1>1 DEF Members
<1>3. Members(s) \subseteq Members(Tail(s)) \cup {Head(s)}
  <2> SUFFICES ASSUME NEW i \in 1..Len(s), i # 1 PROVE s[i] \in Members(Tail(s))
    BY <1>1 DEF Members
  <2>1. i - 1 \in 1..Len(Tail(s)) /\ Tail(s)[i - 1] = s[i]
    BY <1>1
  <2> QED BY <2>1 DEF Members
<1>4. ASSUME Distinct(s)
      PROVE  Distinct(Tail(s)) /\ Head(s) \notin Members(Tail(s))
  BY <1>1, <1>4 DEF Distinct, Members
<1> QED BY <1>1, <1>2, <1>3, <1>4

LEMMA AppendMembers ==
  ASSUME NEW S, NEW s \in Seq(S), NEW x \in S
  PROVE  /\ Append(s, x) \in Seq(S) /\ Append(s, x) # <<>>
         /\ Members(Append(s, x)) = Members(s) \cup {x}
         /\ s # <<>> => Head(Append(s, x)) = Head(s)
         /\ s = <<>> => Head(Append(s, x)) = x
         /\ Distinct(s) /\ x \notin Members(s) => Distinct(Append(s, x))
<1>1. /\ Append(s, x) \in Seq(S) /\ Len(Append(s, x)) = Len(s) + 1 /\ Len(s) \in Nat
      /\ \A i \in 1..Len(s) : Append(s, x)[i] = s[i]
      /\ Append(s, x)[Len(s) + 1] = x
      /\ Append(s, x) # <<>>
  BY AppendProperties
<1>2. Members(Append(s, x)) = Members(s) \cup {x}
  <2>1. Members(Append(s, x)) \subseteq Members(s) \cup {x}
    BY <1>1 DEF Members
  <2>2. Members(s) \subseteq Members(Append(s, x))
    BY <1>1 DEF Members
  <2>3. x \in Members(Append(s, x))
    BY <1>1 DEF Members
  <2> QED BY <2>1, <2>2, <2>3
<1>3. /\ s # <<>> => Head(Append(s, x)) = Head(s)
      /\ s = <<>> => Head(Append(s, x)) = x
  BY <1>1, HeadTailProperties, EmptySeq
<1>4. Distinct(s) /\ x \notin Members(s) => Distinct(Append(s, x))
  BY <1>1 DEF Distinct, Members
<1> QED BY <1>1, <1>2, <1>3, <1>4

LEMMA NoMembers == Members(<<>>) = {} /\ Distinct(<<>>)
  BY EmptySeq DEF Members, Distinct

LEMMA CallTypes ==
  ASSUME NEW c \in Call
  PROVE  /\ c \in [kind : {"begin", "chunk", "finish", "abort"},
                   at : 0..Size, attempt : 1..(Attempts + 2)]
         /\ c.at \in 0..Size /\ c.kind \in {"begin", "chunk", "finish", "abort"}
         /\ c.kind = "chunk" => c.at < Size
         /\ c.kind = "begin" => c = BeginCall
  BY DEF Call, BeginCall

\* What Init and every restart leave is well-typed.
LEMMA BeginCallType == BeginCall \in Call /\ BeginCall.kind = "begin"
  BY Constants DEF Call, BeginCall

\* What the script has reached when it goes on: one of the outcomes of a call.
Outcome(r) ==
  LET c == client[r] IN
  \/ c.phase \in {"begin", "abort"} /\ Continue(r, "failed", c.at, c.attempt, c.told)
  \/ /\ c.phase \in {"chunk", "finish"} /\ c.attempt < Attempts
     /\ Continue(r, c.phase, c.at, c.attempt + 1, c.told)
  \/ /\ c.phase \in {"chunk", "finish", "thank"}
     /\ Continue(r, "abort", c.at, Attempts + 2, c.told)
  \/ c.phase = "chunk" /\ Continue(r, "abort", c.at, Attempts + 2, FALSE)
  \/ /\ c.phase = "begin" /\ reply[r].is = "ok" /\ Continue(r, "chunk", 0, 1, FALSE)
  \/ /\ c.phase = "chunk" /\ reply[r].is = "ok" /\ reply[r].at = c.at + 1
     /\ Continue(r, IF reply[r].at = Size THEN "finish" ELSE "chunk", reply[r].at, 1, FALSE)
  \/ /\ c.phase = "finish" /\ reply[r].is = "ok"
     /\ Continue(r, "thank", c.at, Attempts + 1, TRUE)
  \/ c.phase = "thank" /\ Continue(r, "ok", c.at, c.attempt, c.told)

LEMMA Outcomes ==
  ASSUME TypeOK, NEW r \in Run, Waiting(r),
         Failed(r) \/ (reply[r].is = "ok" /\ Answered(r))
  PROVE  Outcome(r)
<1>1. client[r].phase \in {"begin", "chunk", "finish", "thank", "abort"}
  BY DEF Waiting, Phases, Ended
<1>2. client[r].told \in BOOLEAN /\ client[r].attempt \in Nat /\ Attempts \in Nat
  BY Constants DEF TypeOK
<1>3. CASE Failed(r)
  <2>1. CASE client[r].phase = "begin"
    BY <1>3, <2>1 DEF Failed, Outcome
  <2>2. CASE client[r].phase \in {"chunk", "finish"} /\ client[r].attempt < Attempts
    BY <1>3, <2>2 DEF Failed, Outcome
  <2>3. CASE client[r].phase \in {"chunk", "finish"} /\ ~ (client[r].attempt < Attempts)
    <3>1. client[r].attempt >= Attempts
      BY <1>2, <2>3
    <3> QED BY <1>3, <2>3, <3>1 DEF Failed, Outcome
  <2>4. CASE client[r].phase = "thank"
    BY <1>3, <2>4 DEF Failed, Outcome
  <2>5. CASE client[r].phase = "abort"
    BY <1>3, <2>5 DEF Failed, Outcome
  <2> QED BY <1>1, <2>1, <2>2, <2>3, <2>4, <2>5
<1>4. CASE reply[r].is = "ok" /\ Answered(r)
  <2>1. CASE client[r].phase = "begin"
    BY <1>4, <2>1 DEF Answered, Outcome
  <2>2. CASE client[r].phase = "chunk" /\ reply[r].at = client[r].at + 1
    BY <1>4, <2>2 DEF Answered, Outcome
  <2>3. CASE client[r].phase = "chunk" /\ reply[r].at # client[r].at + 1
    BY <1>4, <2>3 DEF Answered, Outcome
  <2>4. CASE client[r].phase = "finish"
    BY <1>4, <2>4 DEF Answered, Outcome
  <2>5. CASE client[r].phase = "thank"
    BY <1>4, <2>5 DEF Answered, Outcome
  <2>6. CASE client[r].phase = "abort"
    BY <1>4, <2>6 DEF Answered, Outcome
  <2> QED BY <1>1, <2>1, <2>2, <2>3, <2>4, <2>5, <2>6
<1> QED BY <1>3, <1>4

-----------------------------------------------------------------------------
\* What the script does when a call has ended, as far as the invariants see it.
Moved(r) ==
  /\ client' \in [Run -> [phase : Phases, at : 0..Size, attempt : 1..(Attempts + 2), told : BOOLEAN]]
  /\ \A p \in Run \ {r} : client'[p] = client[p] /\ calls'[p] = calls[p] /\ reply'[p] = reply[p]
  /\ client'[r].phase \notin Ended => CallOf(client'[r]) \in Call
  /\ client'[r].phase \notin {"new", "begin"}
  /\ calls' \in [Run -> SUBSET Call] /\ reply' \in [Run -> Reply]
  /\ reply'[r].is = "none"
  /\ \A p \in Run : BeginCall \in calls'[p] <=> BeginCall \in calls[p]
  /\ InFlight(r) => client'[r].phase = "failed" /\ calls'[r] = calls[r]
  /\ client'[r].phase \in {"chunk", "finish"} => client'[r].at <= Len(bundle[r])

\* The script goes on with a call of another kind than begin, or ends.
LEMMA Continues ==
  ASSUME TypeOK, NEW r \in Run,
         NEW phase \in Phases \ {"new", "begin"}, NEW at \in 0..Size,
         NEW attempt \in 1..(Attempts + 2), NEW told \in BOOLEAN,
         Continue(r, phase, at, attempt, told), phase = "chunk" => at < Size,
         InFlight(r) => phase = "failed",
         phase \in {"chunk", "finish"} => at <= Len(bundle[r])
  PROVE  Moved(r) /\ client'[r].phase = phase /\ client'[r].told = told
<1> DEFINE next == [phase |-> phase, at |-> at, attempt |-> attempt, told |-> told]
<1>1. /\ client' = [client EXCEPT ![r] = next] /\ reply' = [reply EXCEPT ![r] = NoReply]
      /\ calls' = IF phase \in Ended THEN calls ELSE [calls EXCEPT ![r] = @ \cup {CallOf(next)}]
  BY DEF Continue
<1>2. next \in [phase : Phases, at : 0..Size, attempt : 1..(Attempts + 2), told : BOOLEAN]
  OBVIOUS
<1>3. phase \notin Ended => CallOf(next) \in Call /\ CallOf(next) # BeginCall
  BY DEF Phases, Ended, CallOf, Call, Kind, BeginCall
<1>4. /\ next.phase = phase
      /\ client \in [Run -> [phase : Phases, at : 0..Size, attempt : 1..(Attempts + 2), told : BOOLEAN]]
      /\ calls \in [Run -> SUBSET Call] /\ reply \in [Run -> Reply]
  BY DEF TypeOK
<1> HIDE DEF next
<1>5. /\ client' \in [Run -> [phase : Phases, at : 0..Size, attempt : 1..(Attempts + 2), told : BOOLEAN]]
      /\ \A p \in Run \ {r} : client'[p] = client[p]
      /\ client'[r] = next
  BY <1>1, <1>2, <1>4
<1>6. NoReply \in Reply /\ NoReply.is = "none"
  BY Constants DEF Reply, NoReply
<1>7. /\ reply' \in [Run -> Reply] /\ reply'[r] = NoReply
      /\ \A p \in Run \ {r} : reply'[p] = reply[p]
  BY <1>1, <1>4, <1>6
<1>8. /\ calls' \in [Run -> SUBSET Call]
      /\ \A p \in Run \ {r} : calls'[p] = calls[p]
      /\ \A p \in Run : BeginCall \in calls'[p] <=> BeginCall \in calls[p]
  <2>1. CASE phase \in Ended
    BY <2>1, <1>1, <1>4
  <2>2. CASE phase \notin Ended
    BY <2>2, <1>1, <1>3, <1>4
  <2> QED BY <2>1, <2>2
<1>9. /\ client'[r].phase = phase /\ client'[r].at = at /\ client'[r].told = told
      /\ reply'[r].is = "none"
      /\ phase \notin Ended => CallOf(client'[r]) \in Call
  BY <1>3, <1>5, <1>6, <1>7 DEF next
<1>10. InFlight(r) => calls'[r] = calls[r]
  BY <1>1 DEF Ended
<1> QED BY <1>5, <1>7, <1>8, <1>9, <1>10 DEF Moved

\* It reports an environment only after an answer to finish, and for good.
Tells(r) ==
  \/ client'[r].told = client[r].told /\ client'[r].phase \notin {"chunk", "finish"}
  \/ client'[r].told = FALSE /\ client[r].told = FALSE
  \/ client'[r].told = TRUE /\ client[r].phase = "finish" /\ reply[r].is = "ok"
     /\ client'[r].phase = "thank"

LEMMA Moves ==
  ASSUME TypeOK, NEW r \in Run, Waiting(r), Outcome(r),
         BeginInv(r), StoreInv(r), ReceiptInv(r)
  PROVE  Moved(r) /\ Tells(r)
<1> DEFINE c == client[r]
<1>1. /\ c \in [phase : Phases, at : 0..Size, attempt : 1..(Attempts + 2), told : BOOLEAN]
      /\ CallOf(c) \in Call /\ reply[r] \in Reply
  BY DEF TypeOK
<1>2. /\ c.phase \in Phases \ ({"new"} \cup Ended) /\ c.at \in 0..Size
      /\ c.attempt \in 1..(Attempts + 2) /\ c.told \in BOOLEAN
      /\ c.phase = "chunk" => c.at < Size
      /\ reply[r].at \in 0..Size
  BY <1>1 DEF Waiting, Call, CallOf, Kind, Reply
<1>3. InFlight(r) => c.phase = "begin" /\ reply[r].is = "none"
  BY <1>2 DEF BeginInv, Ended
<1>4. /\ c.phase \in {"chunk", "finish"} => c.at <= Len(bundle[r])
      /\ c.phase = "chunk" /\ reply[r].is = "ok" => reply[r].at <= Len(bundle[r])
  BY DEF StoreInv
<1>5. {"failed", "ok", "abort", "chunk", "finish", "thank"} \subseteq Phases \ {"new", "begin"}
  BY DEF Phases
<1>6. /\ {1, Attempts + 1, Attempts + 2} \subseteq 1..(Attempts + 2)
      /\ 0 \in 0..Size /\ 0 < Size /\ {TRUE, FALSE} \subseteq BOOLEAN
  BY Constants
<1>7. c.phase \in {"begin", "chunk", "finish"} => c.told = FALSE
  BY <1>2 DEF ReceiptInv
<1> HIDE DEF c
<1>a. CASE c.phase \in {"begin", "abort"} /\ Continue(r, "failed", c.at, c.attempt, c.told)
  <2>1. Moved(r) /\ client'[r].phase = "failed" /\ client'[r].told = c.told
    BY <1>a, <1>2, <1>3, <1>5, Continues
  <2> QED BY <2>1 DEF Tells, c
<1>b. CASE /\ c.phase \in {"chunk", "finish"} /\ c.attempt < Attempts
           /\ Continue(r, c.phase, c.at, c.attempt + 1, c.told)
  <2>1. c.attempt + 1 \in 1..(Attempts + 2)
    BY <1>b, <1>2, Constants
  <2>2. Moved(r) /\ client'[r].told = c.told
    BY <1>b, <1>2, <1>3, <1>4, <1>5, <2>1, Continues
  <2> QED BY <1>b, <2>2, <1>7 DEF Tells, c
<1>c. CASE /\ c.phase \in {"chunk", "finish", "thank"}
           /\ Continue(r, "abort", c.at, Attempts + 2, c.told)
  <2>1. Moved(r) /\ client'[r].phase = "abort" /\ client'[r].told = c.told
    BY <1>c, <1>2, <1>3, <1>5, <1>6, Continues
  <2> QED BY <2>1 DEF Tells, c
<1>d. CASE c.phase = "chunk" /\ Continue(r, "abort", c.at, Attempts + 2, FALSE)
  <2>1. Moved(r) /\ client'[r].told = FALSE
    BY <1>d, <1>2, <1>3, <1>5, <1>6, Continues
  <2> QED BY <1>d, <2>1, <1>7 DEF Tells, c
<1>e. CASE c.phase = "begin" /\ reply[r].is = "ok" /\ Continue(r, "chunk", 0, 1, FALSE)
  <2>1. 0 <= Len(bundle[r])
    BY LenProperties DEF TypeOK
  <2>2. Moved(r) /\ client'[r].told = FALSE
    BY <1>e, <2>1, <1>2, <1>3, <1>5, <1>6, Continues
  <2> QED BY <1>e, <2>2, <1>7 DEF Tells, c
<1>f. CASE /\ c.phase = "chunk" /\ reply[r].is = "ok" /\ reply[r].at = c.at + 1
           /\ Continue(r, IF reply[r].at = Size THEN "finish" ELSE "chunk", reply[r].at, 1, FALSE)
  <2>1. CASE reply[r].at = Size
    <3>1. Continue(r, "finish", reply[r].at, 1, FALSE)
      BY <1>f, <2>1
    <3>2. Moved(r) /\ client'[r].told = FALSE
      BY <1>f, <3>1, <1>2, <1>3, <1>4, <1>5, <1>6, Continues
    <3> QED BY <1>f, <3>2, <1>7 DEF Tells, c
  <2>2. CASE reply[r].at # Size
    <3>1. Continue(r, "chunk", reply[r].at, 1, FALSE)
      BY <1>f, <2>2
    <3>2. reply[r].at < Size
      BY <2>2, <1>2, Constants
    <3>3. Moved(r) /\ client'[r].told = FALSE
      BY <1>f, <3>1, <3>2, <1>2, <1>3, <1>4, <1>5, <1>6, Continues
    <3> QED BY <1>f, <3>3, <1>7 DEF Tells, c
  <2> QED BY <2>1, <2>2
<1>g. CASE /\ c.phase = "finish" /\ reply[r].is = "ok"
           /\ Continue(r, "thank", c.at, Attempts + 1, TRUE)
  <2>1. Moved(r) /\ client'[r].phase = "thank" /\ client'[r].told = TRUE
    BY <1>g, <1>2, <1>3, <1>5, <1>6, Continues
  <2> QED BY <1>g, <2>1 DEF Tells, c
<1>h. CASE c.phase = "thank" /\ Continue(r, "ok", c.at, c.attempt, c.told)
  <2>1. Moved(r) /\ client'[r].phase = "ok" /\ client'[r].told = c.told
    BY <1>h, <1>2, <1>3, <1>5, <1>6, Continues
  <2> QED BY <2>1 DEF Tells, c
<1> QED BY <1>a, <1>b, <1>c, <1>d, <1>e, <1>f, <1>g, <1>h DEF Outcome, c

-----------------------------------------------------------------------------
\* A server that has not moved keeps what the invariants say of other runs.
LEMMA ScriptStep ==
  ASSUME TypeOK, Inv, NEW r \in Run, Moved(r), Tells(r),
         UNCHANGED <<live, queue, step, root, begun, files, bundle, aged, environments>>,
         excused' \in SUBSET Run, faults' \in 0..MaxFaults
  PROVE  TypeOK' /\ Inv'
<1>1. TypeOK'
  <2>1. \A p \in Run : Waiting(p)' => CallOf(client'[p]) \in Call
    <3> SUFFICES ASSUME NEW p \in Run, Waiting(p)' PROVE CallOf(client'[p]) \in Call
      OBVIOUS
    <3>1. CASE p = r
      BY <3>1 DEF Moved, Waiting
    <3>2. CASE p # r
      <4>1. Waiting(p) /\ client'[p] = client[p]
        BY <3>2 DEF Moved, Waiting
      <4> QED BY <4>1 DEF TypeOK
    <3> QED BY <3>1, <3>2
  <2> QED BY <2>1 DEF TypeOK, Moved
<1>2. LimitInv'
  BY DEF Inv, LimitInv, Active, Receiving
<1>3. ASSUME NEW p \in Run, p # r
      PROVE  BeginInv(p)' /\ StepInv(p)' /\ StoreInv(p)' /\ ReceiptInv(p)'
  <2>1. client'[p] = client[p] /\ calls'[p] = calls[p] /\ reply'[p] = reply[p]
    BY <1>3 DEF Moved
  <2>2. InFlight(p)' <=> InFlight(p)
    BY <2>1 DEF InFlight
  <2> QED BY <2>1, <2>2 DEF Inv, BeginInv, StepInv, StoreInv, ReceiptInv
<1>4. InFlight(r)' <=> InFlight(r)
  BY DEF InFlight, Moved
<1>5. BeginInv(r)'
  BY <1>4 DEF Inv, BeginInv, Moved
<1>6. StepInv(r)' /\ StoreInv(r)'
  BY DEF Inv, StepInv, StoreInv, Moved
<1>7. ReceiptInv(r)'
  <2>1. reply'[r].is # "ok" /\ client'[r].phase \notin {"new", "begin"}
    BY DEF Moved
  <2>2. ReceiptInv(r)
    BY DEF Inv
  <2>3. CASE client'[r].told = client[r].told /\ client'[r].phase \notin {"chunk", "finish"}
    BY <2>1, <2>2, <2>3 DEF ReceiptInv
  <2>4. CASE client'[r].told = FALSE /\ client[r].told = FALSE
    BY <2>1, <2>2, <2>4 DEF ReceiptInv
  <2>5. CASE /\ client'[r].told = TRUE /\ client[r].phase = "finish" /\ reply[r].is = "ok"
             /\ client'[r].phase = "thank"
    BY <2>1, <2>2, <2>5 DEF ReceiptInv
  <2> QED BY <2>3, <2>4, <2>5 DEF Tells
<1> QED BY <1>1, <1>2, <1>3, <1>5, <1>6, <1>7 DEF Inv

\* What is counted under the root's lock only shrinks.
LEMMA LimitKept ==
  ASSUME TypeOK, LimitInv, UNCHANGED <<root, begun>>,
         Active' \subseteq Active, Receiving' \subseteq Receiving,
         \A r \in Run : "bundle" \in files'[r] => "dir" \in files'[r],
         begun.at = "fill" => files'[Head(root)] = files[Head(root)]
  PROVE  LimitInv'
<1>1. IsFiniteSet(Active) /\ IsFiniteSet(Receiving)
  BY Constants, FS_Subset DEF Active, Receiving
<1>2. Cardinality(Active') <= Cardinality(Active) /\ Cardinality(Receiving') <= Cardinality(Receiving)
  BY <1>1, FS_Subset
<1>3. /\ Cardinality(Active) \in Nat /\ Cardinality(Receiving) \in Nat
      /\ Cardinality(Active') \in Nat /\ Cardinality(Receiving') \in Nat
  BY <1>1, FS_Subset, FS_CardinalityType
<1> QED BY <1>2, <1>3, Constants DEF LimitInv

LEMMA Answers ==
  ASSUME TypeOK, NEW r \in Run, NEW c \in Call, NEW is \in {"ok", "error"},
         NEW at \in 0..Size, Answer(r, c, is, at)
  PROVE  /\ reply' \in [Run -> Reply]
         /\ \A p \in Run \ {r} : reply'[p] = reply[p]
         /\ \/ reply'[r] = reply[r]
            \/ /\ Waiting(r) /\ c = CallOf(client[r])
               /\ reply'[r].is = is /\ reply'[r].at = at
<1>1. reply \in [Run -> Reply] /\ [is |-> is, at |-> at] \in Reply
  BY DEF TypeOK, Reply
<1> QED BY <1>1 DEF Answer

\* A handler of a call on r leaves alone what other runs and begin() look at.
Frame(r) ==
  /\ UNCHANGED <<client, calls, live, root, begun, faults>>
  /\ \A p \in Run \ {r} : queue'[p] = queue[p] /\ step'[p] = step[p] /\ reply'[p] = reply[p]
                          /\ files'[p] = files[p] /\ bundle'[p] = bundle[p]
  /\ queue' \in [Run -> Seq(Call)] /\ reply' \in [Run -> Reply]
  /\ step' \in [Run -> {"start", "write", "import", "receipt", "clean"}]
  /\ files' \in [Run -> SUBSET Entries] /\ bundle' \in [Run -> Seq(1..Size)]
  /\ aged' \in SUBSET Run /\ excused' \in SUBSET Run
  /\ environments' \in SUBSET Env /\ environments \subseteq environments'
  /\ "dir" \in files'[r] /\ "receipt" \notin files'[r]
       => "dir" \in files[r] /\ "receipt" \notin files[r]
  /\ "bundle" \in files'[r] => "bundle" \in files[r] /\ "dir" \in files'[r]
  /\ "receipt" \in files[r] => "receipt" \in files'[r] \/ files'[r] = {}

LEMMA HandlerStep ==
  ASSUME TypeOK, Inv, NEW r \in Run, queue[r] # <<>>, Frame(r),
         StepInv(r)', StoreInv(r)', ReceiptInv(r)'
  PROVE  TypeOK' /\ Inv'
<1>1. TypeOK'
  BY DEF TypeOK, Frame, Waiting
<1>2. ~InFlight(r) /\ client[r].phase \notin {"new", "begin"}
  BY DEF Inv, BeginInv
<1>3. \A p \in Run : InFlight(p)' <=> InFlight(p)
  BY DEF InFlight, Frame
<1>4. BeginInv(r)'
  BY <1>2, <1>3 DEF Inv, BeginInv, Frame, InFlight
<1>5. ASSUME NEW p \in Run, p # r
      PROVE  BeginInv(p)' /\ StepInv(p)' /\ StoreInv(p)' /\ ReceiptInv(p)'
  <2>1. /\ client' = client /\ calls' = calls /\ root' = root
        /\ queue'[p] = queue[p] /\ step'[p] = step[p] /\ reply'[p] = reply[p]
        /\ files'[p] = files[p] /\ bundle'[p] = bundle[p] /\ environments \subseteq environments'
    BY <1>5 DEF Frame
  <2>2. BeginInv(p)'
    BY <2>1, <1>3 DEF Inv, BeginInv
  <2>3. StepInv(p)' /\ StoreInv(p)' /\ ReceiptInv(p)'
    BY <2>1 DEF Inv, StepInv, StoreInv, ReceiptInv
  <2> QED BY <2>2, <2>3
<1>6. LimitInv'
  <2>1. Active' \subseteq Active /\ Receiving' \subseteq Receiving
    <3>1. ASSUME NEW p \in Active' PROVE p \in Active
      BY <3>1 DEF Active, Frame
    <3>2. ASSUME NEW p \in Receiving' PROVE p \in Receiving
      BY <3>2 DEF Receiving, Active, Frame, Inv, LimitInv
    <3> QED BY <3>1, <3>2
  <2>2. \A p \in Run : "bundle" \in files'[p] => "dir" \in files'[p]
    BY DEF Inv, LimitInv, Frame
  <2>3. begun.at = "fill" => Head(root) # r /\ Head(root) \in Run
    <3> SUFFICES ASSUME begun.at = "fill" PROVE Head(root) # r /\ Head(root) \in Run
      OBVIOUS
    <3>1. root # <<>> /\ root \in Seq(Run)
      BY DEF Inv, LimitInv, TypeOK
    <3>2. Head(root) \in Members(root) /\ Head(root) \in Run
      BY <3>1, TailMembers
    <3> QED BY <3>2, <1>2 DEF InFlight
  <2> QED BY <2>1, <2>2, <2>3, LimitKept DEF Inv, Frame
<1> QED BY <1>1, <1>4, <1>5, <1>6 DEF Inv

LEMMA Finishes ==
  ASSUME TypeOK, NEW r \in Run, queue[r] # <<>>,
         NEW is \in {"ok", "error"}, NEW at \in 0..Size, Finish(r, is, at)
  PROVE  /\ queue' \in [Run -> Seq(Call)] /\ reply' \in [Run -> Reply]
         /\ step' \in [Run -> {"start", "write", "import", "receipt", "clean"}]
         /\ \A p \in Run \ {r} : queue'[p] = queue[p] /\ step'[p] = step[p] /\ reply'[p] = reply[p]
         /\ step'[r] = "start"
         /\ \/ reply'[r] = reply[r]
            \/ /\ Waiting(r) /\ Head(queue[r]) = CallOf(client[r])
               /\ reply'[r].is = is /\ reply'[r].at = at
<1>1. queue[r] \in Seq(Call)
  BY DEF TypeOK
<1>2. Head(queue[r]) \in Call /\ Tail(queue[r]) \in Seq(Call)
  BY <1>1, TailMembers
<1>3. /\ Answer(r, Head(queue[r]), is, at)
      /\ queue' = [queue EXCEPT ![r] = Tail(@)] /\ step' = [step EXCEPT ![r] = "start"]
  BY DEF Finish
<1>4. /\ queue \in [Run -> Seq(Call)]
      /\ step \in [Run -> {"start", "write", "import", "receipt", "clean"}]
  BY DEF TypeOK
<1>5. /\ queue' \in [Run -> Seq(Call)] /\ \A p \in Run \ {r} : queue'[p] = queue[p]
  BY <1>2, <1>3, <1>4
<1>6. /\ step' \in [Run -> {"start", "write", "import", "receipt", "clean"}]
      /\ step'[r] = "start" /\ \A p \in Run \ {r} : step'[p] = step[p]
  BY <1>3, <1>4
<1> QED BY <1>2, <1>3, <1>5, <1>6, Answers

LEMMA Advances ==
  ASSUME TypeOK, NEW r \in Run, NEW at \in {"write", "import", "receipt", "clean"}, Advance(r, at)
  PROVE  /\ step' \in [Run -> {"start", "write", "import", "receipt", "clean"}]
         /\ \A p \in Run \ {r} : step'[p] = step[p]
         /\ step'[r] = at /\ queue' = queue /\ reply' = reply
  BY DEF Advance, TypeOK

\* What holds of the run whose first call is handled.
LEMMA Now ==
  ASSUME TypeOK, Inv, NEW r \in Run, queue[r] # <<>>
  PROVE  /\ StepInv(r) /\ StoreInv(r) /\ ReceiptInv(r)
         /\ queue \in [Run -> Seq(Call)] /\ reply \in [Run -> Reply]
         /\ step \in [Run -> {"start", "write", "import", "receipt", "clean"}]
         /\ files \in [Run -> SUBSET Entries] /\ bundle \in [Run -> Seq(1..Size)]
         /\ aged \in SUBSET Run /\ excused \in SUBSET Run /\ environments \in SUBSET Env
         /\ Len(bundle[r]) \in 0..Size
         /\ Head(queue[r]) \in Call /\ Head(queue[r]).at \in 0..Size
         /\ Head(queue[r]).kind = "chunk" => Head(queue[r]).at < Size
         /\ "bundle" \in files[r] => "dir" \in files[r]
         /\ client[r].phase \in Phases
<1>1. queue \in [Run -> Seq(Call)] /\ bundle \in [Run -> Seq(1..Size)]
  BY DEF TypeOK
<1>2. queue[r] \in Seq(Call) /\ bundle[r] \in Seq(1..Size)
  BY <1>1
<1>3. Head(queue[r]) \in Call
  BY <1>2, TailMembers
<1>4. Head(queue[r]).at \in 0..Size /\ (Head(queue[r]).kind = "chunk" => Head(queue[r]).at < Size)
  BY <1>3, CallTypes
<1>5. Len(bundle[r]) \in Nat /\ Len(bundle[r]) <= Size
  BY <1>2, LenProperties DEF Inv, StoreInv
<1>6. Len(bundle[r]) \in 0..Size
  BY <1>5, Constants
<1> QED BY <1>1, <1>3, <1>4, <1>6 DEF TypeOK, Inv, LimitInv

\* Which call the script waits for tells its phase.
LEMMA PhaseOfCall ==
  ASSUME NEW c \in Call, NEW r \in Run, client[r].phase \in Phases, Waiting(r), c = CallOf(client[r])
  PROVE  /\ c.kind = "chunk" => client[r].phase = "chunk" /\ client[r].at = c.at
         /\ c.kind = "finish" => client[r].phase = "finish"
         /\ c.kind = "abort" => client[r].phase \in {"abort", "thank"}
         /\ c.kind = "begin" => client[r].phase = "begin"
  BY DEF Waiting, CallOf, Kind, Phases, Ended

\* A call that fails, and leaves all but its place in the queue and its answer.
LEMMA ErrorStep ==
  ASSUME TypeOK, Inv, NEW r \in Run, queue[r] # <<>>,
         Finish(r, "error", 0), excused' \in SUBSET Run,
         UNCHANGED <<files, bundle, aged, environments, DirRest>>
  PROVE  TypeOK' /\ Inv'
<1>1. /\ "error" \in {"ok", "error"} /\ 0 \in 0..Size
  BY Constants
<1>2. Frame(r)
  BY <1>1, Now, Finishes DEF Frame, DirRest
<1>3. reply'[r] = reply[r] \/ reply'[r].is = "error"
  BY <1>1, Finishes
<1>4. StepInv(r)'
  <2>1. step'[r] = "start"
    BY <1>1, Finishes
  <2> QED BY <2>1 DEF StepInv
<1>5. StoreInv(r)' /\ ReceiptInv(r)'
  BY <1>3, Now DEF StoreInv, ReceiptInv, DirRest
<1> QED BY <1>2, <1>4, <1>5, HandlerStep

LEMMA ChunkStartStep ==
  ASSUME TypeOK, Inv, NEW r \in Run, ChunkStart(r)
  PROVE  TypeOK' /\ Inv'
<1> DEFINE at == Head(queue[r]).at
<1>1. /\ queue[r] # <<>> /\ Head(queue[r]).kind = "chunk"
      /\ UNCHANGED <<excused, files, bundle, aged, environments, DirRest>>
  BY DEF ChunkStart, Handling
<1>2. excused' \in SUBSET Run
  BY <1>1, Now
<1>3. \/ Finish(r, "error", 0)
      \/ at = Len(bundle[r]) /\ Advance(r, "write")
      \/ Finish(r, "ok", Len(bundle[r]))
  BY DEF ChunkStart
<1> HIDE DEF at
<1>4. CASE Finish(r, "error", 0)
  BY <1>1, <1>2, <1>4, ErrorStep
<1>5. CASE at = Len(bundle[r]) /\ Advance(r, "write")
  <2>1. Frame(r)
    BY <1>1, <1>5, Now, Advances DEF Frame, DirRest
  <2>2. step'[r] = "write" /\ queue' = queue /\ reply' = reply
    BY <1>5, Advances
  <2>3. StepInv(r)'
    BY <1>1, <1>5, <2>2 DEF StepInv, at
  <2>4. StoreInv(r)' /\ ReceiptInv(r)'
    BY <1>1, <2>2, Now DEF StoreInv, ReceiptInv, DirRest
  <2> QED BY <1>1, <2>1, <2>3, <2>4, HandlerStep
<1>6. CASE Finish(r, "ok", Len(bundle[r]))
  <2>1. Frame(r)
    BY <1>1, <1>6, Now, Finishes DEF Frame, DirRest
  <2>2. /\ step'[r] = "start"
        /\ \/ reply'[r] = reply[r]
           \/ client[r].phase = "chunk" /\ reply'[r].at = Len(bundle[r])
    BY <1>1, <1>6, Now, Finishes, PhaseOfCall
  <2>3. StepInv(r)'
    BY <2>2 DEF StepInv
  <2>4. StoreInv(r) /\ ReceiptInv(r) /\ Len(bundle[r]) <= Len(bundle[r])
    BY <1>1, Now
  <2>5. StoreInv(r)'
    BY <1>1, <2>2, <2>4 DEF StoreInv, DirRest
  <2>6. ReceiptInv(r)'
    BY <1>1, <2>2, <2>4 DEF ReceiptInv, DirRest
  <2> QED BY <1>1, <2>1, <2>3, <2>5, <2>6, HandlerStep
<1> QED BY <1>3, <1>4, <1>5, <1>6

\* The number after the last one continues the prefix.
LEMMA Longer ==
  ASSUME NEW s \in Seq(1..Size), Len(s) < Size, s = [i \in 1..Len(s) |-> i]
  PROVE  /\ Append(s, Len(s) + 1) \in Seq(1..Size)
         /\ Len(Append(s, Len(s) + 1)) = Len(s) + 1
         /\ Append(s, Len(s) + 1) = [i \in 1..(Len(s) + 1) |-> i]
<1> DEFINE t == Append(s, Len(s) + 1)
<1>1. Len(s) \in Nat /\ Len(s) + 1 \in 1..Size
  BY Constants, LenProperties
<1>2. /\ t \in Seq(1..Size) /\ Len(t) = Len(s) + 1
      /\ \A i \in 1..Len(s) : t[i] = s[i]
      /\ t[Len(s) + 1] = Len(s) + 1
  BY <1>1, AppendProperties
<1>3. \A i \in 1..(Len(s) + 1) : t[i] = i
  <2> SUFFICES ASSUME NEW i \in 1..(Len(s) + 1) PROVE t[i] = i
    OBVIOUS
  <2>1. CASE i = Len(s) + 1
    BY <2>1, <1>2
  <2>2. CASE i # Len(s) + 1
    <3>1. i \in 1..Len(s)
      BY <2>2, <1>1
    <3>2. s[i] = i
      BY <3>1
    <3> QED BY <3>1, <3>2, <1>2
  <2> QED BY <2>1, <2>2
<1> HIDE DEF t
<1>4. t = [i \in 1..Len(t) |-> t[i]]
  BY <1>2, LenProperties
<1> QED BY <1>2, <1>3, <1>4 DEF t

LEMMA ChunkWriteStep ==
  ASSUME TypeOK, Inv, NEW r \in Run, ChunkWrite(r)
  PROVE  TypeOK' /\ Inv'
<1> DEFINE n == Len(bundle[r])
<1>1. /\ queue[r] # <<>> /\ Head(queue[r]).kind = "chunk" /\ step[r] = "write"
      /\ UNCHANGED <<excused, files, aged, environments, DirRest>>
      /\ bundle' = [bundle EXCEPT ![r] = Append(@, Head(queue[r]).at + 1)]
      /\ Finish(r, "ok", Head(queue[r]).at + 1)
  BY DEF ChunkWrite, Handling
<1>2. Head(queue[r]).at = n /\ n \in 0..Size /\ n < Size
  BY <1>1, Now DEF StepInv
<1>3. /\ bundle \in [Run -> Seq(1..Size)] /\ bundle[r] \in Seq(1..Size)
      /\ bundle[r] = [i \in 1..n |-> i]
  BY <1>1, Now DEF StoreInv
<1> HIDE DEF n
<1>4. n + 1 \in 0..Size
  BY <1>2, Constants
<1>5. /\ bundle' = [bundle EXCEPT ![r] = Append(bundle[r], n + 1)]
      /\ Finish(r, "ok", n + 1)
  BY <1>1, <1>2, <1>3
<1>6. /\ bundle' \in [Run -> Seq(1..Size)] /\ \A p \in Run \ {r} : bundle'[p] = bundle[p]
      /\ Len(bundle'[r]) = n + 1 /\ bundle'[r] = [i \in 1..(n + 1) |-> i]
  BY <1>2, <1>3, <1>5, Longer DEF n
<1>7. /\ queue' \in [Run -> Seq(Call)] /\ reply' \in [Run -> Reply]
      /\ step' \in [Run -> {"start", "write", "import", "receipt", "clean"}]
      /\ \A p \in Run \ {r} : queue'[p] = queue[p] /\ step'[p] = step[p] /\ reply'[p] = reply[p]
      /\ step'[r] = "start"
      /\ \/ reply'[r] = reply[r]
         \/ client[r].phase = "chunk" /\ reply'[r].at = n + 1
  BY <1>1, <1>4, <1>5, Now, Finishes, PhaseOfCall
<1>8. Frame(r)
  BY <1>1, <1>6, <1>7, Now DEF Frame, DirRest
<1>9. StepInv(r)'
  BY <1>7 DEF StepInv
<1>10. StoreInv(r) /\ ReceiptInv(r)
  BY <1>1, Now
<1>11. client' = client /\ files' = files /\ environments' = environments
  BY <1>1 DEF DirRest
<1>12. client[r].phase \in {"chunk", "finish"} => client[r].at <= n + 1
  <2>1. client[r].at \in 0..Size
    BY DEF TypeOK
  <2> QED BY <1>2, <1>10, <2>1 DEF StoreInv, n
<1>13. reply[r].at \in 0..Size
  BY DEF TypeOK, Reply
<1>14. StoreInv(r)'
  <2>1. client[r].phase = "chunk" /\ reply'[r].is = "ok" => reply'[r].at <= n + 1
    BY <1>2, <1>7, <1>10, <1>13 DEF StoreInv, n
  <2> QED BY <1>4, <1>6, <1>11, <1>12, <2>1 DEF StoreInv
<1>15. ReceiptInv(r)'
  <2>1. n # Size
    BY <1>2, Constants
  <2> QED BY <2>1, <1>7, <1>10, <1>11 DEF ReceiptInv, n
<1> QED BY <1>1, <1>8, <1>9, <1>14, <1>15, HandlerStep

\* What is stored does not change, and the run has what it is answered.
LEMMA StoreKept ==
  ASSUME TypeOK, Inv, NEW r \in Run, queue[r] # <<>>,
         client' = client, bundle' = bundle, environments \subseteq environments',
         \/ reply'[r] = reply[r] \/ reply'[r].is = "error"
         \/ client[r].phase \notin {"chunk", "finish"}
         \/ client[r].phase = "finish" /\ Len(bundle[r]) = Size /\ EnvOf[r] \in environments',
         "receipt" \in files'[r] => "receipt" \in files[r]
                                    \/ (Len(bundle[r]) = Size /\ EnvOf[r] \in environments')
  PROVE  StoreInv(r)' /\ ReceiptInv(r)'
  BY Now DEF StoreInv, ReceiptInv

LEMMA CompleteLength ==
  ASSUME NEW r \in Run, Complete(r) PROVE Len(bundle[r]) = Size
<1>1. bundle[r] = [i \in 1..Size |-> i]
  BY DEF Complete
<1> QED BY <1>1, Constants

LEMMA FinishStartStep ==
  ASSUME TypeOK, Inv, NEW r \in Run, FinishStart(r)
  PROVE  TypeOK' /\ Inv'
<1>1. /\ queue[r] # <<>> /\ Head(queue[r]).kind = "finish"
      /\ UNCHANGED <<excused, files, bundle, aged, environments, DirRest>>
      /\ Size \in 0..Size
  BY Constants DEF FinishStart, Handling
<1>2. \/ Finish(r, "error", 0)
      \/ Complete(r) /\ Advance(r, "import")
      \/ "receipt" \in files[r] /\ Finish(r, "ok", Size)
  BY DEF FinishStart
<1>3. CASE Finish(r, "error", 0)
  BY <1>1, <1>3, Now, ErrorStep
<1>4. CASE Complete(r) /\ Advance(r, "import")
  <2>1. Frame(r)
    BY <1>1, <1>4, Now, Advances DEF Frame, DirRest
  <2>2. step'[r] = "import" /\ queue' = queue /\ reply' = reply
    BY <1>4, Advances
  <2>3. StepInv(r)'
    BY <1>1, <1>4, <2>2, CompleteLength DEF StepInv
  <2>4. /\ client' = client /\ bundle' = bundle /\ environments \subseteq environments'
        /\ reply'[r] = reply[r] /\ files' = files /\ queue[r] # <<>>
    BY <1>1, <2>2 DEF DirRest
  <2>5. StoreInv(r)' /\ ReceiptInv(r)'
    BY <2>4, Now DEF StoreInv, ReceiptInv
  <2> QED BY <1>1, <2>1, <2>3, <2>5, HandlerStep
<1>5. CASE "receipt" \in files[r] /\ Finish(r, "ok", Size)
  <2>1. Frame(r)
    BY <1>1, <1>5, Now, Finishes DEF Frame, DirRest
  <2>2. /\ step'[r] = "start"
        /\ reply'[r] = reply[r] \/ client[r].phase = "finish"
    BY <1>1, <1>5, Now, Finishes, PhaseOfCall
  <2>3. StepInv(r)'
    BY <2>2 DEF StepInv
  <2>4. Len(bundle[r]) = Size /\ EnvOf[r] \in environments
    BY <1>1, <1>5, Now DEF ReceiptInv
  <2>5. StoreInv(r)' /\ ReceiptInv(r)'
    BY <1>1, <2>2, <2>4, StoreKept DEF DirRest
  <2> QED BY <1>1, <2>1, <2>3, <2>5, HandlerStep
<1> QED BY <1>2, <1>3, <1>4, <1>5

LEMMA ImportStep ==
  ASSUME TypeOK, Inv, NEW r \in Run, Import(r)
  PROVE  TypeOK' /\ Inv'
<1>1. /\ queue[r] # <<>> /\ step[r] = "import"
      /\ environments' = environments \cup {EnvOf[r]} /\ Advance(r, "receipt")
      /\ UNCHANGED <<excused, files, bundle, aged, DirRest>>
  BY DEF Import, Handling
<1>2. EnvOf[r] \in Env
  BY UploadAssumption
<1>3. step'[r] = "receipt" /\ queue' = queue /\ reply' = reply
  BY <1>1, Advances
<1>4. Frame(r)
  BY <1>1, <1>2, Now, Advances DEF Frame, DirRest
<1>5. StepInv(r)'
  BY <1>1, <1>3, Now DEF StepInv
<1>6. StoreInv(r)' /\ ReceiptInv(r)'
  BY <1>1, <1>3, StoreKept DEF DirRest
<1> QED BY <1>1, <1>4, <1>5, <1>6, HandlerStep

LEMMA ImportFailsStep ==
  ASSUME TypeOK, Inv, NEW r \in Run, ImportFails(r)
  PROVE  TypeOK' /\ Inv'
<1>1. /\ queue[r] # <<>> /\ Finish(r, "error", 0) /\ excused' = excused \cup {r}
      /\ UNCHANGED <<files, bundle, aged, environments, DirRest>>
  BY DEF ImportFails, Handling
<1>2. excused' \in SUBSET Run
  BY <1>1, Now
<1> QED BY <1>1, <1>2, ErrorStep

LEMMA WriteReceiptStep ==
  ASSUME TypeOK, Inv, NEW r \in Run, WriteReceipt(r)
  PROVE  TypeOK' /\ Inv'
<1>1. /\ queue[r] # <<>> /\ step[r] = "receipt"
      /\ UNCHANGED <<excused, bundle, environments, DirRest>>
  BY DEF WriteReceipt, Handling
<1>2. Len(bundle[r]) = Size /\ EnvOf[r] \in environments
  BY <1>1, Now DEF StepInv
<1>3. CASE "dir" \notin files[r]
  <2>1. Finish(r, "error", 0) /\ UNCHANGED <<files, aged>>
    BY <1>3 DEF WriteReceipt
  <2> QED BY <1>1, <2>1, Now, ErrorStep
<1>4. CASE "dir" \in files[r]
  <2>1. /\ files' = [files EXCEPT ![r] = @ \cup {"receipt"}] /\ aged' = aged \ {r}
        /\ Advance(r, "clean")
    BY <1>4 DEF WriteReceipt
  <2>2. step'[r] = "clean" /\ queue' = queue /\ reply' = reply
    BY <2>1, Advances
  <2>3. /\ files' \in [Run -> SUBSET Entries] /\ files'[r] = files[r] \cup {"receipt"}
        /\ \A p \in Run \ {r} : files'[p] = files[p]
    BY <1>1, <2>1, Now DEF Entries
  <2>4. Frame(r)
    BY <1>1, <1>4, <2>1, <2>3, Now, Advances DEF Frame, DirRest
  <2>5. StepInv(r)'
    BY <1>1, <1>2, <2>2 DEF StepInv
  <2>6. StoreInv(r)' /\ ReceiptInv(r)'
    BY <1>1, <1>2, <2>2, StoreKept DEF DirRest
  <2> QED BY <1>1, <2>4, <2>5, <2>6, HandlerStep
<1> QED BY <1>3, <1>4

LEMMA FinishCleanStep ==
  ASSUME TypeOK, Inv, NEW r \in Run, FinishClean(r)
  PROVE  TypeOK' /\ Inv'
<1>1. /\ queue[r] # <<>> /\ Head(queue[r]).kind = "finish" /\ step[r] = "clean"
      /\ files' = [files EXCEPT ![r] = @ \ {"bundle"}] /\ Size \in 0..Size /\ 0 \in 0..Size
      /\ UNCHANGED <<excused, bundle, environments, DirRest>>
      /\ aged' \in {aged, aged \ {r}}
      /\ Finish(r, "ok", Size) \/ Finish(r, "error", 0)
  BY Constants DEF FinishClean, Handling
<1>2. Len(bundle[r]) = Size /\ EnvOf[r] \in environments
  BY <1>1, Now DEF StepInv
<1>3. /\ files' \in [Run -> SUBSET Entries] /\ files'[r] = files[r] \ {"bundle"}
      /\ \A p \in Run \ {r} : files'[p] = files[p]
  BY <1>1, Now
<1>4. /\ queue' \in [Run -> Seq(Call)] /\ reply' \in [Run -> Reply]
      /\ step' \in [Run -> {"start", "write", "import", "receipt", "clean"}]
      /\ \A p \in Run \ {r} : queue'[p] = queue[p] /\ step'[p] = step[p] /\ reply'[p] = reply[p]
      /\ step'[r] = "start"
      /\ reply'[r] = reply[r] \/ client[r].phase = "finish"
  BY <1>1, Now, Finishes, PhaseOfCall
<1>5. Frame(r)
  BY <1>1, <1>3, <1>4, Now DEF Frame, DirRest
<1>6. StepInv(r)'
  BY <1>4 DEF StepInv
<1>7. StoreInv(r)' /\ ReceiptInv(r)'
  BY <1>1, <1>2, <1>4, StoreKept DEF DirRest
<1> QED BY <1>1, <1>5, <1>6, <1>7, HandlerStep

LEMMA AbortStep ==
  ASSUME TypeOK, Inv, NEW r \in Run, Abort(r)
  PROVE  TypeOK' /\ Inv'
<1>1. /\ queue[r] # <<>> /\ Head(queue[r]).kind = "abort"
      /\ files' = [files EXCEPT ![r] = {}] /\ aged' = aged \ {r} /\ 0 \in 0..Size
      /\ UNCHANGED <<excused, bundle, environments, DirRest>>
      /\ Finish(r, "ok", 0)
  BY Constants DEF Abort, Handling
<1>2. /\ files' \in [Run -> SUBSET Entries] /\ files'[r] = {}
      /\ \A p \in Run \ {r} : files'[p] = files[p]
  BY <1>1, Now
<1>3. /\ queue' \in [Run -> Seq(Call)] /\ reply' \in [Run -> Reply]
      /\ step' \in [Run -> {"start", "write", "import", "receipt", "clean"}]
      /\ \A p \in Run \ {r} : queue'[p] = queue[p] /\ step'[p] = step[p] /\ reply'[p] = reply[p]
      /\ step'[r] = "start"
      /\ reply'[r] = reply[r] \/ client[r].phase \in {"abort", "thank"}
  BY <1>1, Now, Finishes, PhaseOfCall
<1>4. Frame(r)
  BY <1>1, <1>2, <1>3, Now DEF Frame, DirRest
<1>5. StepInv(r)'
  BY <1>3 DEF StepInv
<1>6. StoreInv(r)' /\ ReceiptInv(r)'
  BY <1>1, <1>2, <1>3, StoreKept DEF DirRest
<1> QED BY <1>1, <1>4, <1>5, <1>6, HandlerStep

-----------------------------------------------------------------------------
LEMMA StartStep ==
  ASSUME TypeOK, Inv, NEW r \in Run, Start(r)
  PROVE  TypeOK' /\ Inv'
<1> DEFINE next == [phase |-> "begin", at |-> 0, attempt |-> 1, told |-> FALSE]
<1>1. /\ client[r].phase = "new" /\ live' = live \cup {r}
      /\ client' = [client EXCEPT ![r] = next] /\ reply' = [reply EXCEPT ![r] = NoReply]
      /\ calls' = [calls EXCEPT ![r] = @ \cup {CallOf(next)}]
      /\ UNCHANGED <<excused, queue, step, root, begun, files, bundle, aged, environments, faults>>
  BY DEF Start, Continue, Ended
<1>2. /\ next \in [phase : Phases, at : 0..Size, attempt : 1..(Attempts + 2), told : BOOLEAN]
      /\ CallOf(next) = BeginCall
  BY Constants DEF Phases, CallOf, Kind, BeginCall
<1>3. next.phase = "begin" /\ ~next.told
  OBVIOUS
<1> HIDE DEF next
<1>4. /\ client \in [Run -> [phase : Phases, at : 0..Size, attempt : 1..(Attempts + 2), told : BOOLEAN]]
      /\ calls \in [Run -> SUBSET Call] /\ reply \in [Run -> Reply]
      /\ NoReply \in Reply /\ NoReply.is = "none"
  BY Constants DEF TypeOK, NoReply, Reply
<1>5. /\ client' \in [Run -> [phase : Phases, at : 0..Size, attempt : 1..(Attempts + 2), told : BOOLEAN]]
      /\ client'[r] = next /\ \A p \in Run \ {r} : client'[p] = client[p]
  BY <1>1, <1>2, <1>4
<1>6. /\ reply' \in [Run -> Reply] /\ reply'[r].is = "none"
      /\ \A p \in Run \ {r} : reply'[p] = reply[p]
  BY <1>1, <1>4
<1>7. /\ calls' \in [Run -> SUBSET Call] /\ calls'[r] = calls[r] \cup {BeginCall}
      /\ \A p \in Run \ {r} : calls'[p] = calls[p]
  BY <1>1, <1>2, <1>4, BeginCallType
<1>8. TypeOK'
  <2>1. \A p \in Run : Waiting(p)' => CallOf(client'[p]) \in Call
    <3> SUFFICES ASSUME NEW p \in Run, Waiting(p)' PROVE CallOf(client'[p]) \in Call
      OBVIOUS
    <3>1. CASE p = r
      BY <3>1, <1>2, <1>5, BeginCallType
    <3>2. CASE p # r
      BY <3>2, <1>5 DEF TypeOK, Waiting
    <3> QED BY <3>1, <3>2
  <2> QED BY <2>1, <1>1, <1>5, <1>6, <1>7 DEF TypeOK
<1>9. LimitInv'
  BY <1>1 DEF Inv, LimitInv, Active, Receiving
<1>10. ASSUME NEW p \in Run, p # r
       PROVE  BeginInv(p)' /\ StepInv(p)' /\ StoreInv(p)' /\ ReceiptInv(p)'
  <2>1. client'[p] = client[p] /\ calls'[p] = calls[p] /\ reply'[p] = reply[p]
    BY <1>10, <1>5, <1>6, <1>7
  <2>2. InFlight(p)' <=> InFlight(p)
    BY <1>1, <2>1 DEF InFlight
  <2> QED BY <1>1, <2>1, <2>2 DEF Inv, BeginInv, StepInv, StoreInv, ReceiptInv
<1>11. /\ BeginInv(r) /\ StepInv(r) /\ StoreInv(r) /\ ReceiptInv(r)
       /\ client'[r].phase = "begin" /\ ~client'[r].told
  BY <1>3, <1>5 DEF Inv
<1>12. BeginInv(r)'
  BY <1>1, <1>6, <1>7, <1>11 DEF BeginInv, InFlight
<1>13. StepInv(r)' /\ StoreInv(r)' /\ ReceiptInv(r)'
  BY <1>1, <1>6, <1>11 DEF StepInv, StoreInv, ReceiptInv
<1> QED BY <1>8, <1>9, <1>10, <1>12, <1>13 DEF Inv

LEMMA ReceiveStep ==
  ASSUME TypeOK, Inv, NEW r \in Run, Receive(r)
  PROVE  TypeOK' /\ Inv'
<1>1. /\ Waiting(r) /\ UNCHANGED <<excused, serverVars>>
      /\ Failed(r) \/ (reply[r].is = "ok" /\ Answered(r))
  BY DEF Receive
<1>2. BeginInv(r) /\ StoreInv(r) /\ ReceiptInv(r)
  BY DEF Inv
<1>3. Outcome(r)
  BY <1>1, Outcomes
<1>5. Moved(r) /\ Tells(r)
  BY <1>1, <1>2, <1>3, Moves
<1>4. /\ UNCHANGED <<live, queue, step, root, begun, files, bundle, aged, environments>>
      /\ excused' \in SUBSET Run /\ faults' \in 0..MaxFaults
  BY <1>1 DEF TypeOK, serverVars
<1> QED BY <1>5, <1>4, ScriptStep

LEMMA FaultCounts ==
  ASSUME TypeOK, Fault PROVE faults' \in 0..MaxFaults
  BY Constants DEF TypeOK, Fault

LEMMA GiveUpStep ==
  ASSUME TypeOK, Inv, NEW r \in Run, GiveUp(r)
  PROVE  TypeOK' /\ Inv'
<1>1. /\ Waiting(r) /\ Failed(r) /\ Fault
      /\ excused' = excused \/ excused' = excused \cup {r}
      /\ UNCHANGED <<live, queue, step, root, begun, files, bundle, aged, environments>>
  BY DEF GiveUp
<1>2. BeginInv(r) /\ StoreInv(r) /\ ReceiptInv(r)
  BY DEF Inv
<1>3. Outcome(r)
  BY <1>1, Outcomes
<1>5. Moved(r) /\ Tells(r)
  BY <1>1, <1>2, <1>3, Moves
<1>4. excused' \in SUBSET Run /\ faults' \in 0..MaxFaults
  BY <1>1, FaultCounts DEF TypeOK
<1> QED BY <1>1, <1>5, <1>4, ScriptStep

LEMMA ArriveStep ==
  ASSUME TypeOK, Inv, NEW r \in Run, Arrive(r)
  PROVE  TypeOK' /\ Inv'
<1>1. PICK c \in calls[r] :
        /\ calls' = [calls EXCEPT ![r] = @ \ {c}]
        /\ \/ c.kind = "begin" /\ root' = Append(root, r) /\ UNCHANGED <<queue, reply>>
           \/ /\ c.kind # "begin" /\ queue' = [queue EXCEPT ![r] = Append(@, c)]
              /\ UNCHANGED <<root, reply>>
           \/ Answer(r, c, "error", 0) /\ UNCHANGED <<root, queue>>
        /\ UNCHANGED <<client, excused, live, step, begun, files, bundle, aged, environments, faults>>
  BY DEF Arrive
<1>2. /\ calls \in [Run -> SUBSET Call] /\ c \in Call
      /\ queue \in [Run -> Seq(Call)] /\ root \in Seq(Run) /\ reply \in [Run -> Reply]
  BY DEF TypeOK
<1>3. /\ calls' \in [Run -> SUBSET Call] /\ calls'[r] = calls[r] \ {c}
      /\ \A p \in Run \ {r} : calls'[p] = calls[p]
  BY <1>1, <1>2
<1>4. /\ \A p \in Run : BeginInv(p) /\ StepInv(p) /\ StoreInv(p) /\ ReceiptInv(p)
      /\ LimitInv
  BY DEF Inv
<1>5. CASE c.kind = "begin" /\ root' = Append(root, r) /\ UNCHANGED <<queue, reply>>
  <2>1. c = BeginCall /\ r \notin Members(root) /\ Distinct(root)
    BY <1>2, <1>4, <1>5, CallTypes DEF BeginInv, LimitInv
  <2>2. /\ root' \in Seq(Run) /\ root' # <<>> /\ Members(root') = Members(root) \cup {r}
        /\ root # <<>> => Head(root') = Head(root)
        /\ Distinct(root')
    BY <2>1, <1>2, <1>5, AppendMembers
  <2>3. TypeOK'
    BY <1>1, <1>3, <1>5, <2>2 DEF TypeOK, Waiting
  <2>4. LimitInv'
    BY <1>1, <1>4, <2>2 DEF LimitInv, Active, Receiving
  <2>5. \A p \in Run : InFlight(p)' <=> InFlight(p)
    BY <2>1, <2>2, <1>3 DEF InFlight
  <2>6. ~(BeginCall \in calls'[r] /\ r \in Members(root')) /\ calls'[r] \subseteq calls[r]
    BY <2>1, <1>3
  <2>7. \A p \in Run : BeginInv(p)'
    BY <1>1, <1>3, <1>4, <1>5, <2>2, <2>5, <2>6 DEF BeginInv
  <2>8. \A p \in Run : StepInv(p)' /\ StoreInv(p)' /\ ReceiptInv(p)'
    BY <1>1, <1>4, <1>5 DEF StepInv, StoreInv, ReceiptInv
  <2> QED BY <2>3, <2>4, <2>7, <2>8 DEF Inv
<1>6. ASSUME UNCHANGED <<root, queue>>, reply' \in [Run -> Reply],
             \A p \in Run \ {r} : reply'[p] = reply[p],
             reply'[r] = reply[r] \/ (reply'[r].is = "error" /\ (InFlight(r) => c = BeginCall))
      PROVE  TypeOK' /\ Inv'
  <2>1. TypeOK'
    BY <1>1, <1>3, <1>6 DEF TypeOK, Waiting
  <2>2. LimitInv'
    BY <1>1, <1>4, <1>6 DEF LimitInv, Active, Receiving
  <2>3. \A p \in Run : InFlight(p)' => InFlight(p)
    BY <1>3, <1>6 DEF InFlight
  <2>4. reply'[r] = reply[r] \/ r \notin Members(root) \/ client[r].phase = "failed"
    BY <1>1, <1>4, <1>6 DEF BeginInv, InFlight
  <2>5. ASSUME NEW p \in Run, p # r PROVE BeginInv(p)'
    BY <1>1, <1>3, <1>4, <1>6, <2>3, <2>5 DEF BeginInv
  <2>6. BeginInv(r)'
    BY <1>1, <1>3, <1>4, <1>6, <2>3, <2>4 DEF BeginInv, InFlight
  <2>7. \A p \in Run : StepInv(p)' /\ StoreInv(p)' /\ ReceiptInv(p)'
    BY <1>1, <1>4, <1>6 DEF StepInv, StoreInv, ReceiptInv
  <2> QED BY <2>1, <2>2, <2>5, <2>6, <2>7 DEF Inv
<1>7. CASE /\ c.kind # "begin" /\ queue' = [queue EXCEPT ![r] = Append(@, c)]
           /\ UNCHANGED <<root, reply>>
  <2>1. c # BeginCall
    BY <1>7, BeginCallType
  <2>2. ~InFlight(r) /\ client[r].phase \notin {"new", "begin"}
    BY <2>1, <1>1, <1>4 DEF BeginInv
  <2>3. queue[r] \in Seq(Call)
    BY <1>2
  <2>4. /\ Append(queue[r], c) \in Seq(Call) /\ Append(queue[r], c) # <<>>
        /\ queue[r] # <<>> => Head(Append(queue[r], c)) = Head(queue[r])
    BY <2>3, <1>2, AppendMembers
  <2>5. /\ queue' \in [Run -> Seq(Call)] /\ queue'[r] = Append(queue[r], c)
        /\ \A p \in Run \ {r} : queue'[p] = queue[p]
    BY <2>4, <1>2, <1>7
  <2>6. TypeOK'
    BY <1>1, <1>3, <1>7, <2>5 DEF TypeOK, Waiting
  <2>7. LimitInv'
    BY <1>1, <1>4, <1>7 DEF LimitInv, Active, Receiving
  <2>8. \A p \in Run : InFlight(p)' <=> InFlight(p)
    BY <2>1, <1>3, <1>7 DEF InFlight
  <2>9. BeginInv(r)'
    BY <1>1, <1>3, <1>4, <1>7, <2>2, <2>8 DEF BeginInv, InFlight
  <2>10. ASSUME NEW p \in Run, p # r PROVE BeginInv(p)'
    BY <1>1, <1>3, <1>4, <1>7, <2>5, <2>8, <2>10 DEF BeginInv
  <2>11. \A p \in Run : StepInv(p)'
    BY <1>1, <1>4, <2>4, <2>5 DEF StepInv
  <2>12. \A p \in Run : StoreInv(p)' /\ ReceiptInv(p)'
    BY <1>1, <1>4, <1>7 DEF StoreInv, ReceiptInv
  <2> QED BY <2>6, <2>7, <2>9, <2>10, <2>11, <2>12 DEF Inv
<1>8. CASE Answer(r, c, "error", 0) /\ UNCHANGED <<root, queue>>
  <2>1. "error" \in {"ok", "error"} /\ 0 \in 0..Size
    BY Constants
  <2>2. /\ reply' \in [Run -> Reply]
        /\ \A p \in Run \ {r} : reply'[p] = reply[p]
        /\ \/ reply'[r] = reply[r]
           \/ Waiting(r) /\ c = CallOf(client[r]) /\ reply'[r].is = "error"
    BY <1>2, <1>8, <2>1, Answers
  <2>3. Waiting(r) /\ c = CallOf(client[r]) /\ InFlight(r) => c = BeginCall
    <3> SUFFICES ASSUME Waiting(r), c = CallOf(client[r]), InFlight(r) PROVE c = BeginCall
      OBVIOUS
    <3>1. client[r].phase = "begin"
      BY <1>4 DEF BeginInv, Waiting, Ended
    <3>2. c.kind = "begin"
      BY <3>1 DEF CallOf, Kind
    <3> QED BY <3>2, <1>2, CallTypes
  <2>4. UNCHANGED <<root, queue>>
    BY <1>8
  <2>5. reply'[r] = reply[r] \/ (reply'[r].is = "error" /\ (InFlight(r) => c = BeginCall))
    BY <2>2, <2>3
  <2> QED BY <2>2, <2>4, <2>5, <1>6
<1> QED BY <1>1, <1>5, <1>7, <1>8

-----------------------------------------------------------------------------
\* begin() has left the runs alone, and what it counts is as it should be.
LEMMA SweepStep ==
  ASSUME TypeOK, Inv, UNCHANGED <<root, reply, bundle, BeginRest>>,
         begun' \in [at : {"list", "sweep", "rmdir", "fill"}, left : SUBSET Run,
                     victim : Run \cup {NoRun}],
         files' \in [Run -> SUBSET Entries], aged' \in SUBSET Run, excused' \in SUBSET Run,
         \A p \in Run : "receipt" \in files'[p] => "receipt" \in files[p],
         LimitInv'
  PROVE  TypeOK' /\ Inv'
<1>1. /\ client' = client /\ calls' = calls /\ queue' = queue /\ step' = step /\ live' = live
      /\ environments' = environments /\ faults' = faults /\ root' = root /\ reply' = reply
      /\ bundle' = bundle
  BY DEF BeginRest
<1>2. TypeOK'
  BY <1>1 DEF TypeOK, Waiting
<1>3. \A p \in Run : BeginInv(p)' /\ StepInv(p)' /\ StoreInv(p)' /\ ReceiptInv(p)'
  BY <1>1 DEF Inv, BeginInv, InFlight, StepInv, StoreInv, ReceiptInv
<1> QED BY <1>2, <1>3 DEF Inv

LEMMA FirstBegin ==
  ASSUME TypeOK, Inv, root # <<>>
  PROVE  /\ Head(root) \in Run /\ Head(root) \in Members(root)
         /\ Tail(root) \in Seq(Run) /\ Distinct(Tail(root))
         /\ Members(Tail(root)) = Members(root) \ {Head(root)}
         /\ InFlight(Head(root)) /\ BeginCall \notin calls[Head(root)]
         /\ queue[Head(root)] = <<>> /\ bundle[Head(root)] = <<>>
<1>1. root \in Seq(Run) /\ Distinct(root)
  BY DEF TypeOK, Inv, LimitInv
<1>2. /\ Head(root) \in Run /\ Head(root) \in Members(root)
      /\ Tail(root) \in Seq(Run) /\ Distinct(Tail(root))
      /\ Members(Tail(root)) = Members(root) \ {Head(root)}
  BY <1>1, TailMembers
<1>3. BeginInv(Head(root))
  BY <1>2 DEF Inv
<1> QED BY <1>2, <1>3 DEF BeginInv, InFlight

\* A begin ends, with its directory or without.
LEMMA EndBeginStep ==
  ASSUME TypeOK, Inv, root # <<>>, NEW is \in {"ok", "error"}, EndBegin(is),
         UNCHANGED <<bundle, aged, BeginRest>>,
         files' \in [Run -> SUBSET Entries], excused' \in SUBSET Run,
         \A p \in Run : "receipt" \in files'[p] => "receipt" \in files[p],
         \A p \in Run : "bundle" \in files'[p] => "dir" \in files'[p],
         Cardinality(Receiving') <= MaxActive
  PROVE  TypeOK' /\ Inv'
<1>0. PICK h \in Run : h = Head(root)
  BY FirstBegin
<1>1. /\ client' = client /\ calls' = calls /\ queue' = queue /\ step' = step /\ live' = live
      /\ environments' = environments /\ faults' = faults /\ bundle' = bundle /\ aged' = aged
      /\ root' = Tail(root) /\ begun' = Idle /\ Answer(h, BeginCall, is, 0)
  BY <1>0 DEF BeginRest, EndBegin
<1>2. /\ root' \in Seq(Run) /\ Distinct(root') /\ Members(root') = Members(root) \ {h}
      /\ InFlight(h) /\ BeginCall \notin calls[h] /\ queue[h] = <<>> /\ bundle[h] = <<>>
  BY <1>0, <1>1, FirstBegin
<1>3. BeginCall \in Call /\ 0 \in 0..Size
  BY BeginCallType, Constants
<1>4. /\ reply' \in [Run -> Reply] /\ \A p \in Run \ {h} : reply'[p] = reply[p]
  BY <1>1, <1>2, <1>3, Answers
<1>5. TypeOK'
  BY <1>1, <1>2, <1>4 DEF TypeOK, Waiting, Idle
<1>6. LimitInv'
  BY <1>1, <1>2 DEF LimitInv, Idle
<1>7. /\ \A p \in Run \ {h} : InFlight(p)' <=> InFlight(p)
      /\ \A p \in Run : p \in Members(root') => p \in Members(root)
      /\ ~InFlight(h)'
  BY <1>1, <1>2 DEF InFlight
<1>12. BeginCall \notin calls'[h] /\ h \notin Members(root') /\ calls'[h] \subseteq {BeginCall}
  BY <1>1, <1>2 DEF Inv, BeginInv
<1>8. /\ \A p \in Run : BeginInv(p) /\ StepInv(p) /\ StoreInv(p) /\ ReceiptInv(p)
      /\ client[h].phase \in {"begin", "failed"}
  BY <1>2 DEF Inv, BeginInv
<1>9. BeginInv(h)'
  BY <1>1, <1>2, <1>7, <1>8, <1>12 DEF BeginInv
<1>10. ASSUME NEW p \in Run, p # h PROVE BeginInv(p)'
  BY <1>1, <1>2, <1>4, <1>7, <1>8, <1>10 DEF BeginInv
<1>11. ASSUME NEW p \in Run PROVE StepInv(p)' /\ StoreInv(p)' /\ ReceiptInv(p)'
  <2>1. reply'[p] = reply[p] \/ client[p].phase \notin {"chunk", "finish"}
    BY <1>4, <1>8
  <2>2. StepInv(p)'
    BY <1>1, <1>8 DEF StepInv
  <2>3. StoreInv(p)'
    BY <1>1, <1>8, <2>1 DEF StoreInv
  <2>4. ReceiptInv(p)'
    BY <1>1, <1>8, <2>1 DEF ReceiptInv
  <2> QED BY <2>2, <2>3, <2>4
<1> QED BY <1>5, <1>6, <1>9, <1>10, <1>11 DEF Inv

LEMMA BeginTypes ==
  ASSUME TypeOK, Inv
  PROVE  /\ begun \in [at : {"list", "sweep", "rmdir", "fill"}, left : SUBSET Run,
                       victim : Run \cup {NoRun}]
         /\ files \in [Run -> SUBSET Entries] /\ aged \in SUBSET Run /\ excused \in SUBSET Run
         /\ begun.at # "list" => root # <<>>
         /\ \A p \in Run : "bundle" \in files[p] => "dir" \in files[p]
         /\ Cardinality(Receiving) <= MaxActive /\ Distinct(root)
         /\ \A S \in SUBSET Run : IsFiniteSet(S) /\ Cardinality(S) \in Nat
  BY Constants, FS_Subset, FS_CardinalityType DEF TypeOK, Inv, LimitInv

\* Fewer uploads hold a bundle.
LEMMA FewerReceive ==
  ASSUME TypeOK, Inv, Receiving' \subseteq Receiving
  PROVE  Cardinality(Receiving') <= MaxActive
<1>1. IsFiniteSet(Receiving) /\ Cardinality(Receiving) \in Nat /\ Cardinality(Receiving) <= MaxActive
  BY BeginTypes DEF Receiving
<1>2. Cardinality(Receiving') <= Cardinality(Receiving) /\ Cardinality(Receiving') \in Nat
  BY <1>1, FS_Subset, FS_CardinalityType
<1> QED BY <1>1, <1>2, Constants

\* A begin that fails adds itself to the excused and touches no directory.
LEMMA RefuseStep ==
  ASSUME TypeOK, Inv, root # <<>>, EndBegin("error"), excused' = excused \cup {Head(root)},
         UNCHANGED <<files, bundle, aged, BeginRest>>
  PROVE  TypeOK' /\ Inv'
<1>1. excused' \in SUBSET Run
  BY FirstBegin DEF TypeOK
<1>2. Receiving' = Receiving
  BY DEF Receiving
<1>3. Cardinality(Receiving') <= MaxActive
  BY <1>2, FewerReceive
<1> QED BY <1>1, <1>3, BeginTypes, EndBeginStep

LEMMA BeginListStep ==
  ASSUME TypeOK, Inv, BeginList
  PROVE  TypeOK' /\ Inv'
<1>1. /\ root # <<>> /\ begun.at = "list"
      /\ begun' = [Idle EXCEPT !.at = "sweep", !.left = {u \in Run : "dir" \in files[u]}]
      /\ UNCHANGED <<root, reply, excused, files, bundle, aged, BeginRest>>
  BY DEF BeginList
<1>2. /\ begun' \in [at : {"list", "sweep", "rmdir", "fill"}, left : SUBSET Run,
                     victim : Run \cup {NoRun}]
      /\ begun'.at = "sweep"
  BY <1>1 DEF Idle
<1>3. LimitInv'
  BY <1>1, <1>2 DEF Inv, LimitInv, Active, Receiving
<1> QED BY <1>1, <1>2, <1>3, BeginTypes, SweepStep

LEMMA SweepKeepStep ==
  ASSUME TypeOK, Inv, NEW u \in Run, SweepKeep(u)
  PROVE  TypeOK' /\ Inv'
<1>1. /\ begun.at = "sweep" /\ begun' = [begun EXCEPT !.left = @ \ {u}]
      /\ UNCHANGED <<root, reply, excused, files, bundle, aged, BeginRest>>
  BY DEF SweepKeep
<1>2. /\ begun' \in [at : {"list", "sweep", "rmdir", "fill"}, left : SUBSET Run,
                     victim : Run \cup {NoRun}]
      /\ begun'.at = "sweep"
  BY <1>1, BeginTypes
<1>3. LimitInv'
  BY <1>1, <1>2 DEF Inv, LimitInv, Active, Receiving
<1> QED BY <1>1, <1>2, <1>3, BeginTypes, SweepStep

LEMMA SweepUnlinkStep ==
  ASSUME TypeOK, Inv, NEW u \in Run, SweepUnlink(u)
  PROVE  TypeOK' /\ Inv'
<1>1. /\ begun.at = "sweep" /\ begun' = [at |-> "rmdir", left |-> begun.left \ {u}, victim |-> u]
      /\ files' = [files EXCEPT ![u] = {"dir"}] /\ aged' = aged \ {u}
      /\ excused' = excused \cup {u}
      /\ UNCHANGED <<root, reply, bundle, BeginRest>>
  BY DEF SweepUnlink
<1>2. /\ begun' \in [at : {"list", "sweep", "rmdir", "fill"}, left : SUBSET Run,
                     victim : Run \cup {NoRun}]
      /\ begun'.at = "rmdir" /\ begun'.victim = u
  BY <1>1, BeginTypes
<1>3. /\ files' \in [Run -> SUBSET Entries] /\ files'[u] = {"dir"}
      /\ \A p \in Run \ {u} : files'[p] = files[p]
  BY <1>1, BeginTypes DEF Entries
<1>4. aged' \in SUBSET Run /\ excused' \in SUBSET Run
  BY <1>1, BeginTypes
<1>5. Receiving' \subseteq Receiving
  BY <1>3 DEF Receiving
<1>6. Cardinality(Receiving') <= MaxActive
  BY <1>5, FewerReceive
<1>7. LimitInv'
  BY <1>1, <1>2, <1>3, <1>6, BeginTypes DEF LimitInv
<1>8. \A p \in Run : "receipt" \in files'[p] => "receipt" \in files[p]
  BY <1>3
<1> QED BY <1>1, <1>2, <1>3, <1>4, <1>7, <1>8, SweepStep

LEMMA SweepRmdirStep ==
  ASSUME TypeOK, Inv, SweepRmdir
  PROVE  TypeOK' /\ Inv'
<1>1. begun.at = "rmdir" /\ UNCHANGED <<bundle, aged, BeginRest>>
  BY DEF SweepRmdir
<1>2. root # <<>> /\ begun.victim \in Run
  BY <1>1 DEF Inv, LimitInv
<1>3. CASE /\ files' = [files EXCEPT ![begun.victim] = {}]
           /\ begun' = [begun EXCEPT !.at = "sweep", !.victim = NoRun]
           /\ UNCHANGED <<root, reply, excused>>
  <2>1. /\ begun' \in [at : {"list", "sweep", "rmdir", "fill"}, left : SUBSET Run,
                       victim : Run \cup {NoRun}]
        /\ begun'.at = "sweep"
    BY <1>3, BeginTypes
  <2>2. /\ files' \in [Run -> SUBSET Entries] /\ files'[begun.victim] = {}
        /\ \A p \in Run \ {begun.victim} : files'[p] = files[p]
    BY <1>2, <1>3, BeginTypes
  <2>3. Receiving' \subseteq Receiving
    BY <2>2 DEF Receiving
  <2>4. Cardinality(Receiving') <= MaxActive
    BY <2>3, FewerReceive
  <2>5. LimitInv'
    BY <1>2, <1>3, <2>1, <2>2, <2>4, BeginTypes DEF LimitInv
  <2>6. \A p \in Run : "receipt" \in files'[p] => "receipt" \in files[p]
    BY <2>2
  <2> QED BY <1>1, <1>3, <2>1, <2>2, <2>5, <2>6, BeginTypes, SweepStep
<1>4. CASE EndBegin("error") /\ excused' = excused \cup {Head(root)} /\ UNCHANGED files
  BY <1>1, <1>2, <1>4, RefuseStep
<1> QED BY <1>3, <1>4 DEF SweepRmdir

LEMMA BeginMakeStep ==
  ASSUME TypeOK, Inv, BeginMake
  PROVE  TypeOK' /\ Inv'
<1> DEFINE h == Head(root)
<1>1. /\ begun.at = "sweep" /\ ~Full /\ files' = [files EXCEPT ![h] = {"dir"}]
      /\ begun' = [begun EXCEPT !.at = "fill"]
      /\ UNCHANGED <<root, reply, excused, bundle, aged, BeginRest>>
  BY DEF BeginMake
<1>2. root # <<>> /\ h \in Run
  BY <1>1, BeginTypes, FirstBegin
<1> HIDE DEF h
<1>3. /\ begun' \in [at : {"list", "sweep", "rmdir", "fill"}, left : SUBSET Run,
                     victim : Run \cup {NoRun}]
      /\ begun'.at = "fill"
  BY <1>1, BeginTypes
<1>4. /\ files' \in [Run -> SUBSET Entries] /\ files'[h] = {"dir"}
      /\ \A p \in Run \ {h} : files'[p] = files[p]
  BY <1>1, <1>2, BeginTypes DEF Entries
<1>5. Receiving' \subseteq Receiving /\ Active' \subseteq Active \cup {h}
  BY <1>4 DEF Receiving, Active
<1>6. Cardinality(Active') <= MaxActive
  <2>1. Active \in SUBSET Run /\ Active' \in SUBSET Run
    BY DEF Active
  <2>2. /\ IsFiniteSet(Active) /\ Cardinality(Active) \in Nat
        /\ Cardinality(Active') \in Nat
    BY <2>1, BeginTypes
  <2>3. /\ IsFiniteSet(Active \cup {h})
        /\ Cardinality(Active \cup {h}) \in {Cardinality(Active), Cardinality(Active) + 1}
    BY <2>2, FS_AddElement
  <2>4. Cardinality(Active') <= Cardinality(Active \cup {h})
    BY <1>5, <2>3, FS_Subset
  <2>5. Cardinality(Active) < MaxActive
    BY <1>1, <2>2, Constants DEF Full
  <2> QED BY <2>2, <2>3, <2>4, <2>5, Constants
<1>7. Cardinality(Receiving') <= MaxActive
  BY <1>5, FewerReceive
<1>8. LimitInv'
  BY <1>1, <1>2, <1>3, <1>4, <1>6, <1>7, BeginTypes DEF LimitInv, h
<1>9. \A p \in Run : "receipt" \in files'[p] => "receipt" \in files[p]
  BY <1>4
<1> QED BY <1>1, <1>3, <1>4, <1>8, <1>9, BeginTypes, SweepStep

LEMMA BeginFillStep ==
  ASSUME TypeOK, Inv, BeginFill
  PROVE  TypeOK' /\ Inv' /\ bundle' = bundle
<1> DEFINE h == Head(root)
<1>1. /\ begun.at = "fill" /\ files' = [files EXCEPT ![h] = {"dir", "metadata", "bundle"}]
      /\ bundle' = [bundle EXCEPT ![h] = <<>>] /\ EndBegin("ok")
      /\ UNCHANGED <<excused, aged, BeginRest>>
  BY DEF BeginFill
<1>2. root # <<>> /\ h \in Run /\ bundle[h] = <<>>
  BY <1>1, BeginTypes, FirstBegin
<1>3. files[h] = {"dir"} /\ Cardinality(Active) <= MaxActive
  BY <1>1 DEF Inv, LimitInv
<1> HIDE DEF h
<1>4. bundle' = bundle
  BY <1>1, <1>2 DEF TypeOK
<1>5. /\ files' \in [Run -> SUBSET Entries] /\ files'[h] = {"dir", "metadata", "bundle"}
      /\ \A p \in Run \ {h} : files'[p] = files[p]
  BY <1>1, <1>2, BeginTypes DEF Entries
<1>6. Receiving' \subseteq Active
  BY <1>2, <1>3, <1>5, BeginTypes DEF Receiving, Active
<1>7. Cardinality(Receiving') <= MaxActive
  <2>1. /\ IsFiniteSet(Active) /\ Cardinality(Active) \in Nat /\ Cardinality(Receiving') \in Nat
    BY <1>6, BeginTypes DEF Active
  <2>2. Cardinality(Receiving') <= Cardinality(Active)
    BY <1>6, <2>1, FS_Subset
  <2> QED BY <1>3, <2>1, <2>2, Constants
<1>8. /\ \A p \in Run : "receipt" \in files'[p] => "receipt" \in files[p]
      /\ \A p \in Run : "bundle" \in files'[p] => "dir" \in files'[p]
  BY <1>5, BeginTypes
<1>9. "ok" \in {"ok", "error"} /\ excused' \in SUBSET Run
  BY <1>1, BeginTypes
<1> QED BY <1>1, <1>2, <1>4, <1>5, <1>7, <1>8, <1>9, EndBeginStep

-----------------------------------------------------------------------------
LEMMA AgeStep ==
  ASSUME TypeOK, Inv, NEW r \in Run, Age(r)
  PROVE  TypeOK' /\ Inv'
<1>1. /\ aged' = aged \cup {r} /\ Fault
      /\ UNCHANGED <<client, calls, reply, excused, live, queue, step, root, begun,
                     files, bundle, environments>>
  BY DEF Age
<1>2. TypeOK'
  BY <1>1, FaultCounts DEF TypeOK, Waiting
<1>3. LimitInv'
  BY <1>1 DEF Inv, LimitInv, Active, Receiving
<1>4. \A p \in Run : BeginInv(p)' /\ StepInv(p)' /\ StoreInv(p)' /\ ReceiptInv(p)'
  BY <1>1 DEF Inv, BeginInv, InFlight, StepInv, StoreInv, ReceiptInv
<1> QED BY <1>2, <1>3, <1>4 DEF Inv

\* A restart forgets every call; what is on the disk stays.
LEMMA RestartStep ==
  ASSUME TypeOK, Inv, Restart
  PROVE  TypeOK' /\ Inv'
<1>1. /\ Fault
      /\ excused' = excused \cup {r \in Run : client[r].phase \notin {"new"} \cup Ended}
      /\ calls' = [r \in Run |-> {}]
      /\ reply' = [r \in Run |-> IF Waiting(r) THEN [is |-> "error", at |-> 0] ELSE NoReply]
      /\ live' = {} /\ root' = <<>> /\ begun' = Idle
      /\ queue' = [r \in Run |-> <<>>] /\ step' = [r \in Run |-> "start"]
      /\ UNCHANGED <<client, files, bundle, aged, environments>>
  BY DEF Restart
<1>2. /\ [is |-> "error", at |-> 0] \in Reply /\ NoReply \in Reply
      /\ NoReply.is = "none" /\ <<>> \in Seq(Run) /\ <<>> \in Seq(Call)
  BY Constants, EmptySeq DEF Reply, NoReply
<1>3. /\ reply' \in [Run -> Reply] /\ queue' \in [Run -> Seq(Call)]
      /\ step' \in [Run -> {"start", "write", "import", "receipt", "clean"}]
      /\ calls' \in [Run -> SUBSET Call]
      /\ \A p \in Run : /\ reply'[p].is # "ok" /\ queue'[p] = <<>> /\ step'[p] = "start"
                        /\ calls'[p] = {}
  BY <1>1, <1>2
<1>4. excused' \in SUBSET Run /\ faults' \in 0..MaxFaults
  BY <1>1, FaultCounts DEF TypeOK
<1>5. TypeOK'
  BY <1>1, <1>2, <1>3, <1>4 DEF TypeOK, Waiting, Idle
<1>6. LimitInv'
  <2>1. Distinct(root')
    BY <1>1, NoMembers
  <2>2. Receiving' = Receiving
    BY <1>1 DEF Receiving
  <2> QED BY <1>1, <2>1, <2>2 DEF Inv, LimitInv, Idle
<1>7. \A p \in Run : ~InFlight(p)'
  BY <1>1, <1>3, NoMembers DEF InFlight
<1>8. ASSUME NEW p \in Run
      PROVE  BeginInv(p)' /\ StepInv(p)' /\ StoreInv(p)' /\ ReceiptInv(p)'
  <2>1. /\ client' = client /\ bundle' = bundle /\ files' = files /\ environments' = environments
        /\ reply'[p].is # "ok" /\ queue'[p] = <<>> /\ step'[p] = "start" /\ calls'[p] = {}
    BY <1>1, <1>3
  <2>2. BeginInv(p) /\ StepInv(p) /\ StoreInv(p) /\ ReceiptInv(p)
    BY DEF Inv
  <2>3. BeginInv(p)'
    BY <1>7, <2>1, <2>2 DEF BeginInv
  <2> QED BY <2>1, <2>2, <2>3 DEF StepInv, StoreInv, ReceiptInv
<1> QED BY <1>5, <1>6, <1>8 DEF Inv

LEMMA InitInv == Init => TypeOK /\ Inv
<1> SUFFICES ASSUME Init PROVE TypeOK /\ Inv
  OBVIOUS
<1>1. /\ NoReply \in Reply /\ NoReply.is = "none"
      /\ <<>> \in Seq(Run) /\ <<>> \in Seq(Call) /\ <<>> \in Seq(1..Size)
      /\ Len(<<>>) = 0 /\ <<>> = [i \in 1..Len(<<>>) |-> i]
  BY Constants, EmptySeq DEF Reply, NoReply
<1>2. TypeOK
  <2>1. client \in [Run -> [phase : Phases, at : 0..Size, attempt : 1..(Attempts + 2), told : BOOLEAN]]
    BY Constants DEF Init, Phases
  <2>2. \A r \in Run : ~Waiting(r)
    BY DEF Init, Waiting
  <2>3. faults \in 0..MaxFaults
    BY Constants DEF Init
  <2>4. calls \in [Run -> SUBSET Call] /\ reply \in [Run -> Reply]
    BY <1>1 DEF Init
  <2>5. /\ queue \in [Run -> Seq(Call)] /\ bundle \in [Run -> Seq(1..Size)]
        /\ files \in [Run -> SUBSET Entries] /\ root \in Seq(Run)
    BY <1>1 DEF Init
  <2>6. /\ step \in [Run -> {"start", "write", "import", "receipt", "clean"}]
        /\ begun \in [at : {"list", "sweep", "rmdir", "fill"}, left : SUBSET Run,
                      victim : Run \cup {NoRun}]
        /\ live \in SUBSET Run /\ excused \in SUBSET Run /\ aged \in SUBSET Run
        /\ environments \in SUBSET Env
    BY DEF Init, Idle
  <2> QED BY <2>1, <2>2, <2>3, <2>4, <2>5, <2>6 DEF TypeOK
<1>3. \A r \in Run : ~InFlight(r)
  BY NoMembers DEF Init, InFlight
<1>4. ASSUME NEW r \in Run
      PROVE  BeginInv(r) /\ StepInv(r) /\ StoreInv(r) /\ ReceiptInv(r)
  <2>1. /\ client[r].phase = "new" /\ ~client[r].told /\ calls[r] = {} /\ reply[r].is = "none"
        /\ queue[r] = <<>> /\ step[r] = "start" /\ bundle[r] = <<>> /\ files[r] = {}
    BY <1>1 DEF Init
  <2>2. BeginInv(r)
    BY <1>3, <2>1 DEF BeginInv
  <2>3. StoreInv(r)
    BY <1>1, <2>1, Constants DEF StoreInv
  <2> QED BY <2>1, <2>2, <2>3 DEF StepInv, ReceiptInv
<1>5. LimitInv
  <2>1. Receiving = {}
    BY DEF Init, Receiving
  <2>2. Cardinality(Receiving) = 0
    BY <2>1, FS_EmptySet
  <2>3. Distinct(root)
    BY NoMembers DEF Init
  <2> QED BY <2>2, <2>3, Constants DEF Init, LimitInv, Idle
<1> QED BY <1>2, <1>4, <1>5 DEF Inv

LEMMA Inductive == TypeOK /\ Inv /\ [Next]_vars => TypeOK' /\ Inv'
<1> SUFFICES ASSUME TypeOK, Inv, [Next]_vars PROVE TypeOK' /\ Inv'
  OBVIOUS
<1>1. CASE Begin
  <2>1. CASE BeginRefuse
    <3>1. /\ root # <<>> /\ EndBegin("error") /\ excused' = excused \cup {Head(root)}
          /\ UNCHANGED <<files, bundle, aged, BeginRest>>
      BY <2>1, BeginTypes DEF BeginRefuse
    <3> QED BY <3>1, RefuseStep
  <2>2. ASSUME NEW u \in Run, SweepMissing(u) PROVE TypeOK' /\ Inv'
    <3>1. /\ root # <<>> /\ EndBegin("error") /\ excused' = excused \cup {Head(root)}
          /\ UNCHANGED <<files, bundle, aged, BeginRest>>
      BY <2>2, BeginTypes DEF SweepMissing
    <3> QED BY <3>1, RefuseStep
  <2> QED BY <1>1, <2>1, <2>2, BeginListStep, SweepRmdirStep, BeginMakeStep, BeginFillStep,
             SweepKeepStep, SweepUnlinkStep DEF Begin
<1>2. ASSUME NEW r \in Run, Script(r) PROVE TypeOK' /\ Inv'
  BY <1>2, StartStep, ReceiveStep, GiveUpStep DEF Script
<1>3. ASSUME NEW r \in Run, Handle(r) PROVE TypeOK' /\ Inv'
  BY <1>3, ChunkStartStep, ChunkWriteStep, FinishStartStep, ImportStep, ImportFailsStep,
     WriteReceiptStep, FinishCleanStep, AbortStep DEF Handle
<1>4. CASE UNCHANGED vars
  <2>1. TypeOK'
    BY <1>4 DEF vars, serverVars, TypeOK, Waiting
  <2>2. LimitInv'
    BY <1>4 DEF vars, serverVars, Inv, LimitInv, Active, Receiving
  <2>3. \A p \in Run : BeginInv(p)' /\ StepInv(p)' /\ StoreInv(p)' /\ ReceiptInv(p)'
    BY <1>4 DEF vars, serverVars, Inv, BeginInv, InFlight, StepInv, StoreInv, ReceiptInv
  <2> QED BY <2>1, <2>2, <2>3 DEF Inv
<1> QED BY <1>1, <1>2, <1>3, <1>4, RestartStep, ArriveStep, AgeStep DEF Next

LEMMA Invariance == Spec => [](TypeOK /\ Inv)
  BY InitInv, Inductive, PTL DEF Spec
-----------------------------------------------------------------------------
\* The state of script and server is well-typed: no call names a chunk beyond
\* the bundle, and no bundle grows beyond its size.
THEOREM Typing == Spec => []TypeOK
  BY Invariance, PTL

\* What the script was told is stored is there, once and in its order.
THEOREM Stored == Spec => []AcknowledgedIsStored
<1>1. TypeOK /\ Inv => AcknowledgedIsStored
  BY DEF Inv, StoreInv, AcknowledgedIsStored
<1> QED BY <1>1, Invariance, PTL

\* No more uploads than allowed hold a bundle without a receipt, whatever
\* finish, abort and expiry do while begin() counts.
THEOREM Bounded == Spec => []ActiveBounded
<1>1. Inv => ActiveBounded
  BY DEF Inv, LimitInv, ActiveBounded
<1> QED BY <1>1, Invariance, PTL

-----------------------------------------------------------------------------
\* The refinement: which step of the promise a step of the upload is.
HandsOver(r) == Handed' = Handed \cup {r} /\ UNCHANGED <<environments, Reported>>
Publishes(r) ==
  /\ r \in Handed
  /\ environments' = environments \cup {EnvOf[r]} /\ UNCHANGED <<Handed, Reported>>
Reports(r) ==
  /\ r \in Handed /\ EnvOf[r] \in environments
  /\ Reported' = Reported \cup {r} /\ UNCHANGED <<Handed, environments>>
Unseen == UNCHANGED <<Handed, environments, Reported>>
Kept == Unseen \/ \E r \in Run : HandsOver(r) \/ Publishes(r) \/ Reports(r)

LEMMA NothingSeen ==
  ASSUME bundle' = bundle, environments' = environments,
         \A p \in Run : client'[p].told = client[p].told
  PROVE  Unseen
<1>1. Handed' = Handed
  BY DEF Handed
<1>2. Reported' = Reported
  BY DEF Reported
<1> QED BY <1>1, <1>2 DEF Unseen

LEMMA ScriptKeeps ==
  ASSUME TypeOK, Inv, NEW r \in Run, Moved(r), Tells(r),
         bundle' = bundle, environments' = environments
  PROVE  Unseen \/ Reports(r)
<1>1. \A p \in Run \ {r} : client'[p] = client[p]
  BY DEF Moved
<1>2. CASE client'[r].told = client[r].told \/ (client'[r].told = FALSE /\ client[r].told = FALSE)
  <2>1. ASSUME NEW p \in Run PROVE client'[p].told = client[p].told
    <3>1. CASE p = r
      BY <1>2, <3>1
    <3>2. CASE p # r
      BY <1>1, <3>2
    <3> QED BY <3>1, <3>2
  <2> QED BY <2>1, NothingSeen
<1>3. CASE client'[r].told = TRUE /\ client[r].phase = "finish" /\ reply[r].is = "ok"
  <2>1. r \in Handed /\ EnvOf[r] \in environments
    BY <1>3 DEF Inv, ReceiptInv, Handed
  <2>2. Reported' = Reported \cup {r}
    BY <1>1, <1>3 DEF Reported
  <2>3. Handed' = Handed
    BY DEF Handed
  <2> QED BY <2>1, <2>2, <2>3 DEF Reports
<1> QED BY <1>2, <1>3 DEF Tells

LEMMA ChunkKeeps ==
  ASSUME TypeOK, Inv, NEW r \in Run, ChunkWrite(r)
  PROVE  HandsOver(r) \/ Unseen
<1>1. /\ queue[r] # <<>> /\ step[r] = "write" /\ Head(queue[r]).kind = "chunk"
      /\ bundle' = [bundle EXCEPT ![r] = Append(@, Head(queue[r]).at + 1)]
      /\ UNCHANGED <<client, environments>>
  BY DEF ChunkWrite, Handling, DirRest
<1>2. Len(bundle[r]) # Size
  <2>1. Head(queue[r]).at = Len(bundle[r]) /\ Head(queue[r]).at < Size
    BY <1>1, Now DEF StepInv
  <2> QED BY <2>1, Constants, LenProperties DEF TypeOK
<1>3. \A p \in Run \ {r} : bundle'[p] = bundle[p]
  BY <1>1 DEF TypeOK
<1>4. Handed' = Handed \/ Handed' = Handed \cup {r}
  BY <1>2, <1>3 DEF Handed
<1>5. Reported' = Reported
  BY <1>1 DEF Reported
<1> QED BY <1>1, <1>4, <1>5 DEF HandsOver, Unseen

LEMMA ImportKeeps ==
  ASSUME TypeOK, Inv, NEW r \in Run, Import(r)
  PROVE  Publishes(r)
<1>1. /\ queue[r] # <<>> /\ step[r] = "import"
      /\ environments' = environments \cup {EnvOf[r]} /\ UNCHANGED <<client, bundle>>
  BY DEF Import, Handling, DirRest
<1>2. Handed' = Handed /\ Reported' = Reported
  BY <1>1 DEF Handed, Reported
<1>3. r \in Handed
  BY <1>1 DEF Inv, StepInv, Handed
<1> QED BY <1>1, <1>2, <1>3 DEF Publishes

LEMMA StepKeeps == TypeOK /\ Inv /\ [Next]_vars => Kept
<1> SUFFICES ASSUME TypeOK, Inv, [Next]_vars PROVE Kept
  OBVIOUS
<1>0. ASSUME UNCHANGED <<client, bundle, environments>> PROVE Kept
  BY <1>0, NothingSeen DEF Kept
<1>1. CASE Begin
  <2>1. CASE BeginFill
    <3>1. UNCHANGED <<client, bundle, environments>>
      BY <2>1, BeginFillStep DEF BeginFill, BeginRest
    <3> QED BY <3>1, <1>0
  <2>2. CASE BeginList \/ SweepRmdir \/ BeginRefuse \/ BeginMake
             \/ \E u \in Run : SweepKeep(u) \/ SweepUnlink(u) \/ SweepMissing(u)
    <3>1. UNCHANGED <<client, bundle, environments>>
      BY <2>2 DEF BeginList, SweepRmdir, BeginRefuse, BeginMake, SweepKeep, SweepUnlink,
                  SweepMissing, BeginRest
    <3> QED BY <3>1, <1>0
  <2> QED BY <1>1, <2>1, <2>2 DEF Begin
<1>2. ASSUME NEW r \in Run, Script(r) PROVE Kept
  <2>0. BeginInv(r) /\ StoreInv(r) /\ ReceiptInv(r)
    BY DEF Inv
  <2>1. CASE Start(r)
    <3> DEFINE next == [phase |-> "begin", at |-> 0, attempt |-> 1, told |-> FALSE]
    <3>1. /\ client[r].phase = "new" /\ client' = [client EXCEPT ![r] = next]
          /\ UNCHANGED <<bundle, environments>>
      BY <2>1 DEF Start, Continue
    <3>2. client'[r].told = FALSE /\ client[r].told = FALSE
      BY <2>0, <3>1 DEF TypeOK, ReceiptInv
    <3>3. \A p \in Run \ {r} : client'[p] = client[p]
      BY <3>1 DEF TypeOK
    <3>4. ASSUME NEW p \in Run PROVE client'[p].told = client[p].told
      <4>1. CASE p = r
        BY <3>2, <4>1
      <4>2. CASE p # r
        BY <3>3, <4>2
      <4> QED BY <4>1, <4>2
    <3> QED BY <3>1, <3>4, NothingSeen DEF Kept
  <2>2. ASSUME Waiting(r), Failed(r) \/ (reply[r].is = "ok" /\ Answered(r)),
               UNCHANGED <<bundle, environments>>
        PROVE  Kept
    <3>1. Outcome(r)
      BY <2>2, Outcomes
    <3>2. Moved(r) /\ Tells(r)
      BY <2>0, <2>2, <3>1, Moves
    <3> QED BY <2>2, <3>2, ScriptKeeps DEF Kept
  <2>3. CASE Receive(r)
    <3>1. /\ Waiting(r) /\ UNCHANGED <<bundle, environments>>
          /\ Failed(r) \/ (reply[r].is = "ok" /\ Answered(r))
      BY <2>3 DEF Receive, serverVars
    <3> QED BY <3>1, <2>2
  <2>4. CASE GiveUp(r)
    <3>1. Waiting(r) /\ UNCHANGED <<bundle, environments>> /\ Failed(r)
      BY <2>4 DEF GiveUp
    <3> QED BY <3>1, <2>2
  <2> QED BY <1>2, <2>1, <2>3, <2>4 DEF Script
<1>3. ASSUME NEW r \in Run, Handle(r) PROVE Kept
  <2>1. CASE ChunkWrite(r)
    BY <2>1, ChunkKeeps DEF Kept
  <2>2. CASE Import(r)
    BY <2>2, ImportKeeps DEF Kept
  <2>3. CASE ChunkStart(r) \/ FinishStart(r) \/ ImportFails(r) \/ WriteReceipt(r)
             \/ FinishClean(r) \/ Abort(r)
    <3>1. UNCHANGED <<client, bundle, environments>>
      BY <2>3 DEF ChunkStart, FinishStart, ImportFails, WriteReceipt, FinishClean, Abort, DirRest
    <3> QED BY <3>1, <1>0
  <2> QED BY <1>3, <2>1, <2>2, <2>3 DEF Handle
<1>4. ASSUME NEW r \in Run, Arrive(r) \/ Age(r) PROVE Kept
  <2>1. UNCHANGED <<client, bundle, environments>>
    BY <1>4 DEF Arrive, Age
  <2> QED BY <2>1, <1>0
<1>5. CASE Restart \/ UNCHANGED vars
  <2>1. UNCHANGED <<client, bundle, environments>>
    BY <1>5 DEF Restart, vars, serverVars
  <2> QED BY <2>1, <1>0
<1> QED BY <1>1, <1>2, <1>3, <1>4, <1>5 DEF Next

\* The upload implements ProjectImport: an environment appears only for a
\* bundle that was handed over whole, stays, and is there when it is reported.
THEOREM Implements == Spec => ImportSpec
<1>1. Init => Promise!ImportInit
  <2> SUFFICES ASSUME Init PROVE Promise!ImportInit
    OBVIOUS
  <2>1. Handed = {}
    BY Constants, EmptySeq DEF Init, Handed
  <2>2. Reported = {} /\ environments = {}
    BY DEF Init, Reported
  <2> QED BY <2>1, <2>2 DEF Promise!ImportInit
<1>2. TypeOK /\ Inv /\ [Next]_vars => [Promise!ImportNext]_<<Handed, environments, Reported>>
  BY StepKeeps DEF Kept, Unseen, HandsOver, Publishes, Reports, Promise!ImportNext,
     Promise!HandOver, Promise!Publish, Promise!Report
<1> QED BY <1>1, <1>2, Invariance, PTL
    DEF Spec, ImportSpec, Promise!ImportSpec, Promise!importVars
-----------------------------------------------------------------------------
(* A run fails for a reason.  Until a run met a fault or was refused, every *)
(* call that its script waits for finds what the handler asks for.          *)

\* The calls of a run that are on their way or wait for the lock.
Sent(r)  == calls[r] \cup Members(queue[r])
Whole(r) == {"metadata", "bundle"} \subseteq files[r]

ChunkServed(r) ==
  /\ Whole(r)
  /\ Len(bundle[r]) <= client[r].at + 1
  /\ reply[r].is = "ok" => reply[r].at = client[r].at + 1
  /\ \A c \in Sent(r) : c.kind = "chunk" /\ c.at <= client[r].at
FinishServed(r) ==
  /\ client[r].at = Size
  /\ Whole(r) \/ "receipt" \in files[r]
  /\ \A c \in Sent(r) : c.kind \in {"chunk", "finish"}

Served(r) ==
  /\ client[r].phase \notin {"abort", "failed"}
  /\ Waiting(r) => r \in live
  /\ reply[r].is # "error"
  /\ client[r].phase = "begin" /\ reply[r].is = "ok" => Whole(r)
  /\ client[r].phase = "chunk" => ChunkServed(r)
  /\ client[r].phase = "finish" => FinishServed(r)
  /\ step[r] \in {"import", "receipt", "clean"} => Whole(r)
  /\ step[r] = "clean" => "receipt" \in files[r]

Fine(r) == r \in excused \/ Served(r)
FInv ==
  /\ \A r \in Run : Fine(r)
  /\ begun.at = "rmdir" => begun.victim \in excused

\* Whatever leaves a run alone keeps it served.
LEMMA FineStays ==
  ASSUME NEW r \in Run, Fine(r), excused \subseteq excused', client'[r] = client[r],
         reply'[r] = reply[r], step'[r] = step[r], files'[r] = files[r], bundle'[r] = bundle[r],
         r \in live => r \in live', Sent(r)' \subseteq Sent(r)
  PROVE  Fine(r)'
<1>1. CASE r \in excused
  BY <1>1 DEF Fine
<1>2. CASE Served(r)
  <2>1. (Waiting(r)' <=> Waiting(r)) /\ (Whole(r)' <=> Whole(r))
    BY DEF Waiting, Whole
  <2>2. ChunkServed(r) => ChunkServed(r)'
    BY <2>1 DEF ChunkServed
  <2>3. FinishServed(r) => FinishServed(r)'
    BY <2>1 DEF FinishServed
  <2> QED BY <1>2, <2>1, <2>2, <2>3 DEF Served, Fine
<1> QED BY <1>1, <1>2 DEF Fine

\* A handler touches its own run only.
LEMMA FinishAside ==
  ASSUME TypeOK, NEW r \in Run, NEW is, NEW at, Finish(r, is, at)
  PROVE  /\ \A p \in Run \ {r} : queue'[p] = queue[p] /\ step'[p] = step[p] /\ reply'[p] = reply[p]
         /\ queue'[r] = Tail(queue[r]) /\ step'[r] = "start"
         /\ \/ reply'[r] = reply[r]
            \/ /\ Waiting(r) /\ Head(queue[r]) = CallOf(client[r])
               /\ reply'[r].is = is /\ reply'[r].at = at
<1>1. /\ queue' = [queue EXCEPT ![r] = Tail(@)] /\ step' = [step EXCEPT ![r] = "start"]
      /\ \/ reply' = reply
         \/ /\ Waiting(r) /\ Head(queue[r]) = CallOf(client[r])
            /\ reply' = [reply EXCEPT ![r] = [is |-> is, at |-> at]]
  BY DEF Finish, Answer
<1>2. DOMAIN queue = Run /\ DOMAIN step = Run /\ DOMAIN reply = Run
  BY DEF TypeOK
<1> QED BY <1>1, <1>2

LEMMA HandleAside ==
  ASSUME TypeOK, NEW r \in Run, Handle(r)
  PROVE  /\ UNCHANGED <<client, calls, live, begun>> /\ excused \subseteq excused'
         /\ \A p \in Run \ {r} : queue'[p] = queue[p] /\ step'[p] = step[p] /\ reply'[p] = reply[p]
                                 /\ files'[p] = files[p] /\ bundle'[p] = bundle[p]
<1>1. UNCHANGED <<client, calls, live, begun>> /\ excused \subseteq excused'
  BY DEF Handle, ChunkStart, ChunkWrite, FinishStart, Import, ImportFails, WriteReceipt,
         FinishClean, Abort, DirRest
<1>2. \/ \E is, at : Finish(r, is, at)
      \/ \E at : Advance(r, at)
  BY DEF Handle, ChunkStart, ChunkWrite, FinishStart, Import, ImportFails, WriteReceipt,
         FinishClean, Abort
<1>3. \A p \in Run \ {r} : queue'[p] = queue[p] /\ step'[p] = step[p] /\ reply'[p] = reply[p]
  <2>1. CASE \E is, at : Finish(r, is, at)
    BY <2>1, FinishAside
  <2>2. CASE \E at : Advance(r, at)
    BY <2>2 DEF Advance, TypeOK
  <2> QED BY <1>2, <2>1, <2>2
<1>4. \A p \in Run \ {r} : files'[p] = files[p]
  BY DEF Handle, ChunkStart, ChunkWrite, FinishStart, Import, ImportFails, WriteReceipt,
         FinishClean, Abort, TypeOK
<1>5. \A p \in Run \ {r} : bundle'[p] = bundle[p]
  BY DEF Handle, ChunkStart, ChunkWrite, FinishStart, Import, ImportFails, WriteReceipt,
         FinishClean, Abort, TypeOK
<1> QED BY <1>1, <1>3, <1>4, <1>5

\* The first call of a run that is served, and what its handler has to keep.
LEMMA FirstCall ==
  ASSUME TypeOK, Inv, NEW r \in Run, queue[r] # <<>>
  PROVE  /\ Head(queue[r]) \in Sent(r) /\ Members(Tail(queue[r])) \subseteq Members(queue[r])
         /\ client[r].phase \notin {"new", "begin"}
         /\ client[r].at \in Nat /\ Len(bundle[r]) \in Nat /\ Head(queue[r]).at \in Nat /\ Size \in Nat
<1>1. queue[r] \in Seq(Call)
  BY DEF TypeOK
<1>2. Head(queue[r]) \in Members(queue[r]) /\ Members(Tail(queue[r])) \subseteq Members(queue[r])
  BY <1>1, TailMembers
<1>3. client[r].phase \notin {"new", "begin"}
  BY DEF Inv, BeginInv
<1>4. Size \in Nat /\ Len(bundle[r]) \in 0..Size /\ Head(queue[r]).at \in 0..Size
  BY Now, Constants
<1>5. client[r].at \in 0..Size
  BY DEF TypeOK
<1>6. client[r].at \in Nat /\ Len(bundle[r]) \in Nat /\ Head(queue[r]).at \in Nat
  BY ONLY <1>4, <1>5
<1> QED BY <1>2, <1>3, <1>4, <1>6 DEF Sent

LEMMA HandledFine ==
  ASSUME TypeOK, Inv, NEW r \in Run, queue[r] # <<>>, Handle(r), Served(r),
         queue'[r] \in {queue[r], Tail(queue[r])}, reply'[r].is # "error",
         client[r].phase = "chunk" =>
           /\ Whole(r)' /\ Len(bundle'[r]) <= client[r].at + 1
           /\ reply'[r].is = "ok" => reply'[r].at = client[r].at + 1,
         client[r].phase = "finish" => Whole(r)' \/ "receipt" \in files'[r],
         step'[r] \in {"import", "receipt", "clean"} => Whole(r)',
         step'[r] = "clean" => "receipt" \in files'[r]
  PROVE  Fine(r)'
<1>1. client' = client /\ live' = live /\ calls' = calls
  BY HandleAside
<1>2. Members(queue'[r]) \subseteq Members(queue[r]) /\ client[r].phase \notin {"new", "begin"}
  BY FirstCall
<1>3. Sent(r)' \subseteq Sent(r)
  BY <1>1, <1>2 DEF Sent
<1>4. Waiting(r)' <=> Waiting(r)
  BY <1>1 DEF Waiting
<1>5. client[r].phase = "chunk" => ChunkServed(r)'
  BY <1>1, <1>3 DEF Served, ChunkServed
<1>6. client[r].phase = "finish" => FinishServed(r)'
  BY <1>1, <1>3 DEF Served, FinishServed
<1> QED BY <1>1, <1>2, <1>4, <1>5, <1>6 DEF Served, Fine

\* A call that goes wrong is not one the script waits for.
LEMMA ChunkStartFine ==
  ASSUME TypeOK, Inv, NEW r \in Run, ChunkStart(r), Served(r)
  PROVE  Fine(r)'
<1> DEFINE at == Head(queue[r]).at
           n == Len(bundle[r])
           current == Waiting(r) /\ Head(queue[r]) = CallOf(client[r])
<1>1. /\ queue[r] # <<>> /\ Head(queue[r]).kind = "chunk" /\ Handle(r)
      /\ files' = files /\ bundle' = bundle
  BY DEF ChunkStart, Handling, Handle
<1>2. StoreInv(r) /\ at \in Nat /\ n \in Nat /\ client[r].at \in Nat
  BY <1>1, Now, FirstCall
<1>3. current => client[r].phase = "chunk" /\ at = client[r].at
  BY <1>1, Now, PhaseOfCall
<1>4. \/ Advance(r, "write")
      \/ at < n /\ Finish(r, "ok", n)
      \/ /\ Finish(r, "error", 0)
         /\ ~Whole(r) \/ at > n \/ (at < n /\ bundle[r][at + 1] # at + 1)
  BY <1>2 DEF ChunkStart, Whole
<1>5. current => Whole(r) /\ at <= n /\ n <= at + 1
  BY <1>3 DEF Served, ChunkServed, StoreInv, Inv
<1>6. at < n => bundle[r][at + 1] = at + 1
  <2> SUFFICES ASSUME at < n PROVE bundle[r][at + 1] = at + 1
    OBVIOUS
  <2>1. bundle[r] = [i \in 1..n |-> i]
    BY <1>2 DEF StoreInv
  <2>2. at + 1 \in 1..n
    BY <1>2
  <2> HIDE DEF at, n
  <2> QED BY ONLY <2>1, <2>2
<1>7. queue'[r] \in {queue[r], Tail(queue[r])} /\ step'[r] \in {"start", "write"}
  <2>1. CASE Advance(r, "write")
    BY <2>1, Advances
  <2>2. CASE Finish(r, "ok", n) \/ Finish(r, "error", 0)
    BY <2>2, FinishAside
  <2> QED BY <1>4, <2>1, <2>2
<1>8. \/ reply'[r] = reply[r]
      \/ client[r].phase = "chunk" /\ reply'[r].is = "ok" /\ reply'[r].at = client[r].at + 1
  <2>1. CASE Advance(r, "write")
    BY <2>1, Advances
  <2>2. CASE at < n /\ Finish(r, "ok", n)
    <3>1. reply'[r] = reply[r] \/ (current /\ reply'[r].is = "ok" /\ reply'[r].at = n)
      BY <2>2, FinishAside
    <3>2. current => n = client[r].at + 1
      <4> SUFFICES ASSUME current PROVE n = client[r].at + 1
        OBVIOUS
      <4>1. at < n /\ n <= at + 1 /\ at = client[r].at /\ at \in Nat /\ n \in Nat
        BY <1>2, <1>3, <1>5, <2>2
      <4> HIDE DEF at, n
      <4> QED BY ONLY <4>1
    <3> QED BY <1>3, <3>1, <3>2
  <2>3. CASE /\ Finish(r, "error", 0)
             /\ ~Whole(r) \/ at > n \/ (at < n /\ bundle[r][at + 1] # at + 1)
    <3>1. ~current
      BY <1>2, <1>5, <1>6, <2>3
    <3> QED BY <2>3, <3>1, FinishAside
  <2> QED BY <1>4, <2>1, <2>2, <2>3
<1> QED BY <1>1, <1>7, <1>8, HandledFine DEF Served, ChunkServed, FinishServed, Whole

LEMMA ChunkWriteFine ==
  ASSUME TypeOK, Inv, NEW r \in Run, ChunkWrite(r), Served(r)
  PROVE  Fine(r)'
<1> DEFINE at == Head(queue[r]).at
           n == Len(bundle[r])
<1>1. /\ queue[r] # <<>> /\ Head(queue[r]).kind = "chunk" /\ step[r] = "write" /\ Handle(r)
      /\ Finish(r, "ok", at + 1) /\ files' = files
      /\ bundle' = [bundle EXCEPT ![r] = Append(@, at + 1)]
  BY DEF ChunkWrite, Handling, Handle
<1>2. at = n /\ at \in Nat /\ n \in Nat /\ client[r].at \in Nat /\ Head(queue[r]) \in Sent(r)
  BY <1>1, Now, FirstCall DEF StepInv
<1>3. Len(bundle'[r]) = at + 1
  <2>1. bundle[r] \in Seq(1..Size) /\ bundle'[r] = Append(bundle[r], at + 1)
    BY <1>1 DEF TypeOK
  <2>2. at + 1 \in 1..Size
    <3>1. at < Size /\ Size \in Nat
      BY <1>1, Now, Constants
    <3> QED BY <1>2, <3>1
  <2> QED BY <1>2, <2>1, <2>2, AppendProperties
<1>4. client[r].phase = "chunk" => Len(bundle'[r]) <= client[r].at + 1
  <2>1. client[r].phase = "chunk" => at <= client[r].at
    BY <1>2 DEF Served, ChunkServed
  <2> QED BY <1>2, <1>3, <2>1
<1>5. \/ reply'[r] = reply[r]
      \/ client[r].phase = "chunk" /\ reply'[r].is = "ok" /\ reply'[r].at = client[r].at + 1
  BY <1>1, Now, FinishAside, PhaseOfCall
<1>6. queue'[r] = Tail(queue[r]) /\ step'[r] = "start"
  BY <1>1, FinishAside
<1> QED BY <1>1, <1>4, <1>5, <1>6, HandledFine DEF Served, ChunkServed, FinishServed, Whole

\* A finish finds the receipt of an earlier one, or a bundle that is complete.
LEMMA FinishStartFine ==
  ASSUME TypeOK, Inv, NEW r \in Run, FinishStart(r), Served(r)
  PROVE  Fine(r)'
<1>1. /\ queue[r] # <<>> /\ Head(queue[r]).kind = "finish" /\ Handle(r) /\ files' = files /\ bundle' = bundle
  BY DEF FinishStart, Handling, Handle
<1>2. \/ Complete(r) /\ Advance(r, "import")
      \/ Finish(r, "ok", Size)
      \/ "receipt" \notin files[r] /\ ~Complete(r) /\ Finish(r, "error", 0)
  BY DEF FinishStart
<1>3. Waiting(r) /\ Head(queue[r]) = CallOf(client[r]) => client[r].phase = "finish"
  BY <1>1, Now, PhaseOfCall
<1>4. client[r].phase = "finish" => "receipt" \in files[r] \/ Complete(r)
  <2> SUFFICES ASSUME client[r].phase = "finish", "receipt" \notin files[r] PROVE Complete(r)
    OBVIOUS
  <2>1. Whole(r) /\ client[r].at = Size
    BY DEF Served, FinishServed
  <2>2. Size <= Len(bundle[r]) /\ Len(bundle[r]) <= Size /\ bundle[r] = [i \in 1..Len(bundle[r]) |-> i]
    BY <2>1 DEF Inv, StoreInv
  <2>3. Len(bundle[r]) = Size
    BY <1>1, <2>2, FirstCall
  <2> QED BY <2>1, <2>2, <2>3 DEF Complete, Whole
<1>5. reply'[r] = reply[r] \/ (client[r].phase = "finish" /\ reply'[r].is = "ok")
  <2>1. CASE Advance(r, "import")
    BY <2>1, Advances
  <2>2. CASE Finish(r, "ok", Size)
    BY <1>3, <2>2, FinishAside
  <2>3. CASE "receipt" \notin files[r] /\ ~Complete(r) /\ Finish(r, "error", 0)
    BY <1>3, <1>4, <2>3, FinishAside
  <2> QED BY <1>2, <2>1, <2>2, <2>3
<1>6. queue'[r] \in {queue[r], Tail(queue[r])}
      /\ (step'[r] = "start" \/ (step'[r] = "import" /\ Whole(r)))
  <2>1. CASE Complete(r) /\ Advance(r, "import")
    BY <2>1, Advances DEF Complete, Whole
  <2>2. CASE Finish(r, "ok", Size) \/ Finish(r, "error", 0)
    BY <2>2, FinishAside
  <2> QED BY <1>2, <2>1, <2>2
<1> QED BY <1>1, <1>5, <1>6, HandledFine DEF Served, ChunkServed, FinishServed, Whole

LEMMA ReceiptFine ==
  ASSUME TypeOK, Inv, NEW r \in Run, Import(r) \/ WriteReceipt(r), Served(r)
  PROVE  Fine(r)'
<1>1. /\ queue[r] # <<>> /\ step[r] \in {"import", "receipt"} /\ Handle(r) /\ bundle' = bundle
  BY DEF Import, WriteReceipt, Handling, Handle
<1>2. Whole(r) /\ "dir" \in files[r]
  BY <1>1, Now DEF Served, Whole
<1>3. CASE Import(r)
  <2>1. Advance(r, "receipt") /\ files' = files
    BY <1>3 DEF Import
  <2>2. step'[r] = "receipt" /\ queue' = queue /\ reply' = reply
    BY <2>1, Advances
  <2> QED BY <1>1, <1>2, <2>1, <2>2, HandledFine DEF Served, ChunkServed, FinishServed, Whole
<1>4. CASE WriteReceipt(r)
  <2>1. Advance(r, "clean") /\ files'[r] = files[r] \cup {"receipt"}
    BY <1>2, <1>4 DEF WriteReceipt, TypeOK
  <2>2. step'[r] = "clean" /\ queue' = queue /\ reply' = reply
    BY <2>1, Advances
  <2>3. Whole(r)' /\ "receipt" \in files'[r]
    BY <1>2, <2>1 DEF Whole
  <2> QED BY <1>1, <2>2, <2>3, HandledFine DEF Served, ChunkServed, FinishServed
<1> QED BY <1>3, <1>4

\* What a run that is served cleans up, it needs no longer.
LEMMA CleanFine ==
  ASSUME TypeOK, Inv, NEW r \in Run, FinishClean(r) \/ Abort(r), Served(r)
  PROVE  Fine(r)'
<1>1. queue[r] # <<>> /\ Head(queue[r]).kind \in {"finish", "abort"} /\ Handle(r) /\ bundle' = bundle
  BY DEF FinishClean, Abort, Handling, Handle
<1>2. Head(queue[r]) \in Sent(r)
  BY <1>1, FirstCall
<1>3. client[r].phase # "chunk"
  BY <1>1, <1>2 DEF Served, ChunkServed
<1>4. /\ Finish(r, "ok", Size) \/ Finish(r, "ok", 0)
      /\ client[r].phase = "finish" => "receipt" \in files'[r]
  <2>1. CASE FinishClean(r)
    <3>1. step[r] = "clean" /\ files'[r] = files[r] \ {"bundle"}
      BY <2>1 DEF FinishClean, Handling, TypeOK
    <3>2. "bundle" \in files[r] /\ "receipt" \in files[r]
      BY <3>1 DEF Served, Whole
    <3> QED BY <2>1, <3>1, <3>2 DEF FinishClean
  <2>2. CASE Abort(r)
    <3>1. Head(queue[r]).kind = "abort" /\ Finish(r, "ok", 0)
      BY <2>2 DEF Abort, Handling
    <3>2. client[r].phase # "finish"
      BY <1>2, <3>1 DEF Served, FinishServed
    <3> QED BY <3>1, <3>2
  <2> QED BY <2>1, <2>2
<1>5. queue'[r] = Tail(queue[r]) /\ step'[r] = "start" /\ reply'[r].is # "error"
  BY <1>4, FinishAside DEF Served
<1> QED BY <1>1, <1>3, <1>4, <1>5, HandledFine

LEMMA HandleFine ==
  ASSUME TypeOK, Inv, FInv, NEW r \in Run, Handle(r)
  PROVE  FInv'
<1>1. begun' = begun /\ excused \subseteq excused'
  BY HandleAside
<1>2. ASSUME NEW p \in Run, p # r PROVE Fine(p)'
  <2>1. /\ client' = client /\ calls' = calls /\ live' = live
        /\ queue'[p] = queue[p] /\ step'[p] = step[p] /\ reply'[p] = reply[p]
        /\ files'[p] = files[p] /\ bundle'[p] = bundle[p]
    BY <1>2, HandleAside
  <2>2. Sent(p)' = Sent(p)
    BY <2>1 DEF Sent
  <2> QED BY <1>1, <2>1, <2>2, FineStays DEF FInv
<1>3. Fine(r)'
  <2>1. CASE r \in excused \/ ImportFails(r)
    BY <1>1, <2>1 DEF Fine, ImportFails
  <2>2. CASE r \notin excused /\ ~ImportFails(r)
    <3>1. Served(r)
      BY <2>2 DEF FInv, Fine
    <3> QED BY <2>2, <3>1, ChunkStartFine, ChunkWriteFine, FinishStartFine, ReceiptFine, CleanFine
            DEF Handle
  <2> QED BY <2>1, <2>2
<1> QED BY <1>1, <1>2, <1>3 DEF FInv

\* The script goes on from a call that was answered, or tries it again.
LEMMA Onward ==
  ASSUME TypeOK, NEW r \in Run, NEW phase, NEW at, NEW attempt, NEW told,
         Continue(r, phase, at, attempt, told)
  PROVE  /\ client'[r].phase = phase /\ client'[r].at = at /\ reply'[r].is = "none"
         /\ calls'[r] \subseteq calls[r] \cup {CallOf(client'[r])}
         /\ phase = "failed" => calls'[r] = calls[r]
         /\ \A p \in Run \ {r} : client'[p] = client[p] /\ calls'[p] = calls[p] /\ reply'[p] = reply[p]
<1> DEFINE next == [phase |-> phase, at |-> at, attempt |-> attempt, told |-> told]
<1>1. /\ client' = [client EXCEPT ![r] = next] /\ reply' = [reply EXCEPT ![r] = NoReply]
      /\ calls' = IF phase \in Ended THEN calls ELSE [calls EXCEPT ![r] = @ \cup {CallOf(next)}]
  BY DEF Continue
<1>2. DOMAIN client = Run /\ DOMAIN reply = Run /\ DOMAIN calls = Run
  BY DEF TypeOK
<1>3. next.phase = phase /\ next.at = at /\ NoReply.is = "none"
  BY DEF NoReply
<1> HIDE DEF next
<1>4. client'[r] = next /\ \A p \in Run \ {r} : client'[p] = client[p]
  BY <1>1, <1>2
<1>5. reply'[r].is = "none" /\ \A p \in Run \ {r} : reply'[p] = reply[p]
  BY <1>1, <1>2, <1>3
<1>6. /\ calls'[r] \subseteq calls[r] \cup {CallOf(next)}
      /\ phase = "failed" => calls'[r] = calls[r]
      /\ \A p \in Run \ {r} : calls'[p] = calls[p]
  BY <1>1, <1>2 DEF Ended
<1> QED BY <1>3, <1>4, <1>5, <1>6

\* It enters a phase in which it has been served so far.
LEMMA OnwardFine ==
  ASSUME TypeOK, NEW r \in Run, Served(r), Waiting(r),
         client'[r].phase \in {"chunk", "finish", "thank", "ok"}, reply'[r].is = "none",
         calls'[r] \subseteq calls[r] \cup {CallOf(client'[r])},
         UNCHANGED <<live, queue, step, files, bundle>>,
         client'[r].phase = "chunk" =>
           /\ Whole(r) /\ Len(bundle[r]) <= client'[r].at + 1 /\ client'[r].at \in Nat
           /\ \A c \in Sent(r) : c.kind = "chunk" /\ c.at <= client'[r].at,
         client'[r].phase = "finish" =>
           /\ client'[r].at = Size /\ (Whole(r) \/ "receipt" \in files[r])
           /\ \A c \in Sent(r) : c.kind \in {"chunk", "finish"}
  PROVE  Fine(r)'
<1>1. Sent(r)' \subseteq Sent(r) \cup {CallOf(client'[r])} /\ (Whole(r)' <=> Whole(r))
  BY DEF Sent, Whole
<1>2. client'[r].phase # "thank" => CallOf(client'[r]).kind = client'[r].phase
  BY DEF CallOf, Kind
<1>3. CallOf(client'[r]).at = client'[r].at
  BY DEF CallOf
<1>4. client'[r].phase = "chunk" => ChunkServed(r)'
  BY <1>1, <1>2, <1>3 DEF ChunkServed
<1>5. client'[r].phase = "finish" => FinishServed(r)'
  BY <1>1, <1>2 DEF FinishServed
<1> QED BY <1>1, <1>4, <1>5 DEF Served, Fine

LEMMA AnsweredFine ==
  ASSUME TypeOK, Inv, NEW r \in Run, Receive(r), Served(r)
  PROVE  Fine(r)'
<1>1. /\ Waiting(r) /\ reply[r].is = "ok" /\ Answered(r)
      /\ UNCHANGED <<live, queue, step, files, bundle>>
  BY DEF Receive, Served, TypeOK, Reply, serverVars
<1>2. /\ client[r].at \in Nat /\ Len(bundle[r]) \in Nat /\ Size \in Nat /\ 0 < Size
      /\ reply[r].at \in 0..Size
  <2>1. client[r].at \in 0..Size /\ reply[r].at \in 0..Size /\ bundle[r] \in Seq(1..Size)
    BY DEF TypeOK, Reply
  <2> QED BY <2>1, Constants, LenProperties
<1>3. CASE client[r].phase = "begin"
  <2>1. Continue(r, "chunk", 0, 1, FALSE)
    BY <1>1, <1>3 DEF Answered
  <2>2. Whole(r)
    BY <1>1, <1>3 DEF Served
  <2>3. Sent(r) = {} /\ Len(bundle[r]) = 0
    <3>1. queue[r] = <<>> /\ calls[r] \subseteq {BeginCall} /\ bundle[r] = <<>> /\ ~InFlight(r)
      BY <1>1, <1>3 DEF Inv, BeginInv
    <3>2. calls[r] = {}
      BY <3>1 DEF InFlight
    <3> QED BY <3>1, <3>2, NoMembers, EmptySeq DEF Sent
  <2>4. /\ client'[r].phase = "chunk" /\ client'[r].at = 0 /\ reply'[r].is = "none"
        /\ calls'[r] \subseteq calls[r] \cup {CallOf(client'[r])}
    <3>1. PICK at, attempt, told : at = 0 /\ Continue(r, "chunk", at, attempt, told)
      BY <2>1
    <3>2. /\ client'[r].phase = "chunk" /\ client'[r].at = at /\ reply'[r].is = "none"
          /\ calls'[r] \subseteq calls[r] \cup {CallOf(client'[r])}
      BY ONLY TypeOK, <3>1, Onward
    <3> QED BY <3>1, <3>2
  <2>5. Len(bundle[r]) <= client'[r].at + 1 /\ client'[r].at \in Nat
    <3>1. client'[r].at = 0 /\ Len(bundle[r]) = 0
      BY <2>3, <2>4
    <3> QED BY ONLY <3>1
  <2>6. \A c \in Sent(r) : c.kind = "chunk" /\ c.at <= client'[r].at
    BY <2>3
  <2> QED BY <1>1, <2>2, <2>4, <2>5, <2>6, OnwardFine
<1>4. CASE client[r].phase = "chunk"
  <2>1. /\ Whole(r) /\ Len(bundle[r]) <= client[r].at + 1 /\ reply[r].at = client[r].at + 1
        /\ \A c \in Sent(r) : c.kind = "chunk" /\ c.at <= client[r].at
    BY <1>1, <1>4 DEF Served, ChunkServed
  <2>2. Continue(r, IF reply[r].at = Size THEN "finish" ELSE "chunk", reply[r].at, 1, FALSE)
    BY <1>1, <1>4, <2>1 DEF Answered
  <2>3. \A c \in Sent(r) : c.at \in Nat
    <3>1. calls[r] \subseteq Call /\ queue[r] \in Seq(Call)
      BY DEF TypeOK
    <3>2. Members(queue[r]) \subseteq Call
      BY <3>1 DEF Members
    <3> QED BY <3>1, <3>2, <1>2, CallTypes DEF Sent
  <2>4. \A c \in Sent(r) : c.kind = "chunk" /\ c.at <= reply[r].at
    BY <1>2, <2>1, <2>3
  <2>5. Len(bundle[r]) <= reply[r].at + 1 /\ reply[r].at \in Nat
    BY <1>2, <2>1
  <2>6. CASE reply[r].at = Size
    <3>1. PICK attempt, told : Continue(r, "finish", Size, attempt, told)
      BY <2>2, <2>6
    <3>2. /\ client'[r].phase = "finish" /\ client'[r].at = Size /\ reply'[r].is = "none"
          /\ calls'[r] \subseteq calls[r] \cup {CallOf(client'[r])}
      BY ONLY TypeOK, <3>1, Onward
    <3>3. \A c \in Sent(r) : c.kind \in {"chunk", "finish"}
      BY <2>1
    <3> QED BY ONLY TypeOK, Served(r), <1>1, <2>1, <3>2, <3>3, OnwardFine
  <2>7. CASE reply[r].at # Size
    <3>1. PICK attempt, told : Continue(r, "chunk", reply[r].at, attempt, told)
      BY <2>2, <2>7
    <3>2. /\ client'[r].phase = "chunk" /\ client'[r].at = reply[r].at /\ reply'[r].is = "none"
          /\ calls'[r] \subseteq calls[r] \cup {CallOf(client'[r])}
      BY ONLY TypeOK, <3>1, Onward
    <3>3. /\ Len(bundle[r]) <= client'[r].at + 1 /\ client'[r].at \in Nat
          /\ \A c \in Sent(r) : c.kind = "chunk" /\ c.at <= client'[r].at
      BY ONLY <2>4, <2>5, <3>2
    <3> QED BY ONLY TypeOK, Served(r), <1>1, <2>1, <3>2, <3>3, OnwardFine
  <2> QED BY <2>6, <2>7
<1>5. CASE client[r].phase \in {"finish", "thank"}
  <2>1. \/ Continue(r, "thank", client[r].at, Attempts + 1, TRUE)
        \/ Continue(r, "ok", client[r].at, client[r].attempt, client[r].told)
    BY <1>1, <1>5 DEF Answered
  <2>2. client'[r].phase \in {"thank", "ok"} /\ reply'[r].is = "none"
        /\ calls'[r] \subseteq calls[r] \cup {CallOf(client'[r])}
    BY ONLY TypeOK, <2>1, Onward
  <2>3. /\ client'[r].phase \in {"chunk", "finish", "thank", "ok"}
        /\ client'[r].phase # "chunk" /\ client'[r].phase # "finish"
    BY <2>2
  <2> QED BY ONLY TypeOK, Served(r), <1>1, <2>2, <2>3, OnwardFine
<1> QED BY <1>1, <1>3, <1>4, <1>5 DEF Waiting, Phases, Ended, Served

LEMMA AgainFine ==
  ASSUME TypeOK, Inv, NEW r \in Run, GiveUp(r), Served(r)
  PROVE  Fine(r)'
<1> SUFFICES ASSUME r \notin excused' PROVE Fine(r)'
  BY DEF Fine
<1>1. /\ Waiting(r) /\ Failed(r) /\ UNCHANGED <<live, queue, step, files, bundle>>
      /\ client[r].phase \in {"chunk", "finish"} /\ client[r].attempt < Attempts
  BY DEF GiveUp
<1>2. Continue(r, client[r].phase, client[r].at, client[r].attempt + 1, client[r].told)
  <2>1. client[r].phase # "begin" /\ client[r].phase # "thank" /\ client[r].phase # "abort"
    BY <1>1
  <2>2. ~ (client[r].attempt >= Attempts)
    <3>1. client[r].attempt \in 1..(Attempts + 2)
      BY DEF TypeOK
    <3>2. Attempts \in Nat
      BY Constants
    <3> QED BY ONLY <1>1, <3>1, <3>2
  <2> QED BY ONLY <1>1, <2>1, <2>2 DEF Failed
<1>3. /\ client'[r].phase = client[r].phase /\ client'[r].at = client[r].at /\ reply'[r].is = "none"
      /\ calls'[r] \subseteq calls[r] \cup {CallOf(client'[r])}
  BY <1>2, Onward
<1>4. client[r].at \in Nat
  <2>1. client[r].at \in 0..Size
    BY DEF TypeOK
  <2> QED BY <2>1, Constants
<1> QED BY <1>1, <1>3, <1>4, OnwardFine DEF Served, ChunkServed, FinishServed

LEMMA ScriptFine ==
  ASSUME TypeOK, Inv, FInv, NEW r \in Run, Script(r)
  PROVE  FInv'
<1>1. /\ UNCHANGED <<queue, step, files, bundle, begun>> /\ excused \subseteq excused' /\ live \subseteq live'
      /\ \A p \in Run \ {r} : client'[p] = client[p] /\ calls'[p] = calls[p] /\ reply'[p] = reply[p]
  <2>1. \E phase, at, attempt, told : Continue(r, phase, at, attempt, told)
    <3>1. CASE Start(r)
      BY <3>1 DEF Start
    <3>2. CASE Receive(r) \/ GiveUp(r)
      <4>1. Waiting(r) /\ (Failed(r) \/ (reply[r].is = "ok" /\ Answered(r)))
        BY <3>2 DEF Receive, GiveUp
      <4>2. Outcome(r)
        BY <4>1, Outcomes
      <4> QED BY <4>2 DEF Outcome
    <3> QED BY <3>1, <3>2 DEF Script
  <2>2. \A p \in Run \ {r} : client'[p] = client[p] /\ calls'[p] = calls[p] /\ reply'[p] = reply[p]
    BY <2>1, Onward
  <2>3. UNCHANGED <<queue, step, files, bundle, begun>> /\ excused \subseteq excused' /\ live \subseteq live'
    BY DEF Script, Start, Receive, GiveUp, serverVars
  <2> QED BY <2>2, <2>3
<1>2. ASSUME NEW p \in Run, p # r PROVE Fine(p)'
  <2>1. client'[p] = client[p] /\ calls'[p] = calls[p] /\ reply'[p] = reply[p]
    BY <1>1, <1>2
  <2>2. Sent(p)' = Sent(p)
    BY <1>1, <2>1 DEF Sent
  <2> QED BY <1>1, <2>1, <2>2, FineStays DEF FInv
<1>3. Fine(r)'
  <2>1. CASE r \in excused
    BY <1>1, <2>1 DEF Fine
  <2>2. CASE Served(r) /\ Start(r)
    <3>1. Continue(r, "begin", 0, 1, FALSE) /\ live' = live \cup {r} /\ client[r].phase = "new"
      BY <2>2 DEF Start
    <3>2. client'[r].phase = "begin" /\ reply'[r].is = "none"
      BY <3>1, Onward
    <3>3. Whole(r)' <=> Whole(r)
      BY <1>1 DEF Whole
    <3> QED BY <1>1, <2>2, <3>1, <3>2, <3>3 DEF Served, Fine
  <2>3. CASE Served(r) /\ ~Start(r)
    BY <2>3, AnsweredFine, AgainFine DEF Script
  <2> QED BY <2>1, <2>2, <2>3 DEF FInv, Fine
<1> QED BY <1>1, <1>2, <1>3 DEF FInv

LEMMA ArriveFine ==
  ASSUME TypeOK, Inv, FInv, NEW r \in Run, Arrive(r)
  PROVE  FInv'
<1>1. PICK c \in calls[r] :
        /\ calls' = [calls EXCEPT ![r] = @ \ {c}]
        /\ \/ root' = Append(root, r) /\ UNCHANGED <<queue, reply>>
           \/ queue' = [queue EXCEPT ![r] = Append(@, c)] /\ UNCHANGED <<root, reply>>
           \/ r \notin live /\ Answer(r, c, "error", 0) /\ UNCHANGED <<root, queue>>
        /\ UNCHANGED <<client, excused, live, step, begun, files, bundle>>
  BY DEF Arrive
<1>2. /\ calls \in [Run -> SUBSET Call] /\ c \in Call
      /\ queue \in [Run -> Seq(Call)] /\ reply \in [Run -> Reply] /\ queue[r] \in Seq(Call)
  BY DEF TypeOK
<1>3. \A p \in Run : Sent(p)' \subseteq Sent(p)
  <2>1. /\ calls'[r] = calls[r] \ {c}
        /\ \A p \in Run \ {r} : calls'[p] = calls[p] /\ queue'[p] = queue[p]
    BY <1>1, <1>2
  <2>2. Members(queue'[r]) \subseteq Members(queue[r]) \cup {c}
    <3>1. CASE queue' = queue
      BY <3>1
    <3>2. CASE queue' = [queue EXCEPT ![r] = Append(@, c)]
      <4>1. queue'[r] = Append(queue[r], c)
        BY <1>2, <3>2
      <4>2. Members(Append(queue[r], c)) = Members(queue[r]) \cup {c}
        BY <1>2, AppendMembers
      <4> QED BY <4>1, <4>2
    <3> QED BY <1>1, <3>1, <3>2
  <2>3. Sent(r)' \subseteq Sent(r)
    BY <2>1, <2>2 DEF Sent
  <2> QED BY <2>1, <2>3 DEF Sent
<1>4. ASSUME NEW p \in Run, p # r PROVE reply'[p] = reply[p]
  BY <1>1, <1>2, <1>4 DEF Answer
<1>5. r \notin excused => reply' = reply
  <2>1. r \notin excused => (Waiting(r) => r \in live)
    BY DEF FInv, Fine, Served
  <2> QED BY <1>1, <2>1 DEF Answer
<1>6. ASSUME NEW p \in Run PROVE Fine(p)'
  <2>1. CASE p \in excused
    BY <1>1, <2>1 DEF Fine
  <2>2. CASE p \notin excused
    <3>1. reply'[p] = reply[p]
      BY <1>4, <1>5, <2>2
    <3> QED BY <1>1, <1>3, <3>1, FineStays DEF FInv
  <2> QED BY <2>1, <2>2
<1> QED BY <1>1, <1>6 DEF FInv

LEMMA AgeFine ==
  ASSUME TypeOK, Inv, FInv, NEW r \in Run, Age(r)
  PROVE  FInv'
<1>1. UNCHANGED <<client, calls, reply, excused, live, queue, step, begun, files, bundle>>
  BY DEF Age
<1>2. ASSUME NEW p \in Run PROVE Fine(p)'
  BY <1>1, FineStays DEF FInv, Sent
<1> QED BY <1>1, <1>2 DEF FInv

\* The run whose begin has the lock still waits for its answer.
LEMMA HeadFine ==
  ASSUME TypeOK, Inv, root # <<>>, NEW h \in Run, h = Head(root), Fine(h),
         excused \subseteq excused', UNCHANGED <<client, live, step>>,
         reply'[h].is # "error", reply'[h].is = "ok" => Whole(h)'
  PROVE  Fine(h)'
<1>1. client[h].phase \in {"begin", "failed"} /\ step[h] = "start"
  <2>1. BeginInv(h) /\ StepInv(h) /\ InFlight(h) /\ queue[h] = <<>>
    BY FirstBegin DEF Inv
  <2> QED BY <2>1 DEF BeginInv, StepInv
<1>2. client'[h] = client[h] /\ step'[h] = step[h] /\ (h \in live => h \in live')
      /\ (Waiting(h)' <=> Waiting(h))
  BY DEF Waiting
<1>3. ASSUME Served(h) PROVE Served(h)'
  <2>1. client'[h].phase \notin {"chunk", "finish", "abort", "failed"} /\ step'[h] = "start"
        /\ (Waiting(h)' => h \in live')
    BY <1>1, <1>2, <1>3 DEF Served
  <2> QED BY <2>1 DEF Served
<1> QED BY <1>3 DEF Fine

\* A begin that ends answers its own run only.
LEMMA EndedFine ==
  ASSUME TypeOK, Inv, FInv, root # <<>>, NEW h \in Run, h = Head(root), NEW is, EndBegin(is),
         UNCHANGED BeginRest, excused \subseteq excused', Fine(h)',
         \A p \in Run \ {h} : files'[p] = files[p] /\ bundle'[p] = bundle[p]
  PROVE  FInv'
<1>1. /\ UNCHANGED <<client, calls, live, queue, step>> /\ begun' = Idle
      /\ \A p \in Run \ {h} : reply'[p] = reply[p]
  BY DEF BeginRest, EndBegin, Answer, TypeOK
<1>2. ASSUME NEW p \in Run, p # h PROVE Fine(p)'
  BY <1>1, <1>2, FineStays DEF FInv, Sent
<1>3. begun'.at # "rmdir"
  BY <1>1 DEF Idle
<1> QED BY <1>2, <1>3 DEF FInv

LEMMA RefusedFine ==
  ASSUME TypeOK, Inv, FInv, root # <<>>, EndBegin("error"), UNCHANGED BeginRest,
         excused' = excused \cup {Head(root)}, UNCHANGED <<files, bundle>>
  PROVE  FInv'
<1>1. PICK h \in Run : h = Head(root)
  BY FirstBegin
<1>2. Fine(h)'
  BY <1>1 DEF Fine
<1> QED BY <1>1, <1>2, EndedFine

\* The sweep touches the directory of a run only after it excused that run.
LEMMA SweepFine ==
  ASSUME TypeOK, Inv, FInv, UNCHANGED <<reply, bundle, BeginRest>>, excused \subseteq excused',
         \A p \in Run : p \in excused' \/ files'[p] = files[p],
         begun'.at = "rmdir" => begun'.victim \in excused'
  PROVE  FInv'
<1>1. UNCHANGED <<client, calls, live, queue, step, reply, bundle>>
  BY DEF BeginRest
<1>2. ASSUME NEW p \in Run PROVE Fine(p)'
  <2>1. CASE p \in excused'
    BY <2>1 DEF Fine
  <2>2. CASE files'[p] = files[p]
    BY <1>1, <2>2, FineStays DEF FInv, Sent
  <2> QED BY <2>1, <2>2
<1> QED BY <1>2 DEF FInv

LEMMA BeginFine ==
  ASSUME TypeOK, Inv, FInv, Begin
  PROVE  FInv'
<1>1. CASE BeginList \/ \E u \in Run : SweepKeep(u)
  <2>1. UNCHANGED <<reply, bundle, excused, files, BeginRest>> /\ begun'.at # "rmdir"
    BY <1>1, BeginTypes DEF BeginList, SweepKeep, Idle
  <2> QED BY <2>1, SweepFine
<1>2. ASSUME NEW u \in Run, SweepUnlink(u) PROVE FInv'
  <2>1. /\ UNCHANGED <<reply, bundle, BeginRest>> /\ excused' = excused \cup {u}
        /\ files' = [files EXCEPT ![u] = {"dir"}] /\ begun'.victim = u
    BY <1>2 DEF SweepUnlink
  <2>2. \A p \in Run : p \in excused' \/ files'[p] = files[p]
    BY <2>1, BeginTypes
  <2> QED BY <2>1, <2>2, SweepFine
<1>3. CASE SweepRmdir
  <2>1. begun.at = "rmdir" /\ begun.victim \in excused
    BY <1>3 DEF SweepRmdir, FInv
  <2>2. CASE files[begun.victim] \subseteq {"dir"}
    <3>1. /\ UNCHANGED <<reply, bundle, excused, BeginRest>> /\ begun'.at # "rmdir"
          /\ files' = [files EXCEPT ![begun.victim] = {}]
      BY <1>3, <2>2, BeginTypes DEF SweepRmdir
    <3>2. \A p \in Run : p \in excused' \/ files'[p] = files[p]
      BY <2>1, <3>1, BeginTypes
    <3> QED BY <3>1, <3>2, SweepFine
  <2>3. CASE ~ files[begun.victim] \subseteq {"dir"}
    <3>1. /\ EndBegin("error") /\ UNCHANGED BeginRest /\ excused' = excused \cup {Head(root)}
          /\ UNCHANGED <<files, bundle>> /\ root # <<>>
      BY <1>3, <2>1, <2>3, BeginTypes DEF SweepRmdir
    <3> QED BY <3>1, RefusedFine
  <2> QED BY <2>2, <2>3
<1>4. CASE BeginRefuse \/ \E u \in Run : SweepMissing(u)
  <2>1. /\ EndBegin("error") /\ UNCHANGED BeginRest /\ excused' = excused \cup {Head(root)}
        /\ UNCHANGED <<files, bundle>> /\ root # <<>>
    BY <1>4, BeginTypes DEF BeginRefuse, SweepMissing
  <2> QED BY <2>1, RefusedFine
<1>5. CASE BeginMake
  <2>1. /\ files' = [files EXCEPT ![Head(root)] = {"dir"}] /\ begun'.at = "fill" /\ root # <<>>
        /\ UNCHANGED <<root, reply, excused, bundle, aged, BeginRest>>
    BY <1>5, BeginTypes DEF BeginMake
  <2>2. PICK h \in Run : h = Head(root)
    BY <2>1, FirstBegin
  <2>3. UNCHANGED <<client, calls, live, queue, step>>
    BY <2>1 DEF BeginRest
  <2>4. Fine(h)'
    <3>1. (client[h].phase \in {"begin", "failed"} /\ reply[h].is # "ok") \/ h \in excused
      <4>1. BeginInv(h) /\ InFlight(h) /\ Fine(h)
        BY <2>1, <2>2, FirstBegin DEF Inv, FInv
      <4> QED BY <4>1 DEF BeginInv, Fine, Served
    <3>2. CASE h \in excused
      BY <2>1, <3>2 DEF Fine
    <3>3. CASE h \notin excused
      <4>1. reply'[h].is # "error" /\ reply'[h].is # "ok" /\ Fine(h)
        BY <2>1, <3>1, <3>3 DEF FInv, Fine, Served
      <4> QED BY <2>1, <2>2, <2>3, <4>1, HeadFine
    <3> QED BY <3>2, <3>3
  <2>5. ASSUME NEW p \in Run, p # h PROVE Fine(p)'
    <3>1. files'[p] = files[p]
      BY <2>1, <2>2, <2>5, BeginTypes
    <3> QED BY <2>1, <2>3, <3>1, FineStays DEF FInv, Sent
  <2> QED BY <2>1, <2>4, <2>5 DEF FInv
<1>6. CASE BeginFill
  <2>1. /\ files' = [files EXCEPT ![Head(root)] = {"dir", "metadata", "bundle"}]
        /\ bundle' = [bundle EXCEPT ![Head(root)] = <<>>]
        /\ EndBegin("ok") /\ UNCHANGED <<excused, BeginRest>> /\ root # <<>>
    BY <1>6, BeginTypes DEF BeginFill
  <2>2. PICK h \in Run : h = Head(root)
    BY <2>1, FirstBegin
  <2>3. UNCHANGED <<client, calls, live, queue, step>> /\ Answer(h, BeginCall, "ok", 0)
    BY <2>1, <2>2 DEF BeginRest, EndBegin
  <2>4. /\ files'[h] = {"dir", "metadata", "bundle"}
        /\ \A p \in Run \ {h} : files'[p] = files[p] /\ bundle'[p] = bundle[p]
    BY <2>1, <2>2 DEF TypeOK
  <2>5. Fine(h)'
    <3>1. CASE h \in excused
      BY <2>1, <3>1 DEF Fine
    <3>2. CASE h \notin excused
      <4>1. Fine(h) /\ reply[h].is # "error"
        BY <3>2 DEF FInv, Fine, Served
      <4>2. reply'[h] = reply[h] \/ reply'[h] = [is |-> "ok", at |-> 0]
        BY <2>3 DEF Answer, TypeOK
      <4>3. reply'[h].is # "error"
        BY <4>1, <4>2
      <4>4. Whole(h)'
        BY <2>4 DEF Whole
      <4> QED BY <2>1, <2>2, <2>3, <4>1, <4>3, <4>4, HeadFine
    <3> QED BY <3>1, <3>2
  <2> QED BY <2>1, <2>2, <2>4, <2>5, EndedFine
<1> QED BY <1>1, <1>2, <1>3, <1>4, <1>5, <1>6 DEF Begin

LEMMA RestartFine ==
  ASSUME TypeOK, Inv, FInv, Restart
  PROVE  FInv'
<1>1. /\ excused' = excused \cup {r \in Run : client[r].phase \notin {"new"} \cup Ended}
      /\ reply' = [r \in Run |-> IF Waiting(r) THEN [is |-> "error", at |-> 0] ELSE NoReply]
      /\ begun' = Idle /\ step' = [r \in Run |-> "start"] /\ client' = client
  BY DEF Restart
<1>2. ASSUME NEW r \in Run PROVE Fine(r)'
  <2> SUFFICES ASSUME r \notin excused' PROVE Served(r)'
    BY DEF Fine
  <2>1. client[r].phase \in {"new"} \cup Ended /\ Served(r)
    BY <1>1 DEF FInv, Fine
  <2>2. client'[r].phase \in {"new", "ok"} /\ ~Waiting(r) /\ ~Waiting(r)'
    BY <1>1, <2>1 DEF Ended, Served, Waiting
  <2>3. reply'[r].is = "none" /\ step'[r] = "start"
    BY <1>1, <2>2 DEF NoReply
  <2> QED BY <2>2, <2>3 DEF Served
<1>3. begun'.at # "rmdir"
  BY <1>1 DEF Idle
<1> QED BY <1>2, <1>3 DEF FInv

LEMMA FineKept == TypeOK /\ Inv /\ FInv /\ [Next]_vars => FInv'
<1> SUFFICES ASSUME TypeOK, Inv, FInv, [Next]_vars PROVE FInv'
  OBVIOUS
<1>1. ASSUME NEW r \in Run, Handle(r) PROVE FInv'
  BY <1>1, HandleFine
<1>2. CASE UNCHANGED vars
  <2>1. UNCHANGED <<client, calls, reply, excused, live, queue, step, begun, files, bundle>>
    BY <1>2 DEF vars, serverVars
  <2>2. ASSUME NEW p \in Run PROVE Fine(p)'
    BY <2>1, FineStays DEF FInv, Sent
  <2> QED BY <2>1, <2>2 DEF FInv
<1> QED BY <1>1, <1>2, BeginFine, RestartFine, ScriptFine, ArriveFine, AgeFine DEF Next

LEMMA InitFine == Init => FInv
<1> SUFFICES ASSUME Init PROVE FInv
  OBVIOUS
<1>1. ASSUME NEW r \in Run PROVE Served(r)
  BY DEF Init, NoReply, Served, Waiting
<1>2. begun.at # "rmdir"
  BY DEF Init, Idle
<1> QED BY <1>1, <1>2 DEF FInv, Fine

\* The script gives up an upload only after a fault or a refusal: a chunk or a
\* finish that was applied, but whose answer was lost, is repeated to the same
\* result.
THEOREM FailedForAReason == Spec => []FailsForAReason
<1>1. FInv => FailsForAReason
  BY DEF FInv, Fine, Served, FailsForAReason
<1>2. Spec => []FInv
  BY InitFine, FineKept, Invariance, PTL DEF Spec
<1> QED BY <1>1, <1>2, PTL
=============================================================================
