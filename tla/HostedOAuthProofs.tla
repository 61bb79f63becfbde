------------------------- MODULE HostedOAuthProofs -------------------------
(***************************************************************************)
(* Theorems about HostedOAuth, for any replicas, requests, tokens and       *)
(* faults.                                                                  *)
(***************************************************************************)
EXTENDS HostedOAuth, FiniteSetTheorems, TLAPS

LEMMA NFacts == /\ 0 \in N /\ 1 \in N /\ N \subseteq Nat
                /\ MaxMinted \in Nat /\ MaxFaults \in Nat
                /\ \A n \in N : n < MaxMinted => n + 1 \in N
  BY OAuthAssumption DEF N

LEMMA Blank == NoRow \in Row /\ Idle \in TaskType /\ NoFlight \in FlightType
  <1>1. NoRow \in Row
    BY NFacts DEF NoRow, Row
  <1>2. Idle \in TaskType
    BY <1>1, NFacts DEF Idle, TaskType, Kinds, Places
  <1>3. NoFlight \in FlightType
    BY <1>1, NFacts DEF NoFlight, FlightType
  <1> QED
    BY <1>1, <1>2, <1>3

GrantType == grant \in [alive : BOOLEAN, refresh : N, row : Row] /\ (~grant.alive => grant = NoGrant)

LEMMA InitTyped == Init => TypeOK
  <1> SUFFICES ASSUME Init PROVE TypeOK
    OBVIOUS
  <1>1. task \in [Task -> TaskType] /\ flight \in [Replica -> FlightType]
    BY Blank DEF Init
  <1>2. provider \in [refresh : N, oldest : 1..(MaxMinted + 1), access : N,
                      allowed : BOOLEAN, rotates : BOOLEAN]
    BY NFacts DEF Init
  <1>3. objects \in [state : BOOLEAN, approval : BOOLEAN, code : SUBSET N,
                     result : [decision : Decision \cup {"none"}, code : N]]
    BY NFacts DEF Init, NoResult
  <1>4. GrantType
    BY NFacts, Blank DEF Init, GrantType, NoGrant
  <1> QED
    BY <1>1, <1>2, <1>3, <1>4, NFacts DEF Init, TypeOK, GrantType

-----------------------------------------------------------------------------
(* A task that moves on, and the tasks of a flight that ends.               *)

LEMMA GotoTyped ==
  ASSUME TypeOK, NEW t \in Task, NEW at \in Places, Goto(t, at)
  PROVE  task' \in [Task -> TaskType]
  BY DEF Goto, TypeOK, TaskType

LEMMA GotoNewTyped ==
  ASSUME TypeOK, NEW t \in Task, NEW at \in Places, minted' \in N, GotoNew(t, at)
  PROVE  task' \in [Task -> TaskType]
  <1>1. task[t] \in TaskType
    BY DEF TypeOK
  <1>2. [task[t] EXCEPT !.at = at, !.new = minted'] \in TaskType
    BY <1>1 DEF TaskType
  <1> QED
    BY <1>2 DEF GotoNew, TypeOK

LEMMA GotoRowTyped ==
  ASSUME TypeOK, NEW t \in Task, NEW at \in Places, GotoRow(t, at)
  PROVE  task' \in [Task -> TaskType]
  <1>1. task[t] \in TaskType /\ grant.row \in Row
    BY DEF TypeOK
  <1>2. [task[t] EXCEPT !.at = at, !.row = grant.row] \in TaskType
    BY <1>1 DEF TaskType
  <1> QED
    BY <1>2 DEF GotoRow, TypeOK

LEMMA DoneTyped ==
  ASSUME TypeOK, NEW t \in Task, Done(t)
  PROVE  task' \in [Task -> TaskType]
  BY Blank DEF Done, TypeOK

LEMMA MintTyped == ASSUME TypeOK, Mint PROVE minted' \in N
  BY NFacts DEF TypeOK, Mint

LEMMA FaultTyped == ASSUME TypeOK, Fault PROVE faults' \in 0..MaxFaults
  BY NFacts DEF TypeOK, Fault

LEMMA RefusedTyped ==
  ASSUME NEW t \in Task
  PROVE  Refused(t) \in Places \ {"take"} /\ Unavailable(t) \in Places \ {"take"}
  BY DEF Refused, Unavailable, Places

LEMMA LandTyped ==
  ASSUME TypeOK, NEW p \in Replica, NEW row \in Row, Land(p, row)
  PROVE  task' \in [Task -> TaskType] /\ flight' \in [Replica -> FlightType]
  <1>1. flight' \in [Replica -> FlightType]
    BY Blank DEF Land, TypeOK
  <1>2. ASSUME NEW t \in Task
        PROVE  [task[t] EXCEPT !.row = row, !.at = Landed(@)] \in TaskType
    <2>1. Landed(task[t].at) \in Places
      BY DEF Landed, Places
    <2>2. task[t] \in TaskType
      BY DEF TypeOK
    <2> QED
      BY <2>1, <2>2 DEF TaskType
  <1>3. task' \in [Task -> TaskType]
    BY <1>2 DEF Land, TypeOK
  <1> QED
    BY <1>1, <1>3

LEMMA FailsRefusedTyped ==
  ASSUME TypeOK, NEW p \in Replica, FlightFails(p, Refused)
  PROVE  task' \in [Task -> TaskType] /\ flight' \in [Replica -> FlightType]
  <1>1. flight' \in [Replica -> FlightType]
    BY Blank DEF FlightFails, TypeOK
  <1>2. ASSUME NEW t \in Task PROVE [task[t] EXCEPT !.at = Refused(t)] \in TaskType
    BY RefusedTyped DEF TypeOK, TaskType
  <1>3. task' \in [Task -> TaskType]
    BY <1>2 DEF FlightFails, TypeOK
  <1> QED
    BY <1>1, <1>3

LEMMA FailsUnavailableTyped ==
  ASSUME TypeOK, NEW p \in Replica, FlightFails(p, Unavailable)
  PROVE  task' \in [Task -> TaskType] /\ flight' \in [Replica -> FlightType]
  <1>1. flight' \in [Replica -> FlightType]
    BY Blank DEF FlightFails, TypeOK
  <1>2. ASSUME NEW t \in Task PROVE [task[t] EXCEPT !.at = Unavailable(t)] \in TaskType
    BY RefusedTyped DEF TypeOK, TaskType
  <1>3. task' \in [Task -> TaskType]
    BY <1>2 DEF FlightFails, TypeOK
  <1> QED
    BY <1>1, <1>3

-----------------------------------------------------------------------------
(* Every action keeps the types.                                            *)

LEMMA CallTyped ==
  ASSUME NEW kind \in Kinds, NEW p \in Replica, NEW tok \in N, NEW d \in Decision
  PROVE  Call(kind, p, tok, d) \in TaskType
  <1>1. FirstStep(kind) \in Places
    BY DEF FirstStep, Kinds, Places
  <1> QED
    BY <1>1, NFacts, Blank DEF Call, TaskType

LEMMA RequestTyped ==
  ASSUME TypeOK, NEW t \in Task, NEW p \in Replica, Request(t, p)
  PROVE  TypeOK'
  <1>1. PICK kind \in Kinds, tok \in 0..minted, d \in Decision :
          task' = [task EXCEPT ![t] = Call(kind, p, tok, d)]
    BY DEF Request
  <1>2. tok \in N
    BY NFacts DEF TypeOK, N
  <1>3. task' \in [Task -> TaskType]
    BY <1>1, <1>2, CallTyped DEF TypeOK
  <1> QED
    BY <1>3 DEF Request, TypeOK, Database, Rest, History

LEMMA ConsentTyped ==
  ASSUME TypeOK, NEW t \in Task,
         CallbackTake(t) \/ CallbackPut(t) \/ ApproveTake(t)
  PROVE  TypeOK'
  <1> USE DEF TypeOK, Rest, History
  <1>1. CASE CallbackTake(t)
    <2>1. task' \in [Task -> TaskType]
      BY <1>1, GotoTyped, DoneTyped DEF CallbackTake, Places
    <2> QED
      BY <1>1, <2>1 DEF CallbackTake
  <1>2. CASE CallbackPut(t)
    <2>1. task' \in [Task -> TaskType]
      BY <1>2, DoneTyped DEF CallbackPut
    <2> QED
      BY <1>2, <2>1 DEF CallbackPut
  <1>3. CASE ApproveTake(t)
    <2>1. task' \in [Task -> TaskType]
      BY <1>3, GotoTyped DEF ApproveTake, Places
    <2> QED
      BY <1>3, <2>1 DEF ApproveTake
  <1> QED
    BY <1>1, <1>2, <1>3

LEMMA CodeTyped ==
  ASSUME TypeOK, NEW t \in Task,
         ApproveAgain(t) \/ ApproveCode(t) \/ ApproveResult(t)
  PROVE  TypeOK'
  <1> USE DEF TypeOK, Rest, History, Database
  <1>1. CASE ApproveAgain(t)
    <2>1. task' \in [Task -> TaskType]
      BY <1>1, DoneTyped DEF ApproveAgain
    <2>2. redirects' \in SUBSET N
      BY <1>1, NFacts DEF ApproveAgain, Redirect
    <2> QED
      BY <1>1, <2>1, <2>2 DEF ApproveAgain
  <1>2. CASE ApproveCode(t)
    <2>1. minted' \in N
      BY <1>2, MintTyped DEF ApproveCode
    <2>2. task' \in [Task -> TaskType]
      BY <1>2, <2>1, GotoNewTyped DEF ApproveCode, Places
    <2> QED
      BY <1>2, <2>1, <2>2 DEF ApproveCode
  <1>3. CASE ApproveResult(t)
    <2>1. task' \in [Task -> TaskType]
      BY <1>3, DoneTyped DEF ApproveResult
    <2>2. redirects' \in SUBSET N
      BY <1>3, NFacts DEF ApproveResult, Redirect, TaskType
    <2>3. objects'.result \in [decision : Decision \cup {"none"}, code : N]
      BY <1>3 DEF ApproveResult, TaskType
    <2> QED
      BY <1>3, <2>1, <2>2, <2>3 DEF ApproveResult
  <1> QED
    BY <1>1, <1>2, <1>3

LEMMA TokenTyped ==
  ASSUME TypeOK, NEW t \in Task,
         ExchangeTake(t) \/ ExchangeInsert(t) \/ Issue(t)
  PROVE  TypeOK'
  <1> USE DEF TypeOK, Rest, History, Database
  <1>1. CASE ExchangeTake(t)
    <2>1. task' \in [Task -> TaskType]
      BY <1>1, GotoTyped, DoneTyped DEF ExchangeTake, Places
    <2> QED
      BY <1>1, <2>1 DEF ExchangeTake
  <1>2. CASE ExchangeInsert(t)
    <2>1. minted' \in N
      BY <1>2, MintTyped DEF ExchangeInsert
    <2>2. task' \in [Task -> TaskType]
      BY <1>2, <2>1, GotoNewTyped DEF ExchangeInsert, Places
    <2>3. GrantType'
      BY <1>2, <2>1, NFacts DEF ExchangeInsert, Row, GrantType
    <2>4. grants' \in Nat
      BY <1>2 DEF ExchangeInsert
    <2> QED
      BY <1>2, <2>1, <2>2, <2>3, <2>4 DEF ExchangeInsert, GrantType
  <1>3. CASE Issue(t)
    <2>1. task' \in [Task -> TaskType]
      BY <1>3, DoneTyped DEF Issue
    <2>2. task[t].new \in N
      BY <1>3 DEF TaskType
    <2> QED
      BY <1>3, <2>1, <2>2 DEF Issue
  <1> QED
    BY <1>1, <1>2, <1>3

LEMMA RefreshTyped ==
  ASSUME TypeOK, NEW t \in Task,
         Claim(t) \/ Rotate(t) \/ Restore(t)
  PROVE  TypeOK'
  <1> USE DEF TypeOK, Rest, History, Database
  <1>1. CASE Claim(t)
    <2>1. task' \in [Task -> TaskType]
      BY <1>1, DoneTyped, GotoRowTyped DEF Claim, Places
    <2>2. GrantType'
      BY <1>1, NFacts DEF Claim, NoGrant, GrantType
    <2> QED
      BY <1>1, <2>1, <2>2 DEF Claim, GrantType
  <1>2. CASE Rotate(t)
    <2>1. minted' \in N
      BY <1>2, MintTyped DEF Rotate
    <2>2. task' \in [Task -> TaskType]
      BY <1>2, <2>1, GotoNewTyped DEF Rotate, Places
    <2>3. GrantType'
      BY <1>2, <2>1 DEF Rotate, NoGrant, GrantType
    <2> QED
      BY <1>2, <2>1, <2>2, <2>3 DEF Rotate, GrantType
  <1>3. CASE Restore(t)
    <2>1. task' \in [Task -> TaskType]
      BY <1>3, DoneTyped DEF Restore
    <2>2. GrantType'
      BY <1>3 DEF Restore, TaskType, NoGrant, GrantType
    <2> QED
      BY <1>3, <2>1, <2>2 DEF Restore, GrantType
  <1> QED
    BY <1>1, <1>2, <1>3

LEMMA RevokeTyped ==
  ASSUME TypeOK, NEW t \in Task,
         CheckSelect(t) \/ RevokeSelect(t) \/ DeleteAccess(t) \/ DeleteGrant(t)
  PROVE  TypeOK'
  <1> USE DEF TypeOK, Rest, History, Database
  <1>1. CASE CheckSelect(t)
    <2>1. task' \in [Task -> TaskType]
      BY <1>1, DoneTyped, GotoRowTyped DEF CheckSelect, Places
    <2> QED
      BY <1>1, <2>1 DEF CheckSelect
  <1>2. CASE RevokeSelect(t)
    <2>1. task' \in [Task -> TaskType]
      BY <1>2, GotoTyped, DoneTyped DEF RevokeSelect, Places
    <2>2. causes' \in SUBSET Causes
      BY <1>2 DEF RevokeSelect, Causes
    <2> QED
      BY <1>2, <2>1, <2>2 DEF RevokeSelect
  <1>3. CASE DeleteAccess(t)
    <2>1. task' \in [Task -> TaskType]
      BY <1>3, GotoTyped DEF DeleteAccess, Places
    <2> QED
      BY <1>3, <2>1 DEF DeleteAccess
  <1>4. CASE DeleteGrant(t)
    <2>1. task' \in [Task -> TaskType]
      BY <1>4, DoneTyped DEF DeleteGrant
    <2>2. GrantType'
      BY <1>4, NFacts, Blank DEF DeleteGrant, GrantType, NoGrant
    <2> QED
      BY <1>4, <2>1, <2>2 DEF DeleteGrant, GrantType
  <1> QED
    BY <1>1, <1>2, <1>3, <1>4

LEMMA AwaitTyped ==
  ASSUME TypeOK, NEW t \in Task, NEW p \in Replica, NEW force \in BOOLEAN,
         Await(t, p, force)
  PROVE  task' \in [Task -> TaskType] /\ flight' \in [Replica -> FlightType]
  <1>1. task' \in [Task -> TaskType]
    <2>1. CASE force
      BY <2>1, GotoTyped DEF Await, Places
    <2>2. CASE ~force
      BY <2>2, GotoTyped DEF Await, Places
    <2> QED
      BY <2>1, <2>2
  <1>2. [at |-> "read", force |-> force, base |-> task[t].row.up, row |-> NoRow] \in FlightType
    BY Blank DEF TypeOK, TaskType, FlightType, Row
  <1>3. flight' \in [Replica -> FlightType]
    BY <1>2 DEF Await, TypeOK
  <1> QED
    BY <1>1, <1>3

\* A request is on a replica, and has no token before its first step.
Placed ==
  \A t \in Task :
    /\ task[t].at # "idle" => task[t].on \in Replica
    /\ task[t].at = "take" => task[t].new = 0

LEMMA UpstreamTyped ==
  ASSUME TypeOK, Placed, NEW t \in Task, Upstream(t) \/ Profile(t) \/ ProfileUnavailable(t)
  PROVE  TypeOK'
  <1>0. task[t].at # "idle" => task[t].on \in Replica
    BY DEF Placed
  <1> USE DEF TypeOK, Rest, History, Database
  <1>1. CASE Upstream(t)
    <2>1. task' \in [Task -> TaskType] /\ flight' \in [Replica -> FlightType]
      BY <1>0, <1>1, GotoTyped, AwaitTyped DEF Upstream, Places
    <2> QED
      BY <1>1, <2>1 DEF Upstream
  <1>2. CASE Profile(t)
    <2>1. task' \in [Task -> TaskType] /\ flight' \in [Replica -> FlightType]
      <3>1. CASE ~Accepted(task[t].row) /\ task[t].at = "profile"
        BY <1>0, <1>2, <3>1, AwaitTyped DEF Profile
      <3>2. CASE ~(~Accepted(task[t].row) /\ task[t].at = "profile")
        <4>1. UNCHANGED flight
          BY ONLY <1>2, <3>2 DEF Profile
        <4>2. Goto(t, Refused(t)) \/ Goto(t, "rotate") \/ Done(t)
          BY ONLY <1>2, <3>2 DEF Profile
        <4>3. Refused(t) \in Places /\ "rotate" \in Places
          BY ONLY RefusedTyped, t \in Task DEF Places
        <4>4. task' \in [Task -> TaskType]
          BY <4>2, <4>3, GotoTyped, DoneTyped
        <4> QED
          BY <4>1, <4>4
      <3> QED
        BY <3>1, <3>2
    <2> QED
      BY <1>2, <2>1 DEF Profile
  <1>3. CASE ProfileUnavailable(t)
    <2>1. task' \in [Task -> TaskType]
      BY <1>3, GotoTyped, RefusedTyped DEF ProfileUnavailable
    <2>2. faults' \in 0..MaxFaults
      BY <1>3, FaultTyped DEF ProfileUnavailable
    <2> QED
      BY <1>3, <2>1, <2>2 DEF ProfileUnavailable
  <1> QED
    BY <1>1, <1>2, <1>3

LEMMA FlightTyped ==
  ASSUME TypeOK, NEW p \in Replica, FlightRead(p) \/ FlightStore(p)
  PROVE  TypeOK'
  <1> USE DEF TypeOK, Rest, History, Database
  <1>1. CASE FlightRead(p)
    <2>1. grant.row \in Row
      OBVIOUS
    <2>2. CASE ~grant.alive
      BY <1>1, <2>2, FailsRefusedTyped DEF FlightRead
    <2>3. CASE grant.alive /\ Land(p, grant.row)
      BY <1>1, <2>1, <2>3, LandTyped DEF FlightRead
    <2>4. CASE UNCHANGED task /\ flight' = [flight EXCEPT ![p].at = "fetch", ![p].row = grant.row]
      <3>1. [flight[p] EXCEPT !.at = "fetch", !.row = grant.row] \in FlightType
        <4>1. flight[p] \in FlightType
          OBVIOUS
        <4> QED
          BY <2>1, <4>1 DEF FlightType
      <3>2. flight' = [flight EXCEPT ![p] = [flight[p] EXCEPT !.at = "fetch", !.row = grant.row]]
        BY <2>4
      <3>3. flight' \in [Replica -> FlightType]
        BY <3>1, <3>2
      <3> QED
        BY <1>1, <2>4, <3>3 DEF FlightRead
    <2> QED
      BY <1>1, <2>2, <2>3, <2>4 DEF FlightRead
  <1>2. CASE FlightStore(p)
    <2>1. flight[p].row \in Row
      BY DEF FlightType
    <2>2. task' \in [Task -> TaskType] /\ flight' \in [Replica -> FlightType]
      BY <1>2, <2>1, LandTyped DEF FlightStore
    <2>3. GrantType'
      BY <1>2, <2>1 DEF FlightStore, NoGrant, GrantType
    <2> QED
      BY <1>2, <2>2, <2>3 DEF FlightStore, GrantType
  <1> QED
    BY <1>1, <1>2

LEMMA FetchTyped ==
  ASSUME TypeOK, NEW p \in Replica, FlightFetch(p) \/ FlightUnavailable(p)
  PROVE  TypeOK'
  <1> DEFINE ProviderType == [refresh : N, oldest : 1..(MaxMinted + 1), access : N,
                              allowed : BOOLEAN, rotates : BOOLEAN]
  <1> USE DEF TypeOK, Rest, History, Database
  <1>1. CASE FlightFetch(p) /\ flight[p].row.upr = provider.refresh
    <2>1. provider.access + 1 \in N /\ provider.refresh + 1 \in N
      BY <1>1, NFacts DEF FlightFetch
    <2>2. provider.access + 1 \in 1..(MaxMinted + 1)
      BY <2>1, NFacts DEF N
    <2>3. provider' \in ProviderType
      <3>1. provider \in ProviderType
        OBVIOUS
      <3>2. \/ provider' = [provider EXCEPT !.access = @ + 1, !.oldest = provider.access + 1,
                                            !.refresh = @ + 1]
            \/ provider' = [provider EXCEPT !.access = @ + 1]
        BY ONLY <1>1 DEF FlightFetch
      <3> QED
        BY ONLY <2>1, <2>2, <3>1, <3>2
    <2>4. [up |-> provider'.access, upr |-> provider'.refresh, fresh |-> TRUE] \in Row
      BY <2>3 DEF Row
    <2>5. flight' \in [Replica -> FlightType]
      BY <1>1, <2>4 DEF FlightFetch, FlightType
    <2> QED
      BY <1>1, <2>3, <2>5 DEF FlightFetch
  <1>2. CASE FlightFetch(p) /\ flight[p].row.upr # provider.refresh
    BY <1>2, FailsRefusedTyped DEF FlightFetch
  <1>3. CASE FlightUnavailable(p)
    <2>1. task' \in [Task -> TaskType] /\ flight' \in [Replica -> FlightType]
      BY <1>3, FailsUnavailableTyped DEF FlightUnavailable
    <2>2. provider' \in ProviderType
      <3>1. provider \in ProviderType
        OBVIOUS
      <3>2. \/ provider' = provider
            \/ provider.refresh < MaxMinted /\ provider' = [provider EXCEPT !.refresh = @ + 1]
        BY ONLY <1>3 DEF FlightUnavailable
      <3> QED
        BY ONLY <3>1, <3>2, NFacts
    <2>4. causes' \in SUBSET Causes
      <3>1. causes' = causes \/ causes' = causes \cup {"answer lost"}
        BY ONLY <1>3 DEF FlightUnavailable
      <3> QED
        BY <3>1 DEF Causes
    <2>3. faults' \in 0..MaxFaults
      BY <1>3, FaultTyped DEF FlightUnavailable
    <2> QED
      BY <1>3, <2>1, <2>2, <2>3, <2>4 DEF FlightUnavailable
  <1> QED
    BY <1>1, <1>2, <1>3

LEMMA EnvironmentTyped ==
  ASSUME TypeOK, UpstreamExpires \/ EndedEarly \/ Suspend \/ Expire
  PROVE  TypeOK'
  <1> USE DEF TypeOK, Rest, History, Database
  <1>1. CASE UpstreamExpires
    <2>a. NoGrant.row.fresh = FALSE /\ grant.row.fresh
      BY <1>1 DEF UpstreamExpires, NoGrant, NoRow
    <2>1. grant.row \in Row /\ grant.alive
      BY <2>a
    <2>2. grant.row.up + 1 \in 1..(MaxMinted + 1)
      BY <2>1, NFacts DEF Row, N
    <2>3. [grant.row EXCEPT !.fresh = FALSE] \in Row
      BY <2>1 DEF Row
    <2>4. GrantType'
      BY <1>1, <2>1, <2>3 DEF UpstreamExpires, GrantType
    <2>5. CASE UNCHANGED provider
      BY <1>1, <2>4, <2>5 DEF UpstreamExpires, GrantType
    <2>6. CASE provider' = [provider EXCEPT !.oldest = grant.row.up + 1]
      BY <1>1, <2>2, <2>4, <2>6 DEF UpstreamExpires, GrantType
    <2> QED
      BY <1>1, <2>5, <2>6 DEF UpstreamExpires
  <1>2. CASE EndedEarly
    <2>1. provider.access + 1 \in 1..(MaxMinted + 1)
      BY NFacts DEF N
    <2>2. faults' \in 0..MaxFaults
      BY <1>2, FaultTyped DEF EndedEarly
    <2> QED
      BY <1>2, <2>1, <2>2 DEF EndedEarly, Causes
  <1>3. CASE Suspend
    <2>1. faults' \in 0..MaxFaults
      BY <1>3, FaultTyped DEF Suspend
    <2> QED
      BY <1>3, <2>1 DEF Suspend, Causes
  <1>4. CASE Expire
    <2>1. NoResult \in [decision : Decision \cup {"none"}, code : N]
      BY NFacts DEF NoResult
    <2>2. CASE objects' = [objects EXCEPT !.state = FALSE]
      BY <1>4, <2>2 DEF Expire
    <2>3. CASE objects' = [objects EXCEPT !.approval = FALSE]
      BY <1>4, <2>3 DEF Expire
    <2>4. CASE objects' = [objects EXCEPT !.code = {}]
      BY <1>4, <2>4 DEF Expire
    <2>5. CASE objects' = [objects EXCEPT !.result = NoResult]
      BY <1>4, <2>1, <2>5 DEF Expire
    <2> QED
      BY <1>4, <2>2, <2>3, <2>4, <2>5 DEF Expire
  <1> QED
    BY <1>1, <1>2, <1>3, <1>4

LEMMA RestartTyped ==
  ASSUME TypeOK, NEW p \in Replica, Restart(p)
  PROVE  TypeOK'
  <1> USE DEF TypeOK, Rest, History, Database
  <1>1. task' \in [Task -> TaskType]
    BY Blank DEF Restart
  <1>2. flight' \in [Replica -> FlightType]
    BY Blank DEF Restart
  <1>3. causes' \in SUBSET Causes
    BY DEF Restart, Causes
  <1>4. faults' \in 0..MaxFaults
    BY FaultTyped DEF Restart
  <1> QED
    BY <1>1, <1>2, <1>3, <1>4 DEF Restart

-----------------------------------------------------------------------------
(* A step moves one request, which keeps its kind and its replica until it  *)
(* is done.                                                                 *)

Moves(t) ==
  \E x \in TaskType :
    /\ task' = [task EXCEPT ![t] = x]
    /\ \/ x = Idle
       \/ task[t].at = "idle" /\ x.on \in Replica /\ x.new = 0
            /\ x.at \in {"take", "claim", "select"}
       \/ task[t].at # "idle" /\ x.on = task[t].on /\ x.kind = task[t].kind /\ x.at # "take"

LEMMA DoneMoves == ASSUME NEW t \in Task, Done(t) PROVE Moves(t)
  BY Blank DEF Done, Moves

LEMMA GotoMoves ==
  ASSUME TypeOK, NEW t \in Task, NEW at \in Places \ {"take"}, Goto(t, at), task[t].at # "idle"
  PROVE  Moves(t)
  <1> DEFINE x == [task[t] EXCEPT !.at = at]
  <1>1. task[t] \in TaskType
    BY DEF TypeOK
  <1>2. x \in TaskType /\ x.on = task[t].on /\ x.kind = task[t].kind /\ x.at # "take"
    BY <1>1 DEF TaskType
  <1>3. task' = [task EXCEPT ![t] = x]
    BY DEF Goto
  <1> QED
    BY <1>2, <1>3 DEF Moves

LEMMA GotoNewMoves ==
  ASSUME TypeOK, NEW t \in Task, NEW at \in Places \ {"take"}, GotoNew(t, at), Mint, task[t].at # "idle"
  PROVE  Moves(t)
  <1> DEFINE x == [task[t] EXCEPT !.at = at, !.new = minted']
  <1>1. task[t] \in TaskType /\ minted' \in N
    BY MintTyped DEF TypeOK
  <1>2. x \in TaskType /\ x.on = task[t].on /\ x.kind = task[t].kind /\ x.at # "take"
    BY <1>1 DEF TaskType
  <1>3. task' = [task EXCEPT ![t] = x]
    BY DEF GotoNew
  <1> QED
    BY <1>2, <1>3 DEF Moves

LEMMA GotoRowMoves ==
  ASSUME TypeOK, NEW t \in Task, NEW at \in Places \ {"take"}, GotoRow(t, at), task[t].at # "idle"
  PROVE  Moves(t)
  <1> DEFINE x == [task[t] EXCEPT !.at = at, !.row = grant.row]
  <1>1. task[t] \in TaskType /\ grant.row \in Row
    BY DEF TypeOK
  <1>2. x \in TaskType /\ x.on = task[t].on /\ x.kind = task[t].kind /\ x.at # "take"
    BY <1>1 DEF TaskType
  <1>3. task' = [task EXCEPT ![t] = x]
    BY DEF GotoRow
  <1> QED
    BY <1>2, <1>3 DEF Moves

LEMMA RequestMoves ==
  ASSUME TypeOK, NEW t \in Task, NEW p \in Replica, Request(t, p)
  PROVE  Moves(t)
  <1>1. PICK kind \in Kinds, tok \in 0..minted, d \in Decision :
          task[t].at = "idle" /\ task' = [task EXCEPT ![t] = Call(kind, p, tok, d)]
    BY DEF Request
  <1>2. tok \in N
    BY NFacts DEF TypeOK, N
  <1>3. FirstStep(kind) \in {"take", "claim", "select"}
    BY DEF FirstStep
  <1>4. /\ Call(kind, p, tok, d) \in TaskType /\ Call(kind, p, tok, d).on = p
        /\ Call(kind, p, tok, d).new = 0
        /\ Call(kind, p, tok, d).at \in {"take", "claim", "select"}
    BY <1>2, <1>3, CallTyped DEF Call
  <1> QED
    BY <1>1, <1>4 DEF Moves

LEMMA AwaitMoves ==
  ASSUME TypeOK, NEW t \in Task, NEW p, NEW force \in BOOLEAN,
         Await(t, p, force), task[t].at # "idle"
  PROVE  Moves(t)
  <1>1. CASE force
    BY <1>1, GotoMoves DEF Await, Places
  <1>2. CASE ~force
    BY <1>2, GotoMoves DEF Await, Places
  <1> QED
    BY <1>1, <1>2

LEMMA StepMoves == ASSUME TypeOK, NEW t \in Task, Step(t) PROVE Moves(t)
  <1> USE DEF At, Places
  <1>1. CASE \E p \in Replica : Request(t, p)
    BY <1>1, RequestMoves
  <1>2. CASE CallbackTake(t)
    BY <1>2, GotoMoves, DoneMoves DEF CallbackTake
  <1>3. CASE CallbackPut(t)
    BY <1>3, DoneMoves DEF CallbackPut
  <1>4. CASE ApproveTake(t)
    BY <1>4, GotoMoves DEF ApproveTake
  <1>5. CASE ApproveAgain(t)
    BY <1>5, DoneMoves DEF ApproveAgain
  <1>6. CASE ApproveCode(t)
    BY <1>6, GotoNewMoves DEF ApproveCode
  <1>7. CASE ApproveResult(t)
    BY <1>7, DoneMoves DEF ApproveResult
  <1>8. CASE ExchangeTake(t)
    BY <1>8, GotoMoves, DoneMoves DEF ExchangeTake
  <1>9. CASE ExchangeInsert(t)
    BY <1>9, GotoNewMoves DEF ExchangeInsert
  <1>10. CASE Issue(t)
    BY <1>10, DoneMoves DEF Issue
  <1>11. CASE Claim(t)
    BY <1>11, GotoRowMoves, DoneMoves DEF Claim
  <1>12. CASE Rotate(t)
    BY <1>12, GotoNewMoves DEF Rotate
  <1>13. CASE Restore(t)
    BY <1>13, DoneMoves DEF Restore
  <1>14. CASE CheckSelect(t)
    BY <1>14, GotoRowMoves, DoneMoves DEF CheckSelect
  <1>15. CASE RevokeSelect(t)
    BY <1>15, GotoMoves, DoneMoves DEF RevokeSelect
  <1>16. CASE DeleteAccess(t)
    BY <1>16, GotoMoves DEF DeleteAccess
  <1>17. CASE DeleteGrant(t)
    BY <1>17, DoneMoves DEF DeleteGrant
  <1>18. CASE Upstream(t)
    BY <1>18, GotoMoves, AwaitMoves DEF Upstream
  <1>19. CASE Profile(t)
    BY <1>19, GotoMoves, DoneMoves, AwaitMoves, RefusedTyped DEF Profile
  <1>20. CASE ProfileUnavailable(t)
    BY <1>20, GotoMoves, RefusedTyped DEF ProfileUnavailable
  <1> QED
    BY <1>1, <1>2, <1>3, <1>4, <1>5, <1>6, <1>7, <1>8, <1>9, <1>10, <1>11, <1>12,
       <1>13, <1>14, <1>15, <1>16, <1>17, <1>18, <1>19, <1>20 DEF Step

LEMMA StepTyped == ASSUME TypeOK, Placed, NEW t \in Task, Step(t) PROVE TypeOK'
  BY RequestTyped, ConsentTyped, CodeTyped, TokenTyped, RefreshTyped, RevokeTyped,
     UpstreamTyped DEF Step

LEMMA FlyTyped == ASSUME TypeOK, NEW p \in Replica, Fly(p) PROVE TypeOK'
  BY FlightTyped, FetchTyped, RestartTyped DEF Fly

\* What the end of a flight makes of the requests.
LEMMA FlyMoves ==
  ASSUME TypeOK, NEW p \in Replica, Fly(p), NEW u \in Task
  PROVE  \/ task'[u] = task[u]
         \/ task'[u] = Idle
         \/ /\ task[u].at \in {"await", "await forced"} /\ task[u].on = p
            /\ task'[u].on = p /\ task'[u].kind = task[u].kind
            /\ task'[u].at \in {"profile", "profile again", "delete access", "restore", "idle"}
  <1>1. task[u] \in TaskType
    BY DEF TypeOK
  <1>2. ASSUME NEW row \in Row, Land(p, row), u \in Waiters(p)
        PROVE  /\ task'[u].on = p /\ task'[u].kind = task[u].kind
               /\ task'[u].at \in {"profile", "profile again"}
    <2>1. task'[u] = [task[u] EXCEPT !.row = row, !.at = Landed(@)]
      BY <1>2 DEF Land
    <2>2. Landed(task[u].at) \in {"profile", "profile again"}
      BY DEF Landed
    <2> QED
      BY <1>1, <1>2, <2>1, <2>2 DEF TaskType, Waiters
  <1>3. ASSUME FlightFails(p, Refused), u \in Waiters(p)
        PROVE  task'[u].on = p /\ task'[u].kind = task[u].kind /\ task'[u].at = "delete access"
    BY <1>1, <1>3 DEF FlightFails, TaskType, Waiters, Refused
  <1>4. ASSUME FlightFails(p, Unavailable), u \in Waiters(p)
        PROVE  task'[u].on = p /\ task'[u].kind = task[u].kind /\ task'[u].at \in {"restore", "idle"}
    <2>1. task'[u] = [task[u] EXCEPT !.at = Unavailable(u)] /\ Unavailable(u) \in {"restore", "idle"}
      BY <1>4 DEF FlightFails, Unavailable
    <2> QED
      BY <1>1, <1>4, <2>1 DEF TaskType, Waiters
  <1>5. ASSUME \/ \E row \in Row : Land(p, row)
               \/ FlightFails(p, Refused) \/ FlightFails(p, Unavailable)
        PROVE  u \in Waiters(p) \/ task'[u] = task[u]
    BY <1>5 DEF Land, FlightFails
  <1>6. grant.row \in Row /\ flight[p].row \in Row
    BY DEF TypeOK, FlightType
  <1>7. CASE Restart(p)
    BY <1>7 DEF Restart
  <1>8. CASE UNCHANGED task
    BY <1>8
  <1>9. CASE \/ \E row \in Row : Land(p, row)
             \/ FlightFails(p, Refused) \/ FlightFails(p, Unavailable)
    BY <1>9, <1>2, <1>3, <1>4, <1>5 DEF Waiters
  <1>10. Restart(p) \/ UNCHANGED task \/ (\E row \in Row : Land(p, row))
           \/ FlightFails(p, Refused) \/ FlightFails(p, Unavailable)
    BY <1>6 DEF Fly, FlightRead, FlightFetch, FlightUnavailable, FlightStore
  <1> QED
    BY <1>7, <1>8, <1>9, <1>10

LEMMA NextTyped == TypeOK /\ Placed /\ [Next]_vars => TypeOK' /\ Placed'
  <1> SUFFICES ASSUME TypeOK, Placed, [Next]_vars PROVE TypeOK' /\ Placed'
    OBVIOUS
  <1>1. ASSUME NEW t \in Task, Step(t) PROVE TypeOK' /\ Placed'
    <2>1. Placed'
      BY <1>1, StepMoves DEF Moves, Placed, Idle, TypeOK
    <2> QED
      BY <1>1, <2>1, StepTyped
  <1>2. ASSUME NEW p \in Replica, Fly(p) PROVE TypeOK' /\ Placed'
    <2>1. Placed'
      <3> SUFFICES ASSUME NEW u \in Task, task'[u].at # "idle"
                   PROVE  /\ task'[u].on \in Replica
                          /\ task'[u].at = "take" => task'[u].new = 0
        BY DEF Placed
      <3>1. task'[u] # Idle
        BY DEF Idle
      <3> QED
        <4>1. CASE task'[u] = task[u]
          BY <4>1 DEF Placed
        <4>2. CASE task'[u] # task[u]
          BY <1>2, <3>1, <4>2, FlyMoves
        <4> QED
          BY <4>1, <4>2
    <2> QED
      BY <1>2, <2>1, FlyTyped
  <1>3. CASE UpstreamExpires \/ EndedEarly \/ Suspend \/ Expire
    <2>1. UNCHANGED task
      BY <1>3 DEF UpstreamExpires, EndedEarly, Suspend, Expire
    <2> QED
      BY <1>3, <2>1, EnvironmentTyped DEF Placed
  <1>4. CASE UNCHANGED vars
    BY <1>4 DEF vars, TypeOK, Placed
  <1> QED
    BY <1>1, <1>2, <1>3, <1>4 DEF Next

\* The state always has its types.
THEOREM Typing == Spec => []TypeOK
  <1>1. Init => TypeOK /\ Placed
    <2> SUFFICES ASSUME Init PROVE TypeOK /\ Placed
      OBVIOUS
    <2>1. \A t \in Task : task[t].at = "idle"
      BY DEF Init, Idle
    <2> QED
      BY <2>1, InitTyped DEF Placed
  <1> QED
    BY <1>1, NextTyped, PTL DEF Spec

-----------------------------------------------------------------------------
(* One consent, one code, one grant.  The right to make the grant is in one *)
(* place at a time: the stored state, a callback that took it, the stored   *)
(* approval, an approval under way, then the code, an exchange under way.   *)

\* A request that took the state or the approval.
Deciding(t) == (task[t].kind = "callback" /\ task[t].at = "put")
               \/ (task[t].kind = "approve" /\ task[t].at = "code")
\* One that has stored a code, and one that took it.
Telling(t) == task[t].kind = "approve" /\ task[t].at = "result"
Inserting(t) == task[t].kind = "exchange" /\ task[t].at = "insert"

\* A code that was minted, wherever it is.
Known(c) == \/ c \in objects.code \/ c \in redirects
            \/ c # 0 /\ c = objects.result.code
            \/ \E t \in Task : Telling(t) /\ c # 0 /\ c = task[t].new

Undecided == objects.state \/ objects.approval \/ \E t \in Task : Deciding(t)

NoCode == (\A c \in N : ~Known(c)) /\ grants = 0 /\ \A t \in Task : ~Inserting(t)

Consent ==
  /\ \A t, u \in Task : Deciding(t) /\ Deciding(u) => t = u
  /\ objects.state => ~objects.approval /\ \A t \in Task : ~Deciding(t)
  /\ objects.approval => \A t \in Task : ~Deciding(t)
  /\ Undecided => NoCode

OneCode ==
  /\ \A c, d \in N : Known(c) /\ Known(d) => c = d
  /\ 0 \notin objects.code /\ 0 \notin redirects
  /\ objects.code # {} => grants = 0 /\ \A t \in Task : ~Inserting(t)
  /\ \A t, u \in Task : Inserting(t) /\ Inserting(u) => t = u
  /\ \A t \in Task : Inserting(t) => grants = 0
  /\ grants <= 1

GInv == Consent /\ OneCode

\* Steps that take no part in the consent.
Less == /\ \A u \in Task : Deciding(u)' => Deciding(u)
        /\ \A u \in Task : Inserting(u)' => Inserting(u)
        /\ \A c \in N : Known(c)' => Known(c)
        /\ objects'.state => objects.state
        /\ objects'.approval => objects.approval
        /\ objects'.code \subseteq objects.code
        /\ 0 \notin redirects' /\ UNCHANGED grants

LEMMA LessKept == ASSUME TypeOK, GInv, Less PROVE GInv'
  <1>1. \A u \in Task : (Deciding(u)' => Deciding(u)) /\ (Inserting(u)' => Inserting(u))
    BY DEF Less
  <1>2. Undecided' => Undecided
    BY DEF Less, Undecided
  <1>3. NoCode => NoCode'
    BY DEF Less, NoCode
  <1>4. Consent'
    <2>1. (\A t, u \in Task : Deciding(t) /\ Deciding(u) => t = u)'
      BY <1>1 DEF GInv, Consent
    <2>2. (objects.state => ~objects.approval /\ \A t \in Task : ~Deciding(t))'
      BY <1>1 DEF GInv, Consent, Less
    <2>3. (objects.approval => \A t \in Task : ~Deciding(t))'
      BY <1>1 DEF GInv, Consent, Less
    <2>4. (Undecided => NoCode)'
      BY <1>2, <1>3 DEF GInv, Consent
    <2> QED
      BY <2>1, <2>2, <2>3, <2>4 DEF Consent
  <1>5. OneCode'
    BY <1>1 DEF GInv, OneCode, Less
  <1> QED
    BY <1>4, <1>5 DEF GInv

\* A request that goes to a place that has no part in the consent.
LEMMA Aside ==
  ASSUME TypeOK, NEW t \in Task, Moves(t),
         task'[t].at \notin {"put", "code", "result", "insert"}
  PROVE  \A u \in Task : /\ Deciding(u)' => Deciding(u)
                         /\ Inserting(u)' => Inserting(u)
                         /\ Telling(u)' => Telling(u) /\ task'[u].new = task[u].new
  <1> SUFFICES ASSUME NEW u \in Task
               PROVE  /\ Deciding(u)' => Deciding(u)
                      /\ Inserting(u)' => Inserting(u)
                      /\ Telling(u)' => Telling(u) /\ task'[u].new = task[u].new
    OBVIOUS
  <1>1. CASE u = t
    BY <1>1 DEF Deciding, Inserting, Telling
  <1>2. CASE u # t
    <2>1. task'[u] = task[u]
      BY <1>2 DEF Moves, TypeOK
    <2> QED
      BY <2>1 DEF Deciding, Inserting, Telling
  <1> QED
    BY <1>1, <1>2

LEMMA AsideLess ==
  ASSUME TypeOK, GInv, NEW t \in Task, Moves(t),
         task'[t].at \notin {"put", "code", "result", "insert"},
         UNCHANGED <<objects, redirects, grants>>
  PROVE  GInv'
  <1>1. \A c \in N : Known(c)' => Known(c)
    BY Aside DEF Known
  <1>2. 0 \notin redirects'
    BY DEF GInv, OneCode
  <1> QED
    BY <1>1, <1>2, Aside, LessKept DEF Less

LEMMA TakeStateKept ==
  ASSUME TypeOK, Placed, GInv, NEW t \in Task, CallbackTake(t)
  PROVE  GInv'
  <1> USE DEF At
  <1>1. CASE ~objects.state
    <2>1. task'[t].at = "idle" /\ Moves(t)
      BY <1>1, DoneMoves DEF CallbackTake, Done, TypeOK, Idle
    <2>2. UNCHANGED objects
      BY <1>1 DEF CallbackTake, TypeOK
    <2> QED
      BY <2>1, <2>2, AsideLess DEF CallbackTake, Rest, History
  <1>2. CASE objects.state
    <2>1. task' = [task EXCEPT ![t].at = "put"] /\ objects' = [objects EXCEPT !.state = FALSE]
      BY <1>2 DEF CallbackTake, Goto
    <2>2. \A u \in Task \ {t} : task'[u] = task[u]
      BY <2>1 DEF TypeOK
    <2>3. task'[t].at = "put" /\ task'[t].kind = "callback"
      BY <2>1 DEF TypeOK, CallbackTake, TaskType
    <2>4. NoCode /\ ~objects.approval /\ \A u \in Task : ~Deciding(u)
      BY <1>2 DEF GInv, Consent, Undecided
    <2>5. \A u \in Task : /\ Deciding(u)' => u = t
                          /\ Inserting(u)' => Inserting(u)
                          /\ Telling(u)' => Telling(u) /\ task'[u].new = task[u].new
      BY <2>2, <2>3, <2>4 DEF Deciding, Inserting, Telling
    <2>6. /\ ~objects'.state /\ ~objects'.approval /\ objects'.code = objects.code
          /\ objects'.result = objects.result /\ UNCHANGED <<redirects, grants>>
      BY <2>1, <2>4 DEF TypeOK, CallbackTake, Rest, History
    <2>7. \A c \in N : Known(c)' => Known(c)
      BY <2>5, <2>6 DEF Known
    <2>8. NoCode'
      BY <2>4, <2>5, <2>6, <2>7 DEF NoCode
    <2>9. Consent'
      BY <2>5, <2>6, <2>8 DEF Consent
    <2>10. OneCode'
      BY <2>5, <2>6, <2>7 DEF GInv, OneCode
    <2> QED
      BY <2>9, <2>10 DEF GInv
  <1> QED
    BY <1>1, <1>2

LEMMA PutKept ==
  ASSUME TypeOK, Placed, GInv, NEW t \in Task, CallbackPut(t)
  PROVE  GInv'
  <1> USE DEF At
  <1>1. Deciding(t)
    BY DEF CallbackPut, Deciding
  <1>2. NoCode /\ ~objects.state /\ \A u \in Task : Deciding(u) => u = t
    BY <1>1 DEF GInv, Consent, Undecided
  <1>3. Moves(t) /\ task'[t].at = "idle"
    BY DoneMoves DEF CallbackPut, Done, TypeOK, Idle
  <1>4. \A u \in Task : /\ ~Deciding(u)'
                        /\ Inserting(u)' => Inserting(u)
                        /\ Telling(u)' => Telling(u) /\ task'[u].new = task[u].new
    BY <1>2, <1>3, Aside DEF Deciding
  <1>5. /\ objects'.state = objects.state /\ objects'.code = objects.code
        /\ objects'.result = objects.result /\ UNCHANGED <<redirects, grants>>
    BY DEF CallbackPut, TypeOK, Rest, History
  <1>6. \A c \in N : Known(c)' => Known(c)
    BY <1>4, <1>5 DEF Known
  <1>7. NoCode'
    BY <1>2, <1>4, <1>5, <1>6 DEF NoCode
  <1>8. Consent'
    BY <1>2, <1>4, <1>5, <1>7 DEF Consent
  <1>9. OneCode'
    BY <1>4, <1>5, <1>6 DEF GInv, OneCode
  <1> QED
    BY <1>8, <1>9 DEF GInv

LEMMA TakeApprovalKept ==
  ASSUME TypeOK, Placed, GInv, NEW t \in Task, ApproveTake(t)
  PROVE  GInv'
  <1> USE DEF At
  <1>1. NoCode /\ ~objects.state /\ \A u \in Task : ~Deciding(u)
    BY DEF GInv, Consent, Undecided, ApproveTake
  <1>2. task'[t].kind = "approve" /\ task'[t].new = 0 /\ task'[t].at \in {"code", "result"}
    BY DEF ApproveTake, Goto, TypeOK, TaskType, Placed
  <1>3. \A u \in Task \ {t} : task'[u] = task[u]
    BY DEF ApproveTake, Goto, TypeOK
  <1>4. \A u \in Task : /\ Deciding(u)' => u = t
                        /\ Inserting(u)' => Inserting(u)
                        /\ Telling(u)' => (Telling(u) \/ task'[u].new = 0)
                        /\ task'[u].new = task[u].new
    BY <1>1, <1>2, <1>3 DEF Deciding, Inserting, Telling, ApproveTake, Placed
  <1>5. /\ ~objects'.state /\ ~objects'.approval /\ objects'.code = objects.code
        /\ objects'.result = objects.result /\ UNCHANGED <<redirects, grants>>
    BY <1>1 DEF ApproveTake, TypeOK, Rest, History
  <1>6. \A c \in N : Known(c)' => Known(c)
    BY <1>4, <1>5 DEF Known
  <1>7. NoCode'
    BY <1>1, <1>4, <1>5, <1>6 DEF NoCode
  <1>8. Consent'
    BY <1>4, <1>5, <1>7 DEF Consent
  <1>9. OneCode'
    BY <1>4, <1>5, <1>6 DEF GInv, OneCode
  <1> QED
    BY <1>8, <1>9 DEF GInv

LEMMA AgainKept ==
  ASSUME TypeOK, Placed, GInv, NEW t \in Task, ApproveAgain(t)
  PROVE  GInv'
  <1>1. Moves(t) /\ task'[t].at = "idle"
    BY DoneMoves DEF ApproveAgain, Done, TypeOK, Idle
  <1>2. UNCHANGED objects /\ UNCHANGED grants
    BY DEF ApproveAgain, Database
  <1>3. \A c \in redirects' : c \in redirects \/ (c # 0 /\ c = objects.result.code)
    BY DEF ApproveAgain, Redirect
  <1>4. \A c \in N : Known(c)' => Known(c)
    BY <1>1, <1>2, <1>3, Aside DEF Known
  <1>5. 0 \notin redirects'
    BY <1>3 DEF GInv, OneCode
  <1> QED
    BY <1>1, <1>2, <1>4, <1>5, Aside, LessKept DEF Less

LEMMA CodeKept ==
  ASSUME TypeOK, Placed, GInv, NEW t \in Task, ApproveCode(t)
  PROVE  GInv'
  <1> USE DEF At
  <1>1. Deciding(t)
    BY DEF ApproveCode, Deciding
  <1>2. /\ NoCode /\ ~objects.state /\ ~objects.approval
        /\ \A u \in Task : Deciding(u) => u = t
    BY <1>1 DEF GInv, Consent, Undecided
  <1>3. minted' \in N /\ minted' # 0
    BY MintTyped DEF ApproveCode, Mint, TypeOK, N
  <1>4. task[t] \in TaskType /\ task' = [task EXCEPT ![t] = [task[t] EXCEPT !.at = "result", !.new = minted']]
    BY DEF TypeOK, ApproveCode, GotoNew
  <1>5. task'[t].kind = "approve" /\ task'[t].at = "result" /\ task'[t].new = minted'
    BY <1>4 DEF TypeOK, TaskType, ApproveCode
  <1>6. \A u \in Task \ {t} : task'[u] = task[u]
    BY <1>4 DEF TypeOK
  <1>7. \A u \in Task : /\ ~Deciding(u)' /\ ~Inserting(u)'
                        /\ Telling(u)' => (u = t \/ (Telling(u) /\ task'[u].new = task[u].new))
    BY <1>2, <1>5, <1>6 DEF Deciding, Inserting, Telling, NoCode
  <1>8. /\ ~objects'.state /\ ~objects'.approval /\ objects'.code = objects.code \cup {minted'}
        /\ objects'.result = objects.result /\ UNCHANGED <<redirects, grants>>
    BY <1>2 DEF ApproveCode, TypeOK, Rest, History
  <1>9. \A c \in N : Known(c)' => c = minted'
    BY <1>2, <1>5, <1>7, <1>8 DEF Known, NoCode
  <1>10. Consent'
    BY <1>7, <1>8 DEF Consent, Undecided
  <1>11. 0 \notin objects'.code /\ 0 \notin redirects' /\ grants' = 0
    BY <1>2, <1>3, <1>8 DEF GInv, OneCode, NoCode
  <1>12. OneCode'
    BY <1>7, <1>9, <1>11 DEF OneCode
  <1> QED
    BY <1>10, <1>12 DEF GInv

LEMMA ResultKept ==
  ASSUME TypeOK, Placed, GInv, NEW t \in Task, ApproveResult(t)
  PROVE  GInv'
  <1> USE DEF At
  <1>1. Moves(t) /\ task'[t].at = "idle"
    BY DoneMoves DEF ApproveResult, Done, TypeOK, Idle
  <1>2. /\ objects'.state = objects.state /\ objects'.approval = objects.approval
        /\ objects'.code = objects.code /\ objects'.result.code = task[t].new /\ UNCHANGED grants
    BY DEF ApproveResult, TypeOK
  <1>3. \A c \in redirects' : c \in redirects \/ (c # 0 /\ c = task[t].new)
    BY DEF ApproveResult, Redirect
  <1>4. Telling(t)
    BY DEF ApproveResult, Telling
  <1>5. \A c \in N : Known(c)' => Known(c)
    BY <1>1, <1>2, <1>3, <1>4, Aside DEF Known
  <1>6. 0 \notin redirects'
    BY <1>3 DEF GInv, OneCode
  <1> QED
    BY <1>1, <1>2, <1>5, <1>6, Aside, LessKept DEF Less

LEMMA TakeCodeKept ==
  ASSUME TypeOK, Placed, GInv, NEW t \in Task, ExchangeTake(t)
  PROVE  GInv'
  <1> USE DEF At
  <1>1. /\ objects'.state = objects.state /\ objects'.approval = objects.approval
        /\ objects'.code = objects.code \ {task[t].tok} /\ objects'.result = objects.result
        /\ UNCHANGED <<redirects, grants>>
    BY DEF ExchangeTake, TypeOK, Rest, History
  <1>2. CASE task[t].tok \notin objects.code
    <2>1. Moves(t) /\ task'[t].at = "idle"
      BY <1>2, DoneMoves DEF ExchangeTake, Done, TypeOK, Idle
    <2>2. \A c \in N : Known(c)' => Known(c)
      BY <1>1, <2>1, Aside DEF Known
    <2>3. 0 \notin redirects'
      BY <1>1 DEF GInv, OneCode
    <2> QED
      BY <1>1, <2>1, <2>2, <2>3, Aside, LessKept DEF Less
  <1>3. CASE task[t].tok \in objects.code
    <2>1. task' = [task EXCEPT ![t].at = "insert"]
      BY <1>3 DEF ExchangeTake, Goto
    <2>2. \A u \in Task \ {t} : task'[u] = task[u]
      BY <2>1 DEF TypeOK
    <2>3. task'[t].at = "insert" /\ task'[t].kind = "exchange"
      BY <2>1 DEF TypeOK, ExchangeTake, TaskType
    <2>4. task[t].tok \in N /\ Known(task[t].tok)
      BY <1>3 DEF TypeOK, Known
    <2>5. grants = 0 /\ ~Undecided /\ \A u \in Task : ~Inserting(u)
      BY <1>3, <2>4 DEF GInv, Consent, OneCode, NoCode
    <2>6. \A u \in Task : /\ Deciding(u)' => Deciding(u)
                          /\ Inserting(u)' => u = t
                          /\ Telling(u)' => Telling(u) /\ task'[u].new = task[u].new
      BY <2>2, <2>3, <2>5 DEF Deciding, Inserting, Telling
    <2>7. \A c \in N : Known(c)' => Known(c)
      BY <1>1, <2>6 DEF Known
    <2>8. objects'.code = {}
      <3>1. \A c \in objects.code : c \in N /\ Known(c)
        BY DEF TypeOK, Known
      <3>2. \A c \in objects.code : c = task[t].tok
        BY <2>4, <3>1 DEF GInv, OneCode
      <3> QED
        BY <1>1, <3>2
    <2>9. ~Undecided'
      BY <1>1, <2>5, <2>6 DEF Undecided
    <2>10. Consent'
      BY <2>9 DEF Consent, Undecided
    <2>11. OneCode'
      BY <1>1, <2>5, <2>6, <2>7, <2>8 DEF GInv, OneCode
    <2> QED
      BY <2>10, <2>11 DEF GInv
  <1> QED
    BY <1>2, <1>3

LEMMA InsertKept ==
  ASSUME TypeOK, Placed, GInv, NEW t \in Task, ExchangeInsert(t)
  PROVE  GInv'
  <1> USE DEF At
  <1>1. Inserting(t)
    BY DEF ExchangeInsert, Inserting
  <1>2. /\ grants = 0 /\ objects.code = {} /\ ~Undecided
        /\ \A u \in Task : Inserting(u) => u = t
    BY <1>1 DEF GInv, Consent, OneCode, NoCode
  <1>3. task[t] \in TaskType /\ task' = [task EXCEPT ![t] = [task[t] EXCEPT !.at = "issue", !.new = minted']]
    BY DEF TypeOK, ExchangeInsert, GotoNew
  <1>4. task'[t].kind = "exchange" /\ task'[t].at = "issue"
    BY <1>3 DEF TypeOK, TaskType, ExchangeInsert
  <1>5. \A u \in Task \ {t} : task'[u] = task[u]
    BY <1>3 DEF TypeOK
  <1>6. \A u \in Task : /\ Deciding(u)' => Deciding(u)
                        /\ ~Inserting(u)'
                        /\ Telling(u)' => Telling(u) /\ task'[u].new = task[u].new
    BY <1>2, <1>4, <1>5 DEF Deciding, Inserting, Telling
  <1>7. UNCHANGED objects /\ UNCHANGED redirects /\ grants' = 1
    BY <1>2 DEF ExchangeInsert
  <1>8. \A c \in N : Known(c)' => Known(c)
    BY <1>6, <1>7 DEF Known
  <1>9. ~Undecided'
    BY <1>2, <1>6, <1>7 DEF Undecided
  <1>10. Consent'
    BY <1>9 DEF Consent, Undecided
  <1>11. OneCode'
    BY <1>2, <1>6, <1>7, <1>8 DEF GInv, OneCode
  <1> QED
    BY <1>10, <1>11 DEF GInv

\* The requests of a client that has its tokens.
LEMMA LaterKept ==
  ASSUME TypeOK, Placed, GInv, NEW t \in Task,
         \/ Issue(t) \/ Claim(t) \/ Rotate(t) \/ Restore(t) \/ CheckSelect(t)
         \/ RevokeSelect(t) \/ DeleteAccess(t) \/ DeleteGrant(t)
         \/ Upstream(t) \/ Profile(t) \/ ProfileUnavailable(t)
  PROVE  GInv'
  <1>1. Moves(t)
    BY StepMoves DEF Step
  <1>2. UNCHANGED <<objects, redirects, grants>>
    BY DEF Issue, Claim, Rotate, Restore, CheckSelect, RevokeSelect, DeleteAccess, DeleteGrant,
           Upstream, Profile, ProfileUnavailable, Database, Rest, History
  <1> DEFINE Out == task'[t].at \notin {"put", "code", "result", "insert"}
  <1>3. ASSUME Done(t) PROVE Out
    BY <1>3 DEF Done, TypeOK, Idle
  <1>4. ASSUME NEW at \in Places \ {"put", "code", "result", "insert"},
               Goto(t, at) \/ GotoNew(t, at) \/ GotoRow(t, at)
        PROVE  Out
    <2>1. task'[t].at = at
      <3>1. task[t] \in TaskType
        BY DEF TypeOK
      <3>2. CASE Goto(t, at)
        BY <3>1, <3>2 DEF Goto, TypeOK, TaskType
      <3>3. CASE GotoNew(t, at)
        BY <3>1, <3>3 DEF GotoNew, TypeOK, TaskType
      <3>4. CASE GotoRow(t, at)
        BY <3>1, <3>4 DEF GotoRow, TypeOK, TaskType
      <3> QED
        BY <1>4, <3>2, <3>3, <3>4
    <2> QED
      BY <2>1
  <1>5. ASSUME NEW p, NEW force, Await(t, p, force) PROVE Out
    BY <1>4, <1>5 DEF Await, Places
  <1>6. Refused(t) \in Places \ {"put", "code", "result", "insert"}
    BY DEF Refused, Places
  <1>7. Unavailable(t) \in Places \ {"put", "code", "result", "insert"}
    BY DEF Unavailable, Places
  <1> HIDE DEF Out
  <1>8. Out
    <2> USE DEF Places
    <2>1. CASE Issue(t) \/ Restore(t) \/ DeleteGrant(t)
      BY <1>3, <2>1 DEF Issue, Restore, DeleteGrant
    <2>2. CASE Claim(t) \/ CheckSelect(t)
      BY <1>3, <1>4, <2>2 DEF Claim, CheckSelect
    <2>3. CASE Rotate(t) \/ RevokeSelect(t) \/ DeleteAccess(t)
      BY <1>3, <1>4, <2>3 DEF Rotate, RevokeSelect, DeleteAccess
    <2>4. CASE Upstream(t)
      BY <1>4, <1>5, <2>4 DEF Upstream
    <2>5. CASE Profile(t)
      BY <1>3, <1>4, <1>5, <1>6, <2>5 DEF Profile
    <2>6. CASE ProfileUnavailable(t)
      BY <1>4, <1>7, <2>6 DEF ProfileUnavailable
    <2> QED
      BY <2>1, <2>2, <2>3, <2>4, <2>5, <2>6
  <1> QED
    BY <1>1, <1>2, <1>8, AsideLess DEF Out

LEMMA NextKept == TypeOK /\ Placed /\ GInv /\ [Next]_vars => GInv'
  <1> SUFFICES ASSUME TypeOK, Placed, GInv, [Next]_vars PROVE GInv'
    OBVIOUS
  <1>1. ASSUME NEW t \in Task, NEW p \in Replica, Request(t, p) PROVE GInv'
    <2>1. PICK kind \in Kinds, tok \in 0..minted, d \in Decision :
            task' = [task EXCEPT ![t] = Call(kind, p, tok, d)]
      BY <1>1 DEF Request
    <2>2. FirstStep(kind) \in {"take", "claim", "select"}
      BY DEF FirstStep
    <2>3. task'[t].at \in {"take", "claim", "select"}
      BY <2>1, <2>2 DEF TypeOK, Call
    <2>4. UNCHANGED <<objects, redirects, grants>>
      BY <1>1 DEF Request, Database, Rest, History
    <2> QED
      BY <1>1, <2>3, <2>4, RequestMoves, AsideLess
  <1>2. ASSUME NEW t \in Task, Step(t) PROVE GInv'
    BY <1>1, <1>2, TakeStateKept, PutKept, TakeApprovalKept, AgainKept, CodeKept, ResultKept,
       TakeCodeKept, InsertKept, LaterKept DEF Step
  <1>3. ASSUME NEW p \in Replica, Fly(p) PROVE GInv'
    <2>1. \A u \in Task : /\ Deciding(u)' => Deciding(u)
                          /\ Inserting(u)' => Inserting(u)
                          /\ Telling(u)' => Telling(u) /\ task'[u].new = task[u].new
      <3> SUFFICES ASSUME NEW u \in Task
                   PROVE  /\ Deciding(u)' => Deciding(u)
                          /\ Inserting(u)' => Inserting(u)
                          /\ Telling(u)' => Telling(u) /\ task'[u].new = task[u].new
        OBVIOUS
      <3>1. CASE task'[u] = task[u]
        BY <3>1 DEF Deciding, Inserting, Telling
      <3>2. CASE task'[u] # task[u]
        <4>1. task'[u].at \notin {"put", "code", "result", "insert"}
          <5>1. CASE task'[u] = Idle
            BY <5>1 DEF Idle
          <5>2. CASE task'[u] # Idle
            BY <1>3, <3>2, <5>2, FlyMoves
          <5> QED
            BY <5>1, <5>2
        <4> QED
          BY <4>1 DEF Deciding, Inserting, Telling
      <3> QED
        BY <3>1, <3>2
    <2>2. UNCHANGED <<objects, redirects, grants>>
      BY <1>3 DEF Fly, FlightRead, FlightFetch, FlightUnavailable, FlightStore, Restart, Database, History
    <2>3. \A c \in N : Known(c)' => Known(c)
      BY <2>1, <2>2 DEF Known
    <2>4. 0 \notin redirects'
      BY <2>2 DEF GInv, OneCode
    <2> QED
      BY <2>1, <2>2, <2>3, <2>4, LessKept DEF Less
  <1>4. CASE UpstreamExpires \/ EndedEarly \/ Suspend \/ Expire \/ UNCHANGED vars
    <2>1. UNCHANGED <<task, redirects, grants>>
      BY <1>4 DEF UpstreamExpires, EndedEarly, Suspend, Expire, Rest, History, vars
    <2>2. \A u \in Task : /\ Deciding(u)' => Deciding(u)
                          /\ Inserting(u)' => Inserting(u)
                          /\ Telling(u)' => Telling(u) /\ task'[u].new = task[u].new
      BY <2>1 DEF Deciding, Inserting, Telling
    <2>3. /\ objects'.state => objects.state
          /\ objects'.approval => objects.approval
          /\ objects'.code \subseteq objects.code
          /\ objects'.result.code \in {0, objects.result.code}
      <3>1. CASE UNCHANGED objects
        BY <3>1
      <3>2. CASE Expire
        BY <3>2 DEF Expire, TypeOK, NoResult
      <3> QED
        BY <1>4, <3>1, <3>2 DEF UpstreamExpires, EndedEarly, Suspend, Database, vars
    <2>4. \A c \in N : Known(c)' => Known(c)
      BY <2>1, <2>2, <2>3 DEF Known
    <2>5. 0 \notin redirects'
      BY <2>1 DEF GInv, OneCode
    <2> QED
      BY <2>1, <2>2, <2>3, <2>4, <2>5, LessKept DEF Less
  <1> QED
    BY <1>2, <1>3, <1>4 DEF Next

LEMMA InitKept == Init => GInv
  <1> SUFFICES ASSUME Init PROVE GInv
    OBVIOUS
  <1>1. \A t \in Task : ~Deciding(t) /\ ~Telling(t) /\ ~Inserting(t)
    BY DEF Init, Idle, Deciding, Telling, Inserting
  <1>2. \A c \in N : ~Known(c)
    BY <1>1 DEF Init, Known, NoResult
  <1>3. Consent
    BY <1>1, <1>2 DEF Init, Consent, NoCode
  <1>4. OneCode
    BY <1>1, <1>2 DEF Init, OneCode
  <1> QED
    BY <1>3, <1>4 DEF GInv

LEMMA GInvHolds == Spec => [](TypeOK /\ Placed /\ GInv)
  <1>1. Init => TypeOK /\ Placed /\ GInv
    <2> SUFFICES ASSUME Init PROVE TypeOK /\ Placed /\ GInv
      OBVIOUS
    <2>1. \A t \in Task : task[t].at = "idle"
      BY DEF Init, Idle
    <2> QED
      BY <2>1, InitTyped, InitKept DEF Placed
  <1> QED
    BY <1>1, NextTyped, NextKept, PTL DEF Spec

\* One consent makes at most one code and one grant.
THEOREM ConsentOnce == Spec => []OneGrant
  <1>1. TypeOK /\ GInv => OneGrant
    <2> SUFFICES ASSUME TypeOK, GInv PROVE OneGrant
      OBVIOUS
    <2>1. \A c, d \in redirects : c = d
      BY DEF GInv, OneCode, TypeOK, Known
    <2>2. CASE redirects = {}
      BY <2>2, FS_EmptySet DEF GInv, OneCode, OneGrant
    <2>3. CASE redirects # {}
      <3>1. PICK c : redirects = {c}
        BY <2>1, <2>3
      <3>2. Cardinality(redirects) = 1
        BY <3>1, FS_Singleton
      <3> QED
        BY <3>2 DEF GInv, OneCode, OneGrant
    <2> QED
      BY <2>2, <2>3
  <1> QED
    BY <1>1, GInvHolds, PTL

-----------------------------------------------------------------------------
(* What the database holds for a provider that rotates its refresh tokens:  *)
(* there is one replica, so there is one flight, and the token it brings is *)
(* stored before another flight begins, or lost.                            *)

Asking == {"upstream", "await", "await forced", "profile", "profile again"}

OneReplica == provider.rotates =>
  /\ \A t \in Task : task[t].at # "idle" => task[t].on = First
  /\ \A p \in Replica : flight[p].at # "none" => p = First
NeverRotates == ~provider.rotates =>
  /\ provider.refresh = 1 /\ (grant.alive => grant.row.upr = 1)
  /\ \A p \in Replica : flight[p].at \in {"fetch", "store"} => flight[p].row.upr = 1
Brings == "answer lost" \notin causes =>
  \A p \in Replica : flight[p].at = "store" => flight[p].row.upr = provider.refresh
NotYet == grants = 0 =>
  /\ ~grant.alive /\ provider.refresh = 1
  /\ \A p \in Replica : flight[p].at = "none"
  /\ \A t \in Task : task[t].at \notin Asking

SInv == OneReplica /\ NeverRotates /\ Brings /\ NotYet /\ InStep

\* Steps that leave the provider's refresh token, and what is held of it.
LEMMA TokenKept ==
  ASSUME SInv, UNCHANGED <<provider.refresh, provider.rotates>>, OneReplica',
         causes \subseteq causes', grants' = 0 => grants = 0,
         grant'.alive => grant.alive /\ grant'.row.upr = grant.row.upr,
         \A p \in Replica : /\ flight'[p].at \in {"fetch", "store"} =>
                                 flight[p].at = flight'[p].at /\ flight'[p].row = flight[p].row
                            /\ flight[p].at = "store" =>
                                 flight'[p].at = "store" \/ "answer lost" \in causes'
                            /\ flight'[p].at # "none" => flight[p].at # "none" \/ grants # 0,
         \A t \in Task : task'[t].at \in Asking => task[t].at \in Asking \/ grants # 0
  PROVE  SInv'
  <1>1. NeverRotates'
    BY DEF SInv, NeverRotates
  <1>2. Brings'
    BY DEF SInv, Brings
  <1>3. NotYet'
    BY DEF SInv, NotYet
  <1>4. InStep'
    BY DEF SInv, InStep
  <1> QED
    BY <1>1, <1>2, <1>3, <1>4 DEF SInv

LEMMA LocatedKept ==
  ASSUME TypeOK, SInv, NEW t \in Task, Moves(t),
         provider.rotates => (task[t].at = "idle" => task'[t].on = First \/ task'[t].at = "idle"),
         UNCHANGED <<provider, flight>>
  PROVE  OneReplica'
  <1>1. ASSUME provider.rotates, NEW u \in Task, task'[u].at # "idle" PROVE task'[u].on = First
    <2>1. CASE u # t
      BY <1>1, <2>1 DEF Moves, TypeOK, SInv, OneReplica
    <2>2. CASE u = t
      BY <1>1, <2>2 DEF Moves, TypeOK, SInv, OneReplica, Idle
    <2> QED
      BY <2>1, <2>2
  <1> QED
    BY <1>1 DEF SInv, OneReplica

\* A request that does not ask the provider.
LEMMA ElsewhereKept ==
  ASSUME TypeOK, SInv, NEW t \in Task, Moves(t),
         provider.rotates => (task[t].at = "idle" => task'[t].on = First \/ task'[t].at = "idle"),
         UNCHANGED <<provider, flight, grants>>, causes \subseteq causes',
         grant'.alive => grant.alive /\ grant'.row.upr = grant.row.upr,
         task'[t].at \notin Asking \/ grants # 0
  PROVE  SInv'
  <1>1. OneReplica'
    BY LocatedKept
  <1>2. \A u \in Task : task'[u].at \in Asking => task[u].at \in Asking \/ grants # 0
    BY DEF Moves, TypeOK
  <1> QED
    BY <1>1, <1>2, TokenKept

LEMMA DoneAt == ASSUME TypeOK, NEW t \in Task, Done(t) PROVE task'[t].at = "idle"
  BY DEF Done, TypeOK, Idle

LEMMA GotoAt ==
  ASSUME TypeOK, NEW t \in Task, NEW at, Goto(t, at) \/ GotoNew(t, at) \/ GotoRow(t, at)
  PROVE  task'[t].at = at
  <1>1. task[t] \in TaskType
    BY DEF TypeOK
  <1>2. CASE Goto(t, at)
    BY <1>1, <1>2 DEF Goto, TypeOK, TaskType
  <1>3. CASE GotoNew(t, at)
    BY <1>1, <1>3 DEF GotoNew, TypeOK, TaskType
  <1>4. CASE GotoRow(t, at)
    BY <1>1, <1>4 DEF GotoRow, TypeOK, TaskType
  <1> QED
    BY <1>2, <1>3, <1>4

LEMMA RequestInStep ==
  ASSUME TypeOK, Placed, SInv, NEW t \in Task, NEW p \in Replica, Request(t, p)
  PROVE  SInv'
  <1>1. PICK kind \in Kinds, tok \in 0..minted, d \in Decision :
          task' = [task EXCEPT ![t] = Call(kind, p, tok, d)]
    BY DEF Request
  <1>2. FirstStep(kind) \in {"take", "claim", "select"}
    BY DEF FirstStep
  <1>3. task'[t].at \notin Asking /\ task'[t].on = p
    BY <1>1, <1>2 DEF TypeOK, Call, Asking
  <1>4. UNCHANGED <<provider, flight, grants, causes, grant>>
    BY DEF Request, Database, Rest, History
  <1>5. provider.rotates => p = First
    BY DEF Request
  <1> QED
    BY <1>3, <1>4, <1>5, RequestMoves, ElsewhereKept

LEMMA ConsentInStep ==
  ASSUME TypeOK, Placed, SInv, NEW t \in Task,
         \/ CallbackTake(t) \/ CallbackPut(t)
         \/ ApproveTake(t) \/ ApproveAgain(t) \/ ApproveCode(t) \/ ApproveResult(t)
         \/ ExchangeTake(t) \/ Issue(t) \/ Rotate(t) \/ Restore(t)
         \/ RevokeSelect(t) \/ DeleteAccess(t) \/ DeleteGrant(t) \/ ProfileUnavailable(t)
  PROVE  SInv'
  <1>1. Moves(t) /\ task[t].at # "idle"
    BY StepMoves DEF Step, CallbackTake, CallbackPut, ApproveTake, ApproveAgain, ApproveCode,
       ApproveResult, ExchangeTake, Issue, Rotate, Restore, RevokeSelect, DeleteAccess,
       DeleteGrant, ProfileUnavailable, At
  <1>2. UNCHANGED <<provider, flight, grants>> /\ causes \subseteq causes'
    BY DEF CallbackTake, CallbackPut, ApproveTake, ApproveAgain, ApproveCode,
       ApproveResult, ExchangeTake, Issue, Rotate, Restore, RevokeSelect, DeleteAccess,
       DeleteGrant, ProfileUnavailable, Rest, History
  <1>3. grant'.alive => grant.alive /\ grant'.row.upr = grant.row.upr
    <2>1. CASE UNCHANGED grant
      BY <2>1
    <2>2. CASE Rotate(t)
      BY <2>2 DEF Rotate, TypeOK
    <2>3. CASE Restore(t)
      BY <2>3 DEF Restore, TypeOK
    <2>4. CASE DeleteGrant(t)
      BY <2>4 DEF DeleteGrant, NoGrant
    <2> QED
      BY <2>1, <2>2, <2>3, <2>4 DEF CallbackTake, CallbackPut, ApproveTake, ApproveAgain, ApproveCode,
         ApproveResult, ExchangeTake, Issue, RevokeSelect, DeleteAccess, ProfileUnavailable, Database
  <1>4. task'[t].at \notin Asking
    <2> USE DEF Asking
    <2>1. CASE CallbackTake(t) \/ CallbackPut(t) \/ ApproveTake(t) \/ ApproveAgain(t)
      BY <2>1, DoneAt, GotoAt DEF CallbackTake, CallbackPut, ApproveTake, ApproveAgain
    <2>2. CASE ApproveCode(t) \/ ApproveResult(t) \/ ExchangeTake(t) \/ Issue(t)
      BY <2>2, DoneAt, GotoAt DEF ApproveCode, ApproveResult, ExchangeTake, Issue
    <2>3. CASE Rotate(t) \/ Restore(t) \/ RevokeSelect(t) \/ DeleteAccess(t) \/ DeleteGrant(t)
      BY <2>3, DoneAt, GotoAt DEF Rotate, Restore, RevokeSelect, DeleteAccess, DeleteGrant
    <2>4. CASE ProfileUnavailable(t)
      BY <2>4, GotoAt DEF ProfileUnavailable, Unavailable
    <2> QED
      BY <2>1, <2>2, <2>3, <2>4
  <1> QED
    BY <1>1, <1>2, <1>3, <1>4, ElsewhereKept

\* The first tokens of the provider come with the grant, and no flight before it.
LEMMA InsertInStep ==
  ASSUME TypeOK, Placed, GInv, SInv, NEW t \in Task, ExchangeInsert(t)
  PROVE  SInv'
  <1>1. Inserting(t)
    BY DEF ExchangeInsert, Inserting, At
  <1>2. grants = 0 /\ provider.refresh = 1 /\ \A p \in Replica : flight[p].at = "none"
    BY <1>1 DEF GInv, OneCode, SInv, NotYet
  <1>3. /\ grants' = 1 /\ UNCHANGED <<provider, flight, causes>>
        /\ grant'.row.upr = 1
    BY <1>2 DEF ExchangeInsert
  <1>4. Moves(t) /\ task[t].at # "idle"
    BY StepMoves DEF Step, ExchangeInsert, At
  <1>5. OneReplica'
    BY <1>3, <1>4, LocatedKept
  <1>6. NeverRotates'
    <2>1. \A p \in Replica : flight'[p].at \notin {"fetch", "store"}
      BY <1>2, <1>3
    <2>2. provider'.refresh = 1 /\ grant'.row.upr = 1
      BY <1>2, <1>3
    <2> QED
      BY <2>1, <2>2 DEF NeverRotates
  <1>7. Brings' /\ NotYet'
    <2>1. \A p \in Replica : flight'[p].at # "store"
      BY <1>2, <1>3
    <2>2. Brings'
      BY <2>1 DEF Brings
    <2>3. NotYet'
      BY <1>3 DEF NotYet
    <2> QED
      BY <2>2, <2>3
  <1>8. InStep'
    BY <1>2, <1>3 DEF InStep
  <1> QED
    BY <1>5, <1>6, <1>7, <1>8 DEF SInv

\* A request asks the provider for a grant that it found.
LEMMA FoundInStep ==
  ASSUME TypeOK, Placed, SInv, NEW t \in Task, Claim(t) \/ CheckSelect(t)
  PROVE  SInv'
  <1>1. Moves(t) /\ task[t].at # "idle"
    BY StepMoves DEF Step, Claim, CheckSelect, At
  <1>2. UNCHANGED <<provider, flight, grants, causes>>
    BY DEF Claim, CheckSelect, Rest, History
  <1>3. grant'.alive => grant.alive /\ grant'.row.upr = grant.row.upr
    BY DEF Claim, CheckSelect, Database, TypeOK
  <1>4. task'[t].at \notin Asking \/ grants # 0
    <2>1. CASE grant.alive
      BY <2>1 DEF SInv, NotYet
    <2>2. CASE ~grant.alive
      BY <2>2, DoneAt DEF Claim, CheckSelect, Asking
    <2> QED
      BY <2>1, <2>2
  <1> QED
    BY <1>1, <1>2, <1>3, <1>4, ElsewhereKept

LEMMA AskInStep ==
  ASSUME TypeOK, Placed, SInv, NEW t \in Task, Upstream(t) \/ Profile(t)
  PROVE  SInv'
  <1>1. Moves(t) /\ task[t].at # "idle" /\ grants # 0
    BY StepMoves DEF Step, Upstream, Profile, SInv, NotYet, Asking
  <1>2. UNCHANGED <<provider, grants, causes, grant>>
    BY DEF Upstream, Profile, Database, History
  <1>3. CASE UNCHANGED flight
    BY <1>1, <1>2, <1>3, ElsewhereKept
  <1>4. CASE \E force \in BOOLEAN : Await(t, task[t].on, force)
    <2>1. task[t].on \in Replica /\ (provider.rotates => task[t].on = First)
      BY <1>1 DEF Placed, SInv, OneReplica
    <2>2. \A p \in Replica : \/ flight'[p] = flight[p]
                             \/ p = task[t].on /\ flight[p].at = "none" /\ flight'[p].at = "read"
      <3>1. PICK force \in BOOLEAN : Await(t, task[t].on, force)
        BY <1>4
      <3>2. CASE flight[task[t].on].at # "none"
        BY <3>1, <3>2 DEF Await
      <3>3. CASE flight[task[t].on].at = "none"
        <4> DEFINE f == [at |-> "read", force |-> force, base |-> task[t].row.up, row |-> NoRow]
        <4>1. flight' = [flight EXCEPT ![task[t].on] = f]
          BY <3>1, <3>3 DEF Await
        <4>2. f.at = "read"
          OBVIOUS
        <4> HIDE DEF f
        <4> QED
          BY <2>1, <3>3, <4>1, <4>2 DEF TypeOK
      <3> QED
        BY <3>2, <3>3
    <2>3. \A u \in Task \ {t} : task'[u] = task[u]
      BY <1>1 DEF Moves, TypeOK
    <2>4. task'[t].at # "idle" => task'[t].on = task[t].on
      BY <1>1 DEF Moves, TypeOK, Idle
    <2>5. OneReplica'
      BY <1>1, <1>2, <2>1, <2>2, <2>3, <2>4 DEF SInv, OneReplica
    <2>6. \A p \in Replica : /\ flight'[p].at \in {"fetch", "store"} =>
                                 flight[p].at = flight'[p].at /\ flight'[p].row = flight[p].row
                             /\ flight[p].at = "store" => flight'[p].at = "store"
      BY <2>2
    <2> QED
      BY <1>1, <1>2, <2>5, <2>6, TokenKept
  <1> QED
    BY <1>3, <1>4 DEF Upstream, Profile

\* A replica's flight, and its restart.
LEMMA FlyLocated ==
  ASSUME TypeOK, SInv, NEW p \in Replica, Fly(p), provider'.rotates = provider.rotates,
         \A q \in Replica \ {p} : flight'[q] = flight[q],
         flight'[p].at # "none" => flight[p].at # "none"
  PROVE  OneReplica'
  <1>1. ASSUME provider.rotates, NEW u \in Task, task'[u].at # "idle" PROVE task'[u].on = First
    <2>1. task'[u] # Idle
      BY <1>1 DEF Idle
    <2>2. CASE task'[u] = task[u]
      BY <1>1, <2>2 DEF SInv, OneReplica
    <2>3. CASE task'[u] # task[u]
      <3>1. \/ task'[u] = task[u]
            \/ task'[u] = Idle
            \/ /\ task[u].at \in {"await", "await forced"} /\ task[u].on = p
               /\ task'[u].on = p /\ task'[u].kind = task[u].kind
               /\ task'[u].at \in {"profile", "profile again", "delete access", "restore", "idle"}
        BY FlyMoves
      <3>2. task[u].at # "idle" /\ task'[u].on = task[u].on
        <4>1. task[u].at \in {"await", "await forced"} /\ task[u].on = p /\ task'[u].on = p
          BY ONLY <2>1, <2>3, <3>1
        <4> QED
          BY ONLY <4>1
      <3> QED
        BY <1>1, <3>2 DEF SInv, OneReplica
    <2> QED
      BY <2>2, <2>3
  <1> QED
    BY <1>1 DEF SInv, OneReplica

LEMMA FlyAsking ==
  ASSUME TypeOK, SInv, NEW p \in Replica, Fly(p), NEW u \in Task, task'[u].at \in Asking
  PROVE  task[u].at \in Asking
  <1>1. task'[u] # Idle
    <2>1. Idle.at = "idle"
      BY DEF Idle
    <2>2. "idle" \notin Asking
      BY DEF Asking
    <2> QED
      BY <2>1, <2>2
  <1>2. CASE task'[u] = task[u]
    BY <1>2
  <1>3. CASE task'[u] # task[u]
    <2>1. task[u].at \in {"await", "await forced"}
      BY <1>1, <1>3, FlyMoves
    <2> QED
      BY <2>1 DEF Asking
  <1> QED
    BY <1>2, <1>3

LEMMA ReadInStep ==
  ASSUME TypeOK, Placed, SInv, NEW p \in Replica, FlightRead(p)
  PROVE  SInv'
  <1>1. UNCHANGED <<provider, grants, causes, grant>> /\ grants # 0
    BY DEF FlightRead, Database, History, SInv, NotYet
  <1>2. \A q \in Replica \ {p} : flight'[q] = flight[q]
    BY DEF FlightRead, FlightFails, Land, TypeOK
  <1>3. flight'[p].at = "none" \/ (flight'[p].at = "fetch" /\ flight'[p].row = grant.row /\ grant.alive)
    <2>1. CASE flight' = [flight EXCEPT ![p] = NoFlight]
      BY <2>1 DEF TypeOK, NoFlight
    <2>2. CASE grant.alive /\ flight' = [flight EXCEPT ![p].at = "fetch", ![p].row = grant.row]
      <3>1. flight[p] \in FlightType
        BY DEF TypeOK
      <3>2. flight' = [flight EXCEPT ![p] = [flight[p] EXCEPT !.at = "fetch", !.row = grant.row]]
        BY <2>2
      <3>3. flight'[p] = [flight[p] EXCEPT !.at = "fetch", !.row = grant.row]
        BY <3>2 DEF TypeOK
      <3>4. flight'[p].at = "fetch" /\ flight'[p].row = grant.row
        BY ONLY <3>1, <3>3 DEF FlightType
      <3> QED
        BY ONLY <2>2, <3>4
    <2> QED
      BY <2>1, <2>2 DEF FlightRead, FlightFails, Land
  <1>4. flight[p].at = "read"
    BY DEF FlightRead
  <1>5. OneReplica'
    BY <1>1, <1>2, <1>4, FlyLocated DEF Fly
  <1>6. NeverRotates'
    BY <1>1, <1>2, <1>3 DEF SInv, NeverRotates
  <1>7. Brings'
    BY <1>1, <1>2, <1>3 DEF SInv, Brings
  <1>8. NotYet'
    BY <1>1 DEF NotYet
  <1>9. InStep'
    BY <1>1, <1>2, <1>4 DEF SInv, InStep
  <1> QED
    BY <1>5, <1>6, <1>7, <1>8, <1>9 DEF SInv

LEMMA FetchInStep ==
  ASSUME TypeOK, Placed, SInv, NEW p \in Replica, FlightFetch(p)
  PROVE  SInv'
  <1>1. UNCHANGED <<grants, causes, grant>> /\ grants # 0 /\ flight[p].at = "fetch"
    BY DEF FlightFetch, Database, SInv, NotYet
  <1>2. \A q \in Replica \ {p} : flight'[q] = flight[q]
    BY DEF FlightFetch, FlightFails, TypeOK
  <1>3. CASE flight[p].row.upr # provider.refresh
    <2>1. UNCHANGED provider /\ flight'[p].at = "none"
      BY <1>3 DEF FlightFetch, FlightFails, TypeOK, NoFlight
    <2>2. OneReplica'
      BY <1>1, <1>2, <2>1, FlyLocated DEF Fly
    <2>3. \A u \in Task : task'[u].at \in Asking => task[u].at \in Asking
      BY FlyAsking DEF Fly
    <2> QED
      BY <1>1, <1>2, <2>1, <2>2, <2>3, TokenKept
  <1>4. CASE flight[p].row.upr = provider.refresh
    <2>1. /\ provider'.rotates = provider.rotates
          /\ ~provider.rotates => provider'.refresh = provider.refresh
      BY <1>4 DEF FlightFetch, TypeOK
    <2>2. flight'[p].at = "store" /\ flight'[p].row.upr = provider'.refresh
      BY <1>4 DEF FlightFetch, TypeOK, FlightType
    <2>3. OneReplica'
      BY <1>1, <1>2, <2>1, FlyLocated DEF Fly
    <2>4. NeverRotates'
      BY <1>1, <1>2, <2>1, <2>2 DEF SInv, NeverRotates
    <2>5. Brings'
      <3>1. CASE provider.rotates
        BY <1>1, <1>2, <2>1, <2>2, <2>3, <3>1 DEF OneReplica, Brings
      <3>2. CASE ~provider.rotates
        BY <1>1, <1>2, <2>1, <2>2, <3>2 DEF SInv, Brings
      <3> QED
        BY <3>1, <3>2
    <2>6. NotYet'
      BY <1>1 DEF NotYet
    <2>7. InStep'
      BY <2>2 DEF InStep
    <2> QED
      BY <2>3, <2>4, <2>5, <2>6, <2>7 DEF SInv
  <1> QED
    BY <1>3, <1>4

LEMMA UnavailableInStep ==
  ASSUME TypeOK, Placed, SInv, NEW p \in Replica, FlightUnavailable(p)
  PROVE  SInv'
  <1>1. UNCHANGED <<grants, grant>> /\ grants # 0 /\ flight[p].at = "fetch" /\ causes \subseteq causes'
    BY DEF FlightUnavailable, Database, SInv, NotYet
  <1>2. (\A q \in Replica \ {p} : flight'[q] = flight[q]) /\ flight'[p].at = "none"
    BY DEF FlightUnavailable, FlightFails, TypeOK, NoFlight
  <1>3. provider'.rotates = provider.rotates
    BY DEF FlightUnavailable, TypeOK
  <1>4. OneReplica'
    BY <1>1, <1>2, <1>3, FlyLocated DEF Fly
  <1>5. \A u \in Task : task'[u].at \in Asking => task[u].at \in Asking
    BY FlyAsking DEF Fly
  <1>6. CASE UNCHANGED provider
    BY <1>1, <1>2, <1>4, <1>5, <1>6, TokenKept
  <1>7. CASE provider.rotates /\ "answer lost" \in causes'
    BY <1>1, <1>3, <1>4, <1>7 DEF SInv, NeverRotates, Brings, NotYet, InStep
  <1> QED
    BY <1>6, <1>7 DEF FlightUnavailable

LEMMA StoreInStep ==
  ASSUME TypeOK, Placed, SInv, NEW p \in Replica, FlightStore(p)
  PROVE  SInv'
  <1>1. UNCHANGED <<provider, grants, causes>> /\ grants # 0 /\ flight[p].at = "store"
    BY DEF FlightStore, History, SInv, NotYet
  <1>2. (\A q \in Replica \ {p} : flight'[q] = flight[q]) /\ flight'[p].at = "none"
    BY DEF FlightStore, Land, TypeOK, NoFlight
  <1>3. grant'.alive => grant'.row = flight[p].row
    BY DEF FlightStore, TypeOK
  <1>4. OneReplica'
    BY <1>1, <1>2, FlyLocated DEF Fly
  <1>5. NeverRotates'
    BY <1>1, <1>2, <1>3 DEF SInv, NeverRotates
  <1>6. Brings'
    BY <1>1, <1>2 DEF SInv, Brings
  <1>7. NotYet'
    BY <1>1 DEF NotYet
  <1>8. InStep'
    BY <1>1, <1>3 DEF SInv, Brings, InStep
  <1> QED
    BY <1>4, <1>5, <1>6, <1>7, <1>8 DEF SInv

LEMMA RestartInStep ==
  ASSUME TypeOK, Placed, SInv, NEW p \in Replica, Restart(p)
  PROVE  SInv'
  <1>1. UNCHANGED <<provider, grants, grant>> /\ causes \subseteq causes'
    BY DEF Restart, Database
  <1>2. (\A q \in Replica \ {p} : flight'[q] = flight[q]) /\ flight'[p].at = "none"
    BY DEF Restart, TypeOK, NoFlight
  <1>3. flight[p].at = "store" => "answer lost" \in causes'
    BY DEF Restart
  <1>4. OneReplica'
    BY <1>1, <1>2, FlyLocated DEF Fly
  <1>5. \A u \in Task : task'[u].at \in Asking => task[u].at \in Asking
    BY FlyAsking DEF Fly
  <1> QED
    BY <1>1, <1>2, <1>3, <1>4, <1>5, TokenKept

LEMMA EnvironmentInStep ==
  ASSUME TypeOK, Placed, SInv, UpstreamExpires \/ EndedEarly \/ Suspend \/ Expire \/ UNCHANGED vars
  PROVE  SInv'
  <1>1. UNCHANGED <<task, flight, grants>> /\ causes \subseteq causes'
    BY DEF UpstreamExpires, EndedEarly, Suspend, Expire, Rest, History, vars
  <1>2. grant'.alive = grant.alive /\ grant'.row.upr = grant.row.upr
    <2>1. CASE UNCHANGED grant
      BY <2>1
    <2>2. CASE UpstreamExpires
      BY <2>2 DEF UpstreamExpires, TypeOK, Row
    <2> QED
      BY <2>1, <2>2 DEF EndedEarly, Suspend, Expire, Database, vars
  <1>3. UNCHANGED <<provider.refresh, provider.rotates>>
    <2>1. CASE UNCHANGED provider
      BY <2>1
    <2>2. CASE UpstreamExpires
      BY <2>2 DEF UpstreamExpires, TypeOK
    <2>3. CASE EndedEarly \/ Suspend
      BY <2>3 DEF EndedEarly, Suspend, TypeOK
    <2> QED
      BY <2>1, <2>2, <2>3 DEF Expire, Rest, vars
  <1>4. OneReplica'
    BY <1>1, <1>3 DEF SInv, OneReplica
  <1> QED
    BY <1>1, <1>2, <1>3, <1>4, TokenKept

LEMMA SInvHolds == Spec => [](TypeOK /\ Placed /\ GInv /\ SInv)
  <1>1. Init => SInv
    <2> SUFFICES ASSUME Init PROVE SInv
      OBVIOUS
    <2>1. /\ \A t \in Task : task[t].at = "idle"
          /\ \A p \in Replica : flight[p].at = "none"
      BY DEF Init, Idle, NoFlight
    <2>2. ~grant.alive /\ provider.refresh = 1 /\ grants = 0
      BY DEF Init, NoGrant
    <2> QED
      BY <2>1, <2>2 DEF SInv, OneReplica, NeverRotates, Brings, NotYet, InStep, Asking
  <1>2. TypeOK /\ Placed /\ GInv /\ SInv /\ [Next]_vars => SInv'
    <2> SUFFICES ASSUME TypeOK, Placed, GInv, SInv, [Next]_vars PROVE SInv'
      OBVIOUS
    <2>1. ASSUME NEW t \in Task, Step(t) PROVE SInv'
      BY <2>1, RequestInStep, ConsentInStep, InsertInStep, FoundInStep, AskInStep DEF Step
    <2>2. ASSUME NEW p \in Replica, Fly(p) PROVE SInv'
      BY <2>2, ReadInStep, FetchInStep, UnavailableInStep, StoreInStep, RestartInStep DEF Fly
    <2> QED
      BY <2>1, <2>2, EnvironmentInStep DEF Next
  <1> QED
    BY <1>1, <1>2, GInvHolds, PTL DEF Spec

\* What the database holds for the provider is what the provider accepts, unless
\* an answer was lost.
THEOREM HeldTokenInStep == Spec => []InStep
  <1>1. SInv => InStep
    BY DEF SInv
  <1> QED
    BY <1>1, SInvHolds, PTL

-----------------------------------------------------------------------------
(* The refresh token that is accepted.  While the grant is alive and no     *)
(* restart lost a refresh, at most one request may change it: the exchange  *)
(* that made the grant, or the refresh that claimed its token.              *)

\* A request that has stored a token it did not hand out yet, and one that is
\* going to, or to give the old one back.
Issuing(t) == task[t].kind \in {"exchange", "refresh"} /\ task[t].at = "issue"
Busy(t) == Refreshing(t) \/ Issuing(t)

TaskTokens(t) ==
  /\ task[t].new <= minted
  /\ task[t].kind = "refresh" /\ task[t].at # "idle" => task[t].tok \in answered
  /\ Issuing(t) => task[t].new > 0 /\ grants # 0

Tokens ==
  /\ \A tok \in answered : 0 < tok /\ tok <= minted
  /\ grant.refresh <= minted
  /\ \A t \in Task : TaskTokens(t)
  /\ grants = 0 => answered = {} /\ ~grant.alive

Newest == grant.alive /\ "refresh lost" \notin causes =>
  /\ \A t, u \in Task : Busy(t) /\ Busy(u) => t = u
  /\ \A t \in Task : Refreshing(t) /\ ~Issuing(t) =>
       grant.refresh = 0 /\ \A tok \in answered : tok <= task[t].tok
  /\ \A t \in Task : Issuing(t) =>
       grant.refresh = task[t].new /\ \A tok \in answered : tok < task[t].new
  /\ (\A t \in Task : ~Busy(t)) => \A tok \in answered : tok <= grant.refresh

\* A request that keeps its tokens, and its part in the refreshing.
Carries(t) ==
  \/ task'[t] = Idle
  \/ /\ task'[t].kind = task[t].kind /\ task'[t].tok = task[t].tok
     /\ task'[t].new = task[t].new /\ (task'[t].at # "idle" => task[t].at # "idle")
Stays(t) ==
  /\ Busy(t)' => /\ Busy(t) /\ (Issuing(t)' <=> Issuing(t))
                 /\ task'[t].tok = task[t].tok /\ task'[t].new = task[t].new
  /\ Refreshing(t) => Refreshing(t)'
Quiet(t) == Carries(t) /\ Stays(t)

LEMMA SameQuiet == ASSUME NEW t, task'[t] = task[t] PROVE Quiet(t)
  BY DEF Quiet, Carries, Stays, Busy, Refreshing, Issuing

LEMMA EndedQuiet == ASSUME NEW t, task'[t] = Idle, ~Refreshing(t) PROVE Quiet(t)
  <1>1. ~Busy(t)'
    BY DEF Idle, Busy, Refreshing, Issuing
  <1> QED
    BY <1>1 DEF Quiet, Carries, Stays

LEMMA MovedQuiet ==
  ASSUME NEW t,
         task'[t].kind = task[t].kind, task'[t].tok = task[t].tok, task'[t].new = task[t].new,
         task[t].at \notin {"idle", "claim", "issue"}, task'[t].at \notin {"claim", "issue"},
         task'[t].at = "idle" => task[t].kind # "refresh"
  PROVE  Quiet(t)
  <1>1. Carries(t)
    BY DEF Carries
  <1>2. ~Issuing(t) /\ ~Issuing(t)'
    BY DEF Issuing
  <1>3. Refreshing(t) <=> Refreshing(t)'
    BY DEF Refreshing
  <1> QED
    BY <1>1, <1>2, <1>3 DEF Quiet, Stays, Busy

LEMMA GotoKeeps ==
  ASSUME TypeOK, NEW t \in Task, NEW at, Goto(t, at) \/ GotoRow(t, at)
  PROVE  /\ task'[t].kind = task[t].kind /\ task'[t].tok = task[t].tok
         /\ task'[t].new = task[t].new /\ task'[t].at = at
  <1>1. task[t] \in TaskType
    BY DEF TypeOK
  <1>2. CASE Goto(t, at)
    BY <1>1, <1>2 DEF Goto, TypeOK, TaskType
  <1>3. CASE GotoRow(t, at)
    BY <1>1, <1>3 DEF GotoRow, TypeOK, TaskType
  <1> QED
    BY <1>2, <1>3

LEMMA GotoQuiet ==
  ASSUME TypeOK, NEW t \in Task, NEW at \in Places \ {"idle", "claim", "issue"},
         Goto(t, at) \/ GotoRow(t, at), task[t].at \notin {"idle", "claim", "issue"}
  PROVE  Quiet(t)
  <1>1. /\ task'[t].kind = task[t].kind /\ task'[t].tok = task[t].tok
        /\ task'[t].new = task[t].new /\ task'[t].at = at
    BY GotoKeeps
  <1> QED
    BY <1>1, MovedQuiet

LEMMA GivenUpQuiet ==
  ASSUME TypeOK, NEW t \in Task, Goto(t, "idle"), task[t].kind # "refresh",
         task[t].at \notin {"idle", "claim", "issue"}
  PROVE  Quiet(t)
  <1>1. /\ task'[t].kind = task[t].kind /\ task'[t].tok = task[t].tok
        /\ task'[t].new = task[t].new /\ task'[t].at = "idle"
    BY GotoKeeps
  <1> QED
    BY <1>1, MovedQuiet

LEMMA DoneQuiet == ASSUME TypeOK, NEW t \in Task, Done(t), ~Refreshing(t) PROVE Quiet(t)
  <1>1. task'[t] = Idle
    BY DEF Done, TypeOK
  <1> QED
    BY <1>1, EndedQuiet

\* The steps that leave the grant and what was handed out alone.
QuietStep(t) ==
  \/ CallbackTake(t) \/ CallbackPut(t) \/ ApproveTake(t) \/ ApproveAgain(t) \/ ApproveResult(t)
  \/ ExchangeTake(t) \/ CheckSelect(t) \/ RevokeSelect(t) \/ DeleteAccess(t)
  \/ Upstream(t) \/ Profile(t) \/ ProfileUnavailable(t)

LEMMA QuietSteps == ASSUME TypeOK, NEW t \in Task, QuietStep(t) PROVE Quiet(t)
  <1> USE DEF At, Places, Refreshing
  <1>1. CASE CallbackTake(t)
    BY <1>1, GotoQuiet, DoneQuiet DEF CallbackTake
  <1>2. CASE CallbackPut(t)
    BY <1>2, DoneQuiet DEF CallbackPut
  <1>3. CASE ApproveTake(t)
    <2>1. Goto(t, "code") \/ Goto(t, "result")
      BY <1>3 DEF ApproveTake
    <2> QED
      BY <1>3, <2>1, GotoQuiet DEF ApproveTake
  <1>4. CASE ApproveAgain(t) \/ ApproveResult(t)
    BY <1>4, DoneQuiet DEF ApproveAgain, ApproveResult
  <1>5. CASE ExchangeTake(t)
    BY <1>5, GotoQuiet, DoneQuiet DEF ExchangeTake
  <1>6. CASE CheckSelect(t)
    BY <1>6, GotoQuiet, DoneQuiet DEF CheckSelect
  <1>7. CASE RevokeSelect(t)
    BY <1>7, GotoQuiet, DoneQuiet DEF RevokeSelect
  <1>8. CASE DeleteAccess(t)
    BY <1>8, GotoQuiet DEF DeleteAccess
  <1>9. ASSUME NEW p, NEW force, Await(t, p, force), task[t].at \in {"upstream", "profile"}
        PROVE  Quiet(t)
    <2>1. Goto(t, "await") \/ Goto(t, "await forced")
      BY <1>9 DEF Await
    <2> QED
      BY <1>9, <2>1, GotoQuiet
  <1>10. CASE Upstream(t)
    BY <1>9, <1>10, GotoQuiet DEF Upstream
  <1>11. CASE Profile(t)
    <2>1. task[t].at \in {"profile", "profile again"}
      BY <1>11 DEF Profile
    <2>2. CASE Goto(t, Refused(t)) \/ Goto(t, "rotate")
      BY <2>1, <2>2, GotoQuiet DEF Refused
    <2>3. CASE task[t].at = "profile" /\ Await(t, task[t].on, TRUE)
      BY <1>9, <2>3
    <2>4. CASE task[t].kind # "refresh" /\ Done(t)
      BY <2>4, DoneQuiet
    <2> QED
      BY <1>11, <2>2, <2>3, <2>4 DEF Profile
  <1>12. CASE ProfileUnavailable(t)
    <2>1. task[t].at \in {"profile", "profile again"}
      BY <1>12 DEF ProfileUnavailable
    <2>2. CASE task[t].kind = "refresh"
      BY <1>12, <2>1, <2>2, GotoQuiet DEF ProfileUnavailable, Unavailable
    <2>3. CASE task[t].kind # "refresh"
      BY <1>12, <2>1, <2>3, GivenUpQuiet DEF ProfileUnavailable, Unavailable
    <2> QED
      BY <2>2, <2>3
  <1> QED
    BY <1>1, <1>2, <1>3, <1>4, <1>5, <1>6, <1>7, <1>8, <1>10, <1>11, <1>12 DEF QuietStep

LEMMA QuietRest ==
  ASSUME NEW t, QuietStep(t)
  PROVE  UNCHANGED <<answered, grant, minted, grants>> /\ causes \subseteq causes'
  BY DEF QuietStep, CallbackTake, CallbackPut, ApproveTake, ApproveAgain, ApproveResult,
     ExchangeTake, CheckSelect, RevokeSelect, DeleteAccess, Upstream, Profile,
     ProfileUnavailable, Database, Rest, History

\* What a flight and a restart make of a request.
LEMMA FlyQuiet ==
  ASSUME TypeOK, NEW p \in Replica, Fly(p), NEW u \in Task
  PROVE  Carries(u) /\ ("refresh lost" \notin causes' => Stays(u))
  <1>1. task[u] \in TaskType
    BY DEF TypeOK
  <1>2. ASSUME NEW row, Land(p, row) PROVE Quiet(u)
    <2>1. CASE u \notin Waiters(p)
      BY <1>2, <2>1, SameQuiet DEF Land
    <2>2. CASE u \in Waiters(p)
      <3>1. task'[u] = [task[u] EXCEPT !.row = row, !.at = Landed(@)]
        BY <1>2, <2>2 DEF Land
      <3>2. /\ task'[u].kind = task[u].kind /\ task'[u].tok = task[u].tok
            /\ task'[u].new = task[u].new /\ task'[u].at = Landed(task[u].at)
        BY <1>1, <3>1 DEF TaskType
      <3>3. task[u].at \in {"await", "await forced"}
        BY <2>2 DEF Waiters
      <3>4. Landed(task[u].at) \in {"profile", "profile again"}
        BY DEF Landed
      <3> QED
        BY <3>2, <3>3, <3>4, MovedQuiet
    <2> QED
      BY <2>1, <2>2, Zenon
  <1>3. ASSUME FlightFails(p, Refused) \/ FlightFails(p, Unavailable) PROVE Quiet(u)
    <2>1. CASE u \notin Waiters(p)
      BY <1>3, <2>1, SameQuiet DEF FlightFails
    <2>2. CASE u \in Waiters(p)
      <3>1. PICK at \in {Refused(u), Unavailable(u)} : task'[u] = [task[u] EXCEPT !.at = at]
        BY <1>3, <2>2 DEF FlightFails
      <3>2. /\ task'[u].kind = task[u].kind /\ task'[u].tok = task[u].tok
            /\ task'[u].new = task[u].new /\ task'[u].at = at
        BY <1>1, <3>1 DEF TaskType
      <3>3. task[u].at \in {"await", "await forced"}
        BY <2>2 DEF Waiters
      <3>4. at \in {"delete access", "restore", "idle"} /\ (at = "idle" => task[u].kind # "refresh")
        BY DEF Refused, Unavailable
      <3> QED
        BY <3>2, <3>3, <3>4, MovedQuiet
    <2> QED
      BY <2>1, <2>2
  <1>4. CASE Restart(p)
    <2>1. CASE task[u].on # p
      BY <1>4, <2>1, SameQuiet DEF Restart, Quiet
    <2>2. CASE task[u].on = p
      <3>1. task'[u] = Idle
        BY <1>4, <2>2 DEF Restart
      <3>2. CASE Refreshing(u)
        BY <1>4, <2>2, <3>1, <3>2 DEF Restart, Carries
      <3>3. CASE ~Refreshing(u)
        BY <3>1, <3>3, EndedQuiet DEF Quiet
      <3> QED
        BY <3>2, <3>3
    <2> QED
      BY <2>1, <2>2
  <1>5. CASE UNCHANGED task
    BY <1>5, SameQuiet DEF Quiet
  <1>6. Restart(p) \/ UNCHANGED task \/ (\E row : Land(p, row))
          \/ FlightFails(p, Refused) \/ FlightFails(p, Unavailable)
    BY DEF Fly, FlightRead, FlightFetch, FlightUnavailable, FlightStore
  <1>7. Quiet(u) => Carries(u) /\ ("refresh lost" \notin causes' => Stays(u))
    BY ONLY DEF Quiet
  <1> QED
    BY ONLY <1>2, <1>3, <1>4, <1>5, <1>6, <1>7

LEMMA FlyRest ==
  ASSUME TypeOK, NEW p \in Replica, Fly(p)
  PROVE  /\ UNCHANGED <<answered, minted, grants>> /\ causes \subseteq causes'
         /\ grant'.alive = grant.alive /\ grant'.refresh = grant.refresh
  <1>1. UNCHANGED <<answered, minted, grants>> /\ causes \subseteq causes'
    BY DEF Fly, FlightRead, FlightFetch, FlightUnavailable, FlightStore, Restart, History
  <1>2. CASE UNCHANGED grant
    BY <1>1, <1>2
  <1>3. CASE FlightStore(p)
    BY <1>1, <1>3 DEF FlightStore, TypeOK
  <1> QED
    BY <1>2, <1>3 DEF Fly, FlightRead, FlightFetch, FlightUnavailable, Restart, Database

\* The tokens of a request that moved on with what it had.
LEMMA CarriedTokens ==
  ASSUME Tokens, NEW u \in Task, Carries(u), Issuing(u)' => Issuing(u),
         answered \subseteq answered', minted' \in Nat, minted \in Nat, minted <= minted',
         task[u].new \in Nat, grants # 0 => grants' # 0
  PROVE  TaskTokens(u)'
  <1>1. TaskTokens(u)
    BY DEF Tokens
  <1>2. CASE task'[u] = Idle
    <2>1. task'[u].new = 0 /\ task'[u].kind = "callback" /\ ~Issuing(u)'
      BY <1>2 DEF Idle, Issuing
    <2> QED
      BY <2>1 DEF TaskTokens
  <1>3. CASE /\ task'[u].kind = task[u].kind /\ task'[u].tok = task[u].tok
             /\ task'[u].new = task[u].new /\ (task'[u].at # "idle" => task[u].at # "idle")
    BY <1>1, <1>3 DEF TaskTokens
  <1> QED
    BY <1>2, <1>3 DEF Carries

LEMMA SameTokens ==
  ASSUME Tokens, NEW u \in Task, task'[u] = task[u],
         answered \subseteq answered', minted' \in Nat, minted \in Nat, minted <= minted',
         task[u].new \in Nat, grants # 0 => grants' # 0
  PROVE  TaskTokens(u)'
  <1>1. Carries(u) /\ (Issuing(u)' => Issuing(u))
    BY DEF Carries, Issuing
  <1> QED
    BY <1>1, CarriedTokens

LEMMA Numbers ==
  ASSUME TypeOK, TypeOK'
  PROVE  /\ minted \in Nat /\ minted' \in Nat /\ grant.refresh \in Nat /\ grant'.refresh \in Nat
         /\ answered \subseteq Nat /\ answered' \subseteq Nat
         /\ \A u \in Task : /\ task[u].new \in Nat /\ task'[u].new \in Nat
                            /\ task[u].tok \in Nat /\ task'[u].tok \in Nat
  <1>1. /\ minted \in N /\ grant.refresh \in N /\ answered \subseteq N
        /\ \A u \in Task : task[u].new \in N /\ task[u].tok \in N
    BY DEF TypeOK, TaskType
  <1>2. /\ minted' \in N /\ grant'.refresh \in N /\ answered' \subseteq N
        /\ \A u \in Task : task'[u].new \in N /\ task'[u].tok \in N
    BY DEF TypeOK, TaskType
  <1> QED
    BY <1>1, <1>2, NFacts

\* Steps that leave the grant's token and what was handed out.
LEMMA FrameTokens ==
  ASSUME TypeOK, TypeOK', Tokens, UNCHANGED <<answered, minted, grants>>,
         grant'.alive => grant.alive, grant'.refresh <= minted,
         \A u \in Task : Carries(u) /\ (Issuing(u)' => Issuing(u))
  PROVE  Tokens'
  <1>1. \A u \in Task : TaskTokens(u)'
    BY CarriedTokens, Numbers
  <1> QED
    BY <1>1 DEF Tokens

LEMMA FrameNewest ==
  ASSUME Newest, answered \subseteq Nat, grant.refresh \in Nat,
         UNCHANGED answered, causes \subseteq causes',
         grant'.alive => grant.alive /\ grant'.refresh = grant.refresh,
         "refresh lost" \notin causes' => \A u \in Task : Stays(u)
  PROVE  Newest'
  <1> SUFFICES ASSUME grant'.alive, "refresh lost" \notin causes'
               PROVE  Newest'
    BY DEF Newest
  <1>1. /\ \A t, u \in Task : Busy(t) /\ Busy(u) => t = u
        /\ \A t \in Task : Refreshing(t) /\ ~Issuing(t) =>
             grant.refresh = 0 /\ \A tok \in answered : tok <= task[t].tok
        /\ \A t \in Task : Issuing(t) =>
             grant.refresh = task[t].new /\ \A tok \in answered : tok < task[t].new
        /\ (\A t \in Task : ~Busy(t)) => \A tok \in answered : tok <= grant.refresh
    BY DEF Newest
  <1>2. \A u \in Task : Stays(u)
    OBVIOUS
  <1>3. grant'.refresh = grant.refresh
    OBVIOUS
  <1>4. \A t, u \in Task : Busy(t)' /\ Busy(u)' => t = u
    BY <1>1, <1>2 DEF Stays
  <1>5. \A t \in Task : Refreshing(t)' /\ ~Issuing(t)' =>
          grant'.refresh = 0 /\ \A tok \in answered' : tok <= task'[t].tok
    <2> SUFFICES ASSUME NEW t \in Task, Refreshing(t)', ~Issuing(t)'
                 PROVE  grant'.refresh = 0 /\ \A tok \in answered' : tok <= task'[t].tok
      OBVIOUS
    <2>1. Busy(t) /\ ~Issuing(t) /\ task'[t].tok = task[t].tok
      BY <1>2 DEF Stays, Busy
    <2> QED
      BY <1>1, <1>3, <2>1 DEF Busy
  <1>6. \A t \in Task : Issuing(t)' =>
          grant'.refresh = task'[t].new /\ \A tok \in answered' : tok < task'[t].new
    <2> SUFFICES ASSUME NEW t \in Task, Issuing(t)'
                 PROVE  grant'.refresh = task'[t].new /\ \A tok \in answered' : tok < task'[t].new
      OBVIOUS
    <2>1. Issuing(t) /\ task'[t].new = task[t].new
      BY <1>2 DEF Stays, Busy
    <2> QED
      BY <1>1, <1>3, <2>1
  <1>7. (\A t \in Task : ~Busy(t)') => \A tok \in answered' : tok <= grant'.refresh
    <2> SUFFICES ASSUME \A t \in Task : ~Busy(t)'
                 PROVE  \A tok \in answered' : tok <= grant'.refresh
      OBVIOUS
    <2>1. \A t \in Task : ~Refreshing(t)
      BY <1>2 DEF Stays, Busy
    <2>2. CASE \E t \in Task : Busy(t)
      <3>1. PICK t \in Task : Issuing(t)
        BY <2>1, <2>2 DEF Busy
      <3>2. grant.refresh = task[t].new /\ \A tok \in answered : tok < task[t].new
        BY <1>1, <3>1
      <3>3. \A tok \in answered : tok < grant.refresh
        BY ONLY <3>2
      <3>4. \A tok \in answered : tok <= grant.refresh
        <4> SUFFICES ASSUME NEW tok \in answered PROVE tok <= grant.refresh
          OBVIOUS
        <4>1. tok \in Nat /\ grant.refresh \in Nat /\ tok < grant.refresh
          BY <3>3
        <4> QED
          BY ONLY <4>1
      <3> QED
        BY <1>3, <3>4
    <2>3. CASE \A t \in Task : ~Busy(t)
      BY <1>1, <1>3, <2>3
    <2> QED
      BY <2>2, <2>3
  <1> QED
    BY <1>4, <1>5, <1>6, <1>7 DEF Newest

RInv == Tokens /\ Newest

LEMMA QuietNewest ==
  ASSUME TypeOK, TypeOK', RInv, NEW t \in Task, QuietStep(t), Moves(t)
  PROVE  RInv'
  <1>1. \A u \in Task : Quiet(u)
    <2> SUFFICES ASSUME NEW u \in Task PROVE Quiet(u)
      OBVIOUS
    <2>1. CASE u = t
      BY <2>1, QuietSteps
    <2>2. CASE u # t
      BY <2>2, SameQuiet DEF Moves, TypeOK
    <2> QED
      BY <2>1, <2>2
  <1>2. \A u \in Task : Carries(u) /\ Stays(u) /\ (Issuing(u)' => Issuing(u))
    BY <1>1 DEF Quiet, Stays, Busy
  <1>3. UNCHANGED <<answered, grant, minted, grants>> /\ causes \subseteq causes'
    BY QuietRest
  <1>4. Tokens'
    BY <1>2, <1>3, FrameTokens DEF RInv, Tokens
  <1>5. Newest'
    BY <1>2, <1>3, FrameNewest, Numbers DEF RInv
  <1> QED
    BY <1>4, <1>5 DEF RInv

LEMMA FlyNewest ==
  ASSUME TypeOK, TypeOK', RInv, NEW p \in Replica, Fly(p)
  PROVE  RInv'
  <1>1. \A u \in Task : Carries(u) /\ ("refresh lost" \notin causes' => Stays(u))
    BY FlyQuiet
  <1>2. /\ UNCHANGED <<answered, minted, grants>> /\ causes \subseteq causes'
        /\ grant'.alive = grant.alive /\ grant'.refresh = grant.refresh
    BY FlyRest
  <1>3. ASSUME NEW u \in Task, Issuing(u)' PROVE Issuing(u)
    <2>1. task'[u] # Idle
      BY <1>3 DEF Issuing, Idle
    <2>2. CASE task'[u] = task[u]
      BY <1>3, <2>2 DEF Issuing
    <2>3. CASE task'[u] # task[u]
      <3>1. task'[u].at \in {"profile", "profile again", "delete access", "restore", "idle"}
        BY <2>1, <2>3, FlyMoves
      <3> QED
        BY <1>3, <3>1 DEF Issuing
    <2> QED
      BY <2>2, <2>3
  <1>4. Tokens'
    BY <1>1, <1>2, <1>3, FrameTokens DEF RInv, Tokens
  <1>5. Newest'
    BY <1>1, <1>2, FrameNewest, Numbers DEF RInv
  <1> QED
    BY <1>4, <1>5 DEF RInv

LEMMA EnvironmentNewest ==
  ASSUME TypeOK, TypeOK', RInv, UpstreamExpires \/ EndedEarly \/ Suspend \/ Expire \/ UNCHANGED vars
  PROVE  RInv'
  <1>1. UNCHANGED <<task, answered, minted, grants>> /\ causes \subseteq causes'
    BY DEF UpstreamExpires, EndedEarly, Suspend, Expire, Rest, History, vars
  <1>2. grant'.alive = grant.alive /\ grant'.refresh = grant.refresh
    <2>1. CASE UNCHANGED grant
      BY <2>1
    <2>2. CASE UpstreamExpires
      BY <2>2 DEF UpstreamExpires, TypeOK
    <2> QED
      BY <2>1, <2>2 DEF EndedEarly, Suspend, Expire, Database, vars
  <1>3. \A u \in Task : Quiet(u)
    BY <1>1, SameQuiet
  <1>4. \A u \in Task : Carries(u) /\ Stays(u) /\ (Issuing(u)' => Issuing(u))
    BY <1>3 DEF Quiet, Stays, Busy
  <1>5. Tokens'
    BY <1>1, <1>2, <1>4, FrameTokens DEF RInv, Tokens
  <1>6. Newest'
    BY <1>1, <1>2, <1>4, FrameNewest, Numbers DEF RInv
  <1> QED
    BY <1>5, <1>6 DEF RInv

LEMMA RequestNewest ==
  ASSUME TypeOK, TypeOK', RInv, NEW t \in Task, NEW p \in Replica, Request(t, p)
  PROVE  RInv'
  <1>1. PICK kind \in Kinds, tok \in 0..minted, d \in Decision :
          /\ kind \in {"refresh", "check", "revoke"} => tok \in answered
          /\ task' = [task EXCEPT ![t] = Call(kind, p, tok, d)]
    BY DEF Request
  <1>2. UNCHANGED <<answered, minted, grants, grant, causes>> /\ task[t].at = "idle"
    BY DEF Request, Database, Rest, History
  <1>3. task'[t] = Call(kind, p, tok, d) /\ \A u \in Task \ {t} : task'[u] = task[u]
    BY <1>1 DEF TypeOK
  <1>4. /\ task'[t].kind = kind /\ task'[t].tok = tok /\ task'[t].new = 0
        /\ task'[t].at = FirstStep(kind)
    BY <1>3 DEF Call
  <1>5. ~Issuing(t)' /\ ~Refreshing(t)' /\ ~Refreshing(t)
    BY <1>2, <1>4 DEF Issuing, Refreshing, FirstStep
  <1>6. TaskTokens(t)'
    <2>1. task'[t].new <= minted'
      BY <1>2, <1>4, Numbers
    <2>2. task'[t].kind = "refresh" => task'[t].tok \in answered'
      BY <1>1, <1>2, <1>4
    <2> QED
      BY <1>5, <2>1, <2>2 DEF TaskTokens
  <1>7. \A u \in Task : TaskTokens(u)'
    <2> SUFFICES ASSUME NEW u \in Task, u # t PROVE TaskTokens(u)'
      BY <1>6
    <2> QED
      BY <1>2, <1>3, SameTokens, Numbers DEF RInv
  <1>8. Tokens'
    BY <1>2, <1>7 DEF RInv, Tokens
  <1>9. \A u \in Task : Stays(u)
    <2>1. Stays(t)
      BY <1>5 DEF Stays, Busy
    <2>2. \A u \in Task \ {t} : Stays(u)
      BY <1>3, SameQuiet DEF Quiet
    <2> QED
      BY <2>1, <2>2
  <1>10. Newest'
    BY <1>2, <1>9, FrameNewest, Numbers DEF RInv
  <1> QED
    BY <1>8, <1>10 DEF RInv

\* A code is a new number, which no request but the one that makes it has.
LEMMA CodeNewest ==
  ASSUME TypeOK, TypeOK', RInv, NEW t \in Task, ApproveCode(t)
  PROVE  RInv'
  <1>1. UNCHANGED <<answered, grants, grant, causes>> /\ minted' = minted + 1 /\ task[t].kind = "approve"
    BY DEF ApproveCode, Mint, Rest, History, At
  <1>2. /\ task'[t].kind = "approve" /\ task'[t].new = minted'
        /\ \A u \in Task \ {t} : task'[u] = task[u]
    <2>1. task' = [task EXCEPT ![t] = [task[t] EXCEPT !.at = "result", !.new = minted']]
      BY DEF ApproveCode, GotoNew
    <2>2. task[t] \in TaskType
      BY DEF TypeOK
    <2> QED
      BY <1>1, <2>1, <2>2 DEF TypeOK, TaskType
  <1>3. ~Issuing(t)' /\ ~Refreshing(t)' /\ ~Refreshing(t)
    BY <1>1, <1>2 DEF Issuing, Refreshing
  <1>4. minted <= minted'
    BY <1>1, Numbers
  <1>5. TaskTokens(t)'
    BY <1>2, <1>3, Numbers DEF TaskTokens
  <1>6. \A u \in Task : TaskTokens(u)'
    <2> SUFFICES ASSUME NEW u \in Task, u # t PROVE TaskTokens(u)'
      BY <1>5
    <2> QED
      BY <1>1, <1>2, <1>4, SameTokens, Numbers DEF RInv
  <1>7. Tokens'
    <2>1. \A tok \in answered' : 0 < tok /\ tok <= minted'
      BY <1>1, Numbers DEF RInv, Tokens
    <2>2. grant'.refresh <= minted'
      BY <1>1, Numbers DEF RInv, Tokens
    <2>3. grants' = 0 => answered' = {} /\ ~grant'.alive
      BY <1>1 DEF RInv, Tokens
    <2> QED
      BY <1>6, <2>1, <2>2, <2>3 DEF Tokens
  <1>8. \A u \in Task : Stays(u)
    <2>1. Stays(t)
      BY <1>3 DEF Stays, Busy
    <2>2. \A u \in Task \ {t} : Stays(u)
      BY <1>2, SameQuiet DEF Quiet
    <2> QED
      BY <2>1, <2>2
  <1>9. Newest'
    BY <1>1, <1>8, FrameNewest, Numbers DEF RInv
  <1> QED
    BY <1>7, <1>9 DEF RInv

\* A step that stores or hands out a token is alone with it: no other request is
\* busy before or after.
LEMMA AloneNewest ==
  ASSUME NEW t \in Task, \A u \in Task \ {t} : task'[u] = task[u] /\ ~Busy(u),
         Issuing(t)' => /\ grant'.refresh = task'[t].new
                        /\ \A tok \in answered' : tok < task'[t].new,
         Refreshing(t)' /\ ~Issuing(t)' => /\ grant'.refresh = 0
                                           /\ \A tok \in answered' : tok <= task'[t].tok,
         ~Busy(t)' => \A tok \in answered' : tok <= grant'.refresh
  PROVE  Newest'
  <1>1. \A u \in Task : Busy(u)' => u = t
    BY DEF Busy, Refreshing, Issuing
  <1>2. \A u \in Task : (Issuing(u)' => u = t) /\ (Refreshing(u)' => u = t)
    BY <1>1 DEF Busy
  <1> QED
    BY <1>1, <1>2 DEF Newest

LEMMA DeadNewest == ASSUME ~grant'.alive PROVE Newest'
  BY DEF Newest

LEMMA InsertNewest ==
  ASSUME TypeOK, TypeOK', GInv, RInv, NEW t \in Task, ExchangeInsert(t)
  PROVE  RInv'
  <1>1. Inserting(t)
    BY DEF ExchangeInsert, Inserting, At
  <1>2. grants = 0 /\ grants' = 1
    BY <1>1 DEF GInv, OneCode, ExchangeInsert
  <1>3. answered = {} /\ answered' = {} /\ minted' = minted + 1 /\ grant'.refresh = minted'
    BY <1>2 DEF RInv, Tokens, ExchangeInsert, Mint
  <1>4. /\ task'[t].kind = "exchange" /\ task'[t].at = "issue" /\ task'[t].new = minted'
        /\ \A u \in Task \ {t} : task'[u] = task[u]
    <2>1. task' = [task EXCEPT ![t] = [task[t] EXCEPT !.at = "issue", !.new = minted']]
      BY DEF ExchangeInsert, GotoNew
    <2>2. task[t] \in TaskType /\ task[t].kind = "exchange"
      BY DEF TypeOK, ExchangeInsert, At
    <2> QED
      BY <2>1, <2>2 DEF TypeOK, TaskType
  <1>5. \A u \in Task : ~Issuing(u) /\ ~Refreshing(u)
    BY <1>2, <1>3 DEF RInv, Tokens, TaskTokens, Refreshing
  <1>6. TaskTokens(t)'
    <2>1. task'[t].new <= minted' /\ task'[t].new > 0
      BY <1>3, <1>4, Numbers
    <2> QED
      BY <1>2, <1>4, <2>1 DEF TaskTokens
  <1>7. \A u \in Task : TaskTokens(u)'
    <2> SUFFICES ASSUME NEW u \in Task, u # t PROVE TaskTokens(u)'
      BY <1>6
    <2>1. minted <= minted' /\ answered \subseteq answered' /\ grants' # 0
      BY <1>2, <1>3, Numbers
    <2> QED
      BY <1>4, <2>1, SameTokens, Numbers DEF RInv
  <1>8. Tokens'
    <2>1. grant'.refresh <= minted'
      BY <1>3, Numbers
    <2> QED
      BY <1>2, <1>3, <1>7, <2>1 DEF Tokens
  <1>9. Newest'
    <2>1. \A u \in Task : ~Busy(u)
      BY <1>5 DEF Busy
    <2>2. Issuing(t)' /\ Busy(t)'
      BY <1>4 DEF Issuing, Busy
    <2> QED
      BY <1>3, <1>4, <2>1, <2>2, AloneNewest
  <1> QED
    BY <1>8, <1>9 DEF RInv

LEMMA IssueNewest ==
  ASSUME TypeOK, TypeOK', RInv, NEW t \in Task, Issue(t)
  PROVE  RInv'
  <1>1. /\ UNCHANGED <<grant, minted, grants, causes>>
        /\ answered' = answered \cup {task[t].new} /\ Issuing(t)
    BY DEF Issue, History, Issuing
  <1>2. task'[t] = Idle /\ \A u \in Task \ {t} : task'[u] = task[u]
    BY DEF Issue, Done, TypeOK
  <1>3. task[t].new > 0 /\ grants # 0 /\ task[t].new <= minted
    BY <1>1 DEF RInv, Tokens, TaskTokens
  <1>4. ~Busy(t)' /\ task'[t].new = 0 /\ task'[t].kind = "callback"
    BY <1>2 DEF Idle, Busy, Refreshing, Issuing
  <1>5. \A u \in Task : TaskTokens(u)'
    <2>1. TaskTokens(t)'
      <3>1. task'[t].new <= minted'
        BY <1>4, Numbers
      <3> QED
        BY <1>4, <3>1 DEF TaskTokens, Busy
    <2> SUFFICES ASSUME NEW u \in Task, u # t PROVE TaskTokens(u)'
      BY <2>1
    <2> QED
      BY <1>1, <1>2, SameTokens, Numbers DEF RInv
  <1>6. Tokens'
    <2>1. \A tok \in answered' : 0 < tok /\ tok <= minted'
      BY <1>1, <1>3, Numbers DEF RInv, Tokens
    <2> QED
      BY <1>1, <1>3, <1>5, <2>1 DEF RInv, Tokens
  <1>7. Newest'
    <2> SUFFICES ASSUME grant'.alive, "refresh lost" \notin causes' PROVE Newest'
      BY DEF Newest
    <2>1. /\ \A u \in Task : Busy(u) => u = t
          /\ grant.refresh = task[t].new /\ \A tok \in answered : tok < task[t].new
      BY <1>1 DEF RInv, Newest, Busy
    <2>2. \A tok \in answered' : tok <= grant'.refresh
      <3> SUFFICES ASSUME NEW tok \in answered' PROVE tok <= grant'.refresh
        OBVIOUS
      <3>1. CASE tok = task[t].new
        <4>1. tok = grant'.refresh /\ grant'.refresh \in Nat
          BY <1>1, <2>1, <3>1, Numbers
        <4> QED
          BY ONLY <4>1
      <3>2. CASE tok \in answered
        <4>1. tok < task[t].new /\ grant'.refresh = task[t].new
          BY <1>1, <2>1, <3>2
        <4>2. tok \in Nat /\ task[t].new \in Nat
          BY Numbers
        <4> QED
          BY ONLY <4>1, <4>2
      <3> QED
        BY <1>1, <3>1, <3>2
    <2>3. ~Issuing(t)' /\ ~Refreshing(t)'
      BY <1>4 DEF Busy
    <2> QED
      BY <1>2, <1>4, <2>1, <2>2, <2>3, AloneNewest
  <1> QED
    BY <1>6, <1>7 DEF RInv

LEMMA ClaimNewest ==
  ASSUME TypeOK, TypeOK', RInv, NEW t \in Task, Claim(t), Moves(t)
  PROVE  RInv'
  <1>1. UNCHANGED <<answered, minted, grants, causes>> /\ task[t].kind = "refresh" /\ task[t].at = "claim"
    BY DEF Claim, Rest, History, At
  <1>2. \A u \in Task \ {t} : task'[u] = task[u]
    BY DEF Moves, TypeOK
  <1>3. ~Refreshing(t) /\ ~Issuing(t)
    BY <1>1 DEF Refreshing, Issuing
  <1>4. CASE ~(grant.alive /\ grant.refresh = task[t].tok)
    <2>1. Done(t) /\ UNCHANGED grant
      BY <1>4 DEF Claim
    <2>2. \A u \in Task : Quiet(u)
      <3>1. Quiet(t)
        BY <1>3, <2>1, DoneQuiet
      <3>2. \A u \in Task \ {t} : Quiet(u)
        BY <1>2, SameQuiet
      <3> QED
        BY <3>1, <3>2
    <2>3. \A u \in Task : Carries(u) /\ Stays(u) /\ (Issuing(u)' => Issuing(u))
      BY <2>2 DEF Quiet, Stays, Busy
    <2>4. Tokens'
      BY <1>1, <2>1, <2>3, FrameTokens DEF RInv, Tokens
    <2>5. Newest'
      BY <1>1, <2>1, <2>3, FrameNewest, Numbers DEF RInv
    <2> QED
      BY <2>4, <2>5 DEF RInv
  <1>5. CASE grant.alive /\ grant.refresh = task[t].tok
    <2>1. GotoRow(t, "upstream") /\ grant'.refresh = 0 /\ grant'.alive
      BY <1>5 DEF Claim, TypeOK
    <2>2. /\ task'[t].kind = "refresh" /\ task'[t].tok = task[t].tok
          /\ task'[t].new = task[t].new /\ task'[t].at = "upstream"
      BY <1>1, <2>1, GotoKeeps
    <2>3. \A u \in Task : Carries(u) /\ (Issuing(u)' => Issuing(u))
      <3>1. Carries(t) /\ ~Issuing(t)'
        BY <1>1, <2>2 DEF Carries, Issuing
      <3>2. \A u \in Task \ {t} : Carries(u) /\ (Issuing(u)' => Issuing(u))
        BY <1>2 DEF Carries, Issuing
      <3> QED
        BY <3>1, <3>2
    <2>4. Tokens'
      <3>1. grant'.refresh <= minted
        BY <2>1, Numbers
      <3> QED
        BY <1>1, <1>5, <2>3, <3>1, FrameTokens DEF RInv
    <2>5. Newest'
      <3> SUFFICES ASSUME grant'.alive, "refresh lost" \notin causes' PROVE Newest'
        BY DEF Newest
      <3>1. task[t].tok \in answered
        BY <1>1 DEF RInv, Tokens, TaskTokens
      <3>2. grant.refresh > 0
        BY <1>5, <3>1 DEF RInv, Tokens
      <3>3. \A u \in Task : ~Issuing(u)
        <4> SUFFICES ASSUME NEW u \in Task, Issuing(u) PROVE FALSE
          OBVIOUS
        <4>1. grant.refresh = task[u].new /\ \A tok \in answered : tok < task[u].new
          BY <1>1, <1>5 DEF RInv, Newest
        <4>2. grant.refresh < grant.refresh
          BY <1>5, <3>1, <4>1
        <4>3. grant.refresh \in Nat
          BY Numbers
        <4> QED
          BY ONLY <4>2, <4>3
      <3>4. \A u \in Task : ~Refreshing(u)
        <4> SUFFICES ASSUME NEW u \in Task, Refreshing(u) PROVE FALSE
          OBVIOUS
        <4>1. grant.refresh = 0
          BY <1>1, <1>5, <3>3 DEF RInv, Newest
        <4>2. 0 > 0
          BY ONLY <3>2, <4>1
        <4> QED
          BY ONLY <4>2
      <3>5. \A u \in Task : ~Busy(u)
        BY <3>3, <3>4 DEF Busy
      <3>6. \A tok \in answered' : tok <= task'[t].tok
        <4>1. \A tok \in answered : tok <= grant.refresh
          BY <1>1, <1>5, <3>5 DEF RInv, Newest
        <4> QED
          BY <1>1, <1>5, <2>2, <4>1
      <3>7. ~Issuing(t)' /\ Refreshing(t)' /\ Busy(t)'
        BY <2>2 DEF Issuing, Refreshing, Busy
      <3> QED
        BY <1>2, <2>1, <3>5, <3>6, <3>7, AloneNewest
    <2> QED
      BY <2>4, <2>5 DEF RInv
  <1> QED
    BY <1>4, <1>5

LEMMA RotateNewest ==
  ASSUME TypeOK, TypeOK', RInv, NEW t \in Task, Rotate(t), Moves(t)
  PROVE  RInv'
  <1>1. /\ UNCHANGED <<answered, grants, causes>> /\ minted' = minted + 1
        /\ task[t].kind = "refresh" /\ task[t].at = "rotate"
    BY DEF Rotate, Mint, Rest, History, At
  <1>2. \A u \in Task \ {t} : task'[u] = task[u]
    BY DEF Moves, TypeOK
  <1>3. /\ grant'.alive = grant.alive
        /\ grant'.refresh = IF grant.alive THEN minted' ELSE grant.refresh
    BY DEF Rotate, TypeOK
  <1>4. task'[t].kind = "refresh" /\ task'[t].at = "issue" /\ task'[t].new = minted' /\ task'[t].tok = task[t].tok
    <2>1. task' = [task EXCEPT ![t] = [task[t] EXCEPT !.at = "issue", !.new = minted']]
      BY DEF Rotate, GotoNew
    <2>2. task[t] \in TaskType
      BY DEF TypeOK
    <2> QED
      BY <1>1, <2>1, <2>2 DEF TypeOK, TaskType
  <1>5. task[t].tok \in answered /\ grants # 0
    BY <1>1 DEF RInv, Tokens, TaskTokens
  <1>6. minted <= minted' /\ minted' > 0
    BY <1>1, Numbers
  <1>7. \A u \in Task : TaskTokens(u)'
    <2>1. TaskTokens(t)'
      <3>1. task'[t].new <= minted' /\ task'[t].new > 0
        BY <1>4, <1>6, Numbers
      <3> QED
        BY <1>1, <1>4, <1>5, <3>1 DEF TaskTokens
    <2> SUFFICES ASSUME NEW u \in Task, u # t PROVE TaskTokens(u)'
      BY <2>1
    <2> QED
      BY <1>1, <1>2, <1>6, SameTokens, Numbers DEF RInv
  <1>8. Tokens'
    <2>1. \A tok \in answered' : 0 < tok /\ tok <= minted'
      BY <1>1, Numbers DEF RInv, Tokens
    <2>2. grant'.refresh <= minted'
      <3>1. grant.refresh <= minted
        BY DEF RInv, Tokens
      <3>2. grant'.refresh \in {minted', grant.refresh}
        BY <1>3
      <3> QED
        BY <1>1, <3>1, <3>2, Numbers
    <2> QED
      BY <1>1, <1>5, <1>7, <2>1, <2>2 DEF Tokens
  <1>9. Newest'
    <2> SUFFICES ASSUME grant'.alive, "refresh lost" \notin causes' PROVE Newest'
      BY DEF Newest
    <2>1. Busy(t)
      BY <1>1 DEF Busy, Refreshing
    <2>2. \A u \in Task : Busy(u) => u = t
      BY <1>1, <1>3, <2>1 DEF RInv, Newest
    <2>3. \A tok \in answered' : tok < task'[t].new
      <3> SUFFICES ASSUME NEW tok \in answered PROVE tok < minted'
        BY <1>1, <1>4
      <3>1. tok <= minted /\ tok \in Nat /\ minted \in Nat /\ minted' = minted + 1
        BY <1>1, Numbers DEF RInv, Tokens
      <3> QED
        BY ONLY <3>1
    <2>4. Issuing(t)' /\ Busy(t)' /\ grant'.refresh = task'[t].new
      BY <1>3, <1>4 DEF Issuing, Busy
    <2> QED
      BY <1>2, <2>2, <2>3, <2>4, AloneNewest
  <1> QED
    BY <1>8, <1>9 DEF RInv

LEMMA RestoreNewest ==
  ASSUME TypeOK, TypeOK', RInv, NEW t \in Task, Restore(t)
  PROVE  RInv'
  <1>1. /\ UNCHANGED <<answered, minted, grants, causes>>
        /\ task[t].kind = "refresh" /\ task[t].at = "restore"
    BY DEF Restore, Rest, History, At
  <1>2. task'[t] = Idle /\ \A u \in Task \ {t} : task'[u] = task[u]
    BY DEF Restore, Done, TypeOK
  <1>3. /\ grant'.alive = grant.alive
        /\ grant'.refresh = IF grant.alive /\ grant.refresh = 0 THEN task[t].tok ELSE grant.refresh
    BY DEF Restore, TypeOK
  <1>4. task[t].tok \in answered
    BY <1>1 DEF RInv, Tokens, TaskTokens
  <1>5. ~Issuing(t)' /\ ~Refreshing(t)' /\ ~Busy(t)'
    BY <1>2 DEF Idle, Issuing, Refreshing, Busy
  <1>6. Tokens'
    <2>1. grant'.refresh <= minted
      <3>1. grant.refresh <= minted /\ task[t].tok <= minted
        BY <1>4 DEF RInv, Tokens
      <3>2. grant'.refresh \in {task[t].tok, grant.refresh}
        BY <1>3
      <3> QED
        BY ONLY <3>1, <3>2
    <2>2. \A u \in Task : Carries(u) /\ (Issuing(u)' => Issuing(u))
      <3>1. Carries(t) /\ ~Issuing(t)'
        BY <1>2, <1>5 DEF Carries
      <3>2. \A u \in Task \ {t} : Carries(u) /\ (Issuing(u)' => Issuing(u))
        BY <1>2 DEF Carries, Issuing
      <3> QED
        BY <3>1, <3>2
    <2> QED
      BY <1>1, <1>3, <2>1, <2>2, FrameTokens DEF RInv
  <1>7. Newest'
    <2> SUFFICES ASSUME grant'.alive, "refresh lost" \notin causes' PROVE Newest'
      BY DEF Newest
    <2>1. Busy(t) /\ Refreshing(t) /\ ~Issuing(t)
      BY <1>1 DEF Busy, Refreshing, Issuing
    <2>2. grant.alive /\ "refresh lost" \notin causes
      BY <1>1, <1>3
    <2>3. \A u \in Task : Busy(u) => u = t
      BY <2>1, <2>2 DEF RInv, Newest
    <2>4. grant.refresh = 0 /\ \A tok \in answered : tok <= task[t].tok
      BY <2>1, <2>2 DEF RInv, Newest
    <2>5. \A tok \in answered' : tok <= grant'.refresh
      BY <1>1, <1>3, <2>2, <2>4
    <2> QED
      BY <1>2, <1>5, <2>3, <2>5, AloneNewest
  <1> QED
    BY <1>6, <1>7 DEF RInv

LEMMA RevokedNewest ==
  ASSUME TypeOK, TypeOK', RInv, NEW t \in Task, DeleteGrant(t)
  PROVE  RInv'
  <1>1. UNCHANGED <<answered, minted, grants>> /\ ~grant'.alive /\ grant'.refresh = 0
    BY DEF DeleteGrant, Rest, History, NoGrant
  <1>2. task'[t] = Idle /\ \A u \in Task \ {t} : task'[u] = task[u]
    BY DEF DeleteGrant, Done, TypeOK
  <1>3. \A u \in Task : Carries(u) /\ (Issuing(u)' => Issuing(u))
    <2>1. Carries(t) /\ ~Issuing(t)'
      BY <1>2 DEF Carries, Idle, Issuing
    <2>2. \A u \in Task \ {t} : Carries(u) /\ (Issuing(u)' => Issuing(u))
      BY <1>2 DEF Carries, Issuing
    <2> QED
      BY <2>1, <2>2
  <1>4. grant'.refresh <= minted
    BY <1>1, Numbers
  <1>5. Tokens'
    BY <1>1, <1>3, <1>4, FrameTokens DEF RInv
  <1> QED
    BY <1>1, <1>5, DeadNewest DEF RInv

\* The token the client was handed last is the one that the grant accepts, unless
\* a refresh has claimed it or a restart lost such a refresh.
THEOREM NewestTokenAccepted == Spec => []NewestAccepted
  <1>1. Init => RInv
    <2> SUFFICES ASSUME Init PROVE RInv
      OBVIOUS
    <2>1. /\ answered = {} /\ minted = 0 /\ ~grant.alive /\ grant.refresh = 0
          /\ \A t \in Task : task[t].new = 0 /\ task[t].at = "idle"
      BY DEF Init, Idle, NoGrant
    <2>2. \A t \in Task : TaskTokens(t)
      BY <2>1 DEF TaskTokens, Issuing
    <2>3. Tokens
      BY <2>1, <2>2 DEF Tokens
    <2>4. Newest
      BY <2>1 DEF Newest
    <2> QED
      BY <2>3, <2>4 DEF RInv
  <1>2. TypeOK /\ Placed /\ GInv /\ RInv /\ [Next]_vars => RInv'
    <2> SUFFICES ASSUME TypeOK, Placed, GInv, RInv, [Next]_vars PROVE RInv'
      OBVIOUS
    <2>1. TypeOK'
      BY NextTyped
    <2>2. ASSUME NEW t \in Task, Step(t) PROVE RInv'
      <3>1. Moves(t)
        BY <2>2, StepMoves
      <3>2. CASE \E p \in Replica : Request(t, p)
        BY <2>1, <3>2, RequestNewest
      <3>3. CASE QuietStep(t)
        BY <2>1, <3>1, <3>3, QuietNewest
      <3>4. CASE ApproveCode(t) \/ ExchangeInsert(t) \/ Issue(t)
        BY <2>1, <3>4, CodeNewest, InsertNewest, IssueNewest
      <3>5. CASE Claim(t) \/ Rotate(t) \/ Restore(t) \/ DeleteGrant(t)
        BY <2>1, <3>1, <3>5, ClaimNewest, RotateNewest, RestoreNewest, RevokedNewest
      <3> QED
        BY <2>2, <3>2, <3>3, <3>4, <3>5 DEF Step, QuietStep
    <2>3. ASSUME NEW p \in Replica, Fly(p) PROVE RInv'
      BY <2>1, <2>3, FlyNewest
    <2> QED
      BY <2>1, <2>2, <2>3, EnvironmentNewest DEF Next
  <1>3. TypeOK /\ RInv => NewestAccepted
    <2> SUFFICES ASSUME TypeOK, RInv, grant.alive, "refresh lost" \notin causes,
                        \A t \in Task : ~Refreshing(t)
                 PROVE  \A tok \in answered : tok <= grant.refresh
      BY DEF NewestAccepted
    <2>1. CASE \A t \in Task : ~Busy(t)
      BY <2>1 DEF RInv, Newest
    <2>2. CASE \E t \in Task : Issuing(t)
      <3>1. \A tok \in answered : tok < grant.refresh
        BY <2>2 DEF RInv, Newest
      <3>2. grant.refresh \in Nat /\ answered \subseteq Nat
        BY NFacts DEF TypeOK
      <3> QED
        BY ONLY <3>1, <3>2
    <2> QED
      BY <2>1, <2>2 DEF Busy
  <1> QED
    BY <1>1, <1>2, <1>3, GInvHolds, PTL DEF Spec

-----------------------------------------------------------------------------
(* A sign-in ends for a reason.  The provider's access token that the grant *)
(* holds is accepted for as long as it is fresh; a request goes to the      *)
(* provider a second time with a row that is; the flight that fetches has   *)
(* the refresh token that the provider accepts.                             *)

Reason == causes \ {"refresh lost"} # {}

\* Steps of a request on its way to the provider.
Asks(t)   == task[t].at \in Asking
Forced(t) == task[t].at = "await forced"
Again(t)  == task[t].at = "profile again"
Awaits(t) == task[t].at \in {"await", "await forced"}
Live(t)   == task[t].at # "idle"
Ending(t) == task[t].at \in {"delete access", "delete grant"}

Ends ==
  /\ grants # 0 /\ ~grant.alive => Reason
  /\ \A t \in Task : Ending(t) => Reason
  /\ ~provider.allowed => Reason
  /\ grants = 0 => /\ provider.access = 1 /\ (provider.oldest = 1 \/ Reason)
                   /\ \A t \in Task : task[t].row.up = 0

Held ==
  /\ provider.oldest <= provider.access + 1
  /\ 0 < grant.row.up /\ grant.row.up <= provider.access
  /\ grant.row.fresh /\ (provider.rotates => \A p \in Replica : flight[p].at # "store") =>
       provider.oldest <= grant.row.up

\* A request whose row is not the grant's began before the grant's was fetched.
TaskSound(t) ==
  /\ task[t].row.up <= provider.access
  /\ Asks(t) => 0 < task[t].row.up
  /\ Live(t) /\ task[t].row.up \notin {0, grant.row.up} => grant.row.fresh
  /\ Forced(t) => task[t].row.up < provider.oldest
  /\ Again(t) => grant.row.fresh /\ provider.oldest <= task[t].row.up
  /\ Again(t) /\ provider.rotates => \A p \in Replica : flight[p].at \notin {"fetch", "store"}

\* A flight is awaited by the request that began it, with the row it had then.
FlightSound(p) ==
  /\ flight[p].at # "none" => \E u \in Waiters(p) :
       task[u].row.up = flight[p].base /\ (flight[p].force => Forced(u))
  /\ flight[p].at = "fetch" => flight[p].row.upr = provider.refresh
  /\ flight[p].at = "store" =>
       /\ provider.oldest <= flight[p].row.up /\ flight[p].row.up <= provider.access
       /\ flight[p].base < flight[p].row.up /\ flight[p].row.fresh

AllSound == /\ Held
            /\ \A t \in Task : TaskSound(t)
            /\ \A p \in Replica : FlightSound(p)
Sound == grant.alive /\ ~Reason => AllSound

EInv == Ends /\ Sound

LEMMA ReasonStays == ASSUME causes \subseteq causes', Reason PROVE Reason'
  BY DEF Reason

LEMMA ReasonNow == ASSUME NEW c \in causes', c # "refresh lost" PROVE Reason'
  <1>1. c \in causes' \ {"refresh lost"}
    OBVIOUS
  <1> QED
    BY <1>1 DEF Reason

LEMMA UpNumbers ==
  ASSUME TypeOK
  PROVE  /\ provider.oldest \in Nat /\ provider.access \in Nat
         /\ grant.row.up \in Nat
         /\ \A u \in Task : task[u].row.up \in Nat
         /\ \A p \in Replica : flight[p].row.up \in Nat /\ flight[p].base \in Nat
  <1>1. provider.oldest \in 1..(MaxMinted + 1) /\ provider.access \in N
    BY DEF TypeOK
  <1>2. grant.row.up \in N
    BY DEF TypeOK, Row
  <1>3. \A u \in Task : task[u].row.up \in N
    BY DEF TypeOK, TaskType, Row
  <1>4. \A p \in Replica : flight[p].row.up \in N /\ flight[p].base \in N
    BY DEF TypeOK, FlightType, Row
  <1>5. provider.oldest \in Nat
    BY ONLY <1>1, NFacts
  <1> QED
    BY ONLY <1>1, <1>2, <1>3, <1>4, <1>5, NFacts

\* A request that keeps its row, or has none.
Settles(u) ==
  \/ task'[u].row.up = 0 /\ ~Asks(u)' /\ ~Forced(u)' /\ ~Again(u)'
  \/ /\ task'[u].row = task[u].row /\ ~Forced(u)' /\ ~Again(u)'
     /\ Asks(u)' => Asks(u)
     /\ Live(u)' => Live(u)
  \/ task'[u] = task[u]

NoFetch == \A p \in Replica : flight'[p].at \in {"fetch", "store"} => flight[p].at \in {"fetch", "store"}

LEMMA SettledSound ==
  ASSUME TypeOK, NEW u \in Task, TaskSound(u), Settles(u), NoFetch,
         UNCHANGED <<provider, grant.row>>
  PROVE  TaskSound(u)'
  <1>1. task'[u].row.up <= provider'.access
    <2>1. task'[u].row.up \in {0, task[u].row.up} /\ task[u].row.up <= provider.access
      BY DEF Settles, TaskSound
    <2>2. provider'.access = provider.access /\ provider.access \in Nat
      BY UpNumbers
    <2> QED
      BY ONLY <2>1, <2>2
  <1>2. Asks(u)' => 0 < task'[u].row.up
    BY DEF Settles, TaskSound, Asks
  <1>3. Live(u)' /\ task'[u].row.up \notin {0, grant'.row.up} => grant'.row.fresh
    BY DEF Settles, TaskSound, Live
  <1>4. CASE task'[u] = task[u]
    <2>1. (Forced(u)' <=> Forced(u)) /\ (Again(u)' <=> Again(u))
      BY <1>4 DEF Forced, Again
    <2>2. Forced(u)' => task'[u].row.up < provider'.oldest
      BY <1>4, <2>1 DEF TaskSound
    <2>3. Again(u)' => grant'.row.fresh /\ provider'.oldest <= task'[u].row.up
      BY <1>4, <2>1 DEF TaskSound
    <2>4. Again(u)' /\ provider'.rotates => \A p \in Replica : flight'[p].at \notin {"fetch", "store"}
      BY <2>1 DEF TaskSound, NoFetch
    <2> QED
      BY <1>1, <1>2, <1>3, <2>2, <2>3, <2>4 DEF TaskSound
  <1>5. CASE task'[u] # task[u]
    <2>1. ~Forced(u)' /\ ~Again(u)'
      BY <1>5 DEF Settles
    <2> QED
      BY <1>1, <1>2, <1>3, <2>1 DEF TaskSound
  <1> QED
    BY <1>4, <1>5

\* What a step makes of its request.
LEMMA DoneSettles == ASSUME TypeOK, NEW t \in Task, Done(t) PROVE Settles(t) /\ ~Ending(t)'
  <1>1. task'[t] = Idle
    BY DEF Done, TypeOK
  <1>2. task'[t].row.up = 0 /\ task'[t].at = "idle"
    BY <1>1 DEF Idle, NoRow
  <1> QED
    BY <1>2 DEF Settles, Asks, Forced, Again, Ending, Asking

LEMMA GotoRowKept ==
  ASSUME TypeOK, NEW t \in Task, NEW at, Goto(t, at) \/ GotoNew(t, at)
  PROVE  task'[t].row = task[t].row /\ task'[t].at = at /\ task'[t].on = task[t].on
  <1>1. task[t] \in TaskType
    BY DEF TypeOK
  <1>2. CASE Goto(t, at)
    BY <1>1, <1>2 DEF Goto, TypeOK, TaskType
  <1>3. CASE GotoNew(t, at)
    BY <1>1, <1>3 DEF GotoNew, TypeOK, TaskType
  <1> QED
    BY <1>2, <1>3

Quietly == Places \ (Asking \cup {"delete access", "delete grant"})

\* To a place that has no part in asking the provider or in ending the grant.
LEMMA GotoSettles ==
  ASSUME TypeOK, NEW t \in Task, NEW at \in Quietly, Goto(t, at) \/ GotoNew(t, at), Live(t)
  PROVE  Settles(t) /\ ~Ending(t)'
  <1>1. task'[t].row = task[t].row /\ task'[t].at = at
    BY GotoRowKept
  <1>2. ~Asks(t)' /\ ~Forced(t)' /\ ~Again(t)' /\ ~Ending(t)'
    BY <1>1 DEF Quietly, Asks, Forced, Again, Ending, Asking
  <1> QED
    BY <1>1, <1>2 DEF Settles

LEMMA EndingSettles ==
  ASSUME TypeOK, NEW t \in Task, Goto(t, "delete access") \/ Goto(t, "delete grant"), Live(t)
  PROVE  Settles(t)
  <1>1. task'[t].row = task[t].row /\ task'[t].at \in {"delete access", "delete grant"}
    <2>1. CASE Goto(t, "delete access")
      BY <2>1, GotoRowKept
    <2>2. CASE Goto(t, "delete grant")
      BY <2>2, GotoRowKept
    <2> QED
      BY <2>1, <2>2
  <1>2. ~Asks(t)' /\ ~Forced(t)' /\ ~Again(t)'
    BY <1>1 DEF Asks, Forced, Again, Asking
  <1> QED
    BY <1>1, <1>2 DEF Settles

LEMMA AskingSettles ==
  ASSUME TypeOK, NEW t \in Task, Goto(t, "await") \/ Goto(t, "profile"), Asks(t), Live(t)
  PROVE  Settles(t) /\ ~Ending(t)'
  <1>1. task'[t].row = task[t].row /\ task'[t].at \in {"await", "profile"}
    <2>1. CASE Goto(t, "await")
      BY <2>1, GotoRowKept
    <2>2. CASE Goto(t, "profile")
      BY <2>2, GotoRowKept
    <2> QED
      BY <2>1, <2>2
  <1>2. ~Forced(t)' /\ ~Again(t)' /\ ~Ending(t)'
    BY <1>1 DEF Forced, Again, Ending
  <1> QED
    BY <1>1, <1>2 DEF Settles

\* A request that finds the grant, and one whose row the provider did not accept.
Finds(t) == grant.alive /\ GotoRow(t, "upstream")
Insists(t) == Asks(t) /\ ~Accepted(task[t].row) /\ Await(t, task[t].on, TRUE)
\* The reasons for which a request ends the grant.
EndsIt(t) == \/ Ending(t)
             \/ "revoked" \in causes'
             \/ Asks(t) /\ ~provider.allowed
             \/ Asks(t) /\ Again(t) /\ ~Accepted(task[t].row)

LEMMA StepShape ==
  ASSUME TypeOK, NEW t \in Task, Step(t)
  PROVE  /\ Settles(t) \/ Finds(t) \/ Insists(t)
         /\ Ending(t)' => EndsIt(t)
  <1> DEFINE Shape == /\ Settles(t) \/ Finds(t) \/ Insists(t)
                      /\ Ending(t)' => EndsIt(t)
  <1> SUFFICES Shape
    OBVIOUS
  <1>d. ASSUME Done(t) PROVE Shape
    BY <1>d, DoneSettles
  <1>g. ASSUME NEW at \in Quietly, Goto(t, at) \/ GotoNew(t, at), Live(t) PROVE Shape
    BY <1>g, GotoSettles
  <1>e. ASSUME Goto(t, "delete access") \/ Goto(t, "delete grant"), Live(t), EndsIt(t) PROVE Shape
    BY <1>e, EndingSettles
  <1>a. ASSUME Goto(t, "await") \/ Goto(t, "profile"), Asks(t), Live(t) PROVE Shape
    BY <1>a, AskingSettles
  <1>f. ASSUME Finds(t) PROVE Shape
    <2>1. task'[t].at = "upstream"
      BY <1>f, GotoAt DEF Finds
    <2> QED
      BY <1>f, <2>1 DEF Ending
  <1>i. ASSUME Insists(t) PROVE Shape
    <2>1. Goto(t, "await forced")
      BY <1>i DEF Insists, Await
    <2>2. task'[t].at = "await forced"
      BY <2>1, GotoAt
    <2> QED
      BY <1>i, <2>2 DEF Ending
  <1> HIDE DEF Shape
  <1> DEFINE Some == \E at \in Quietly : Goto(t, at) \/ GotoNew(t, at)
  <1>s. ASSUME Some, Live(t) PROVE Shape
    BY <1>g, <1>s
  <1>q. \A at \in {"put", "code", "result", "insert", "issue", "rotate", "restore", "idle"} : at \in Quietly
    BY DEF Quietly, Places, Asking
  <1>1. CASE \E p \in Replica : Request(t, p)
    <2>1. PICK p \in Replica, kind \in Kinds, tok \in 0..minted, d \in Decision :
            task' = [task EXCEPT ![t] = Call(kind, p, tok, d)]
      BY <1>1 DEF Request
    <2>2. task'[t] = Call(kind, p, tok, d)
      BY <2>1 DEF TypeOK
    <2>3. task'[t].row.up = 0 /\ task'[t].at \in {"take", "claim", "select"}
      BY <2>2 DEF Call, NoRow, FirstStep
    <2>4. ~Asks(t)' /\ ~Forced(t)' /\ ~Again(t)' /\ ~Ending(t)'
      BY <2>3 DEF Asks, Forced, Again, Ending, Asking
    <2> QED
      BY <2>3, <2>4 DEF Settles, Shape
  <1>2. CASE CallbackTake(t) \/ CallbackPut(t) \/ ApproveTake(t) \/ ApproveAgain(t)
             \/ ApproveCode(t) \/ ApproveResult(t)
    <2>1. Live(t)
      BY <1>2 DEF Live, At, CallbackTake, CallbackPut, ApproveTake, ApproveAgain, ApproveCode,
         ApproveResult
    <2>2. Done(t) \/ Goto(t, "put") \/ Goto(t, "code") \/ Goto(t, "result") \/ GotoNew(t, "result")
      BY <1>2 DEF CallbackTake, CallbackPut, ApproveTake, ApproveAgain, ApproveCode, ApproveResult
    <2>3. Done(t) \/ Some
      BY <1>q, <2>2
    <2> QED
      BY <1>d, <1>s, <2>1, <2>3
  <1>3. CASE ExchangeTake(t) \/ ExchangeInsert(t) \/ Issue(t) \/ Rotate(t) \/ Restore(t) \/ DeleteGrant(t)
    <2>1. Live(t)
      BY <1>3 DEF Live, At, ExchangeTake, ExchangeInsert, Issue, Rotate, Restore, DeleteGrant
    <2>2. Done(t) \/ Goto(t, "insert") \/ GotoNew(t, "issue")
      BY <1>3 DEF ExchangeTake, ExchangeInsert, Issue, Rotate, Restore, DeleteGrant
    <2>3. Done(t) \/ Some
      BY <1>q, <2>2
    <2> QED
      BY <1>d, <1>s, <2>1, <2>3
  <1>4. CASE Claim(t) \/ CheckSelect(t)
    <2>1. Done(t) \/ Finds(t)
      BY <1>4 DEF Claim, CheckSelect, Finds
    <2> QED
      BY <1>d, <1>f, <2>1
  <1>5. CASE RevokeSelect(t)
    <2>1. Live(t)
      BY <1>5 DEF Live, At, RevokeSelect
    <2>2. Done(t) \/ (Goto(t, "delete access") /\ "revoked" \in causes')
      BY <1>5 DEF RevokeSelect
    <2> QED
      BY <1>d, <1>e, <2>1, <2>2 DEF EndsIt
  <1>6. CASE DeleteAccess(t)
    <2>1. Live(t) /\ Ending(t) /\ Goto(t, "delete grant")
      BY <1>6 DEF Live, Ending, DeleteAccess
    <2> QED
      BY <1>e, <2>1 DEF EndsIt
  <1>7. CASE Upstream(t)
    <2>1. Live(t) /\ Asks(t)
      BY <1>7 DEF Live, Asks, Asking, Upstream
    <2>2. Goto(t, "profile") \/ Goto(t, "await")
      BY <1>7 DEF Upstream, Await
    <2> QED
      BY <1>a, <2>1, <2>2
  <1>8. CASE Profile(t)
    <2>1. Live(t) /\ Asks(t) /\ (task[t].at # "profile" => Again(t))
      BY <1>8 DEF Live, Asks, Asking, Profile, Again
    <2>2. CASE ~Accepted(task[t].row)
      <3>1. CASE task[t].at = "profile"
        BY <1>8, <1>i, <2>1, <2>2, <3>1 DEF Profile, Insists
      <3>2. CASE task[t].at # "profile"
        <4>1. Goto(t, "delete access")
          BY <1>8, <2>2, <3>2 DEF Profile, Refused
        <4>2. EndsIt(t)
          BY <2>1, <2>2, <3>2 DEF EndsIt
        <4> QED
          BY <1>e, <2>1, <4>1, <4>2
      <3> QED
        BY <3>1, <3>2
    <2>3. CASE Accepted(task[t].row)
      <3>1. \/ ~provider.allowed /\ Goto(t, "delete access")
            \/ Goto(t, "rotate")
            \/ Done(t)
        BY <1>8, <2>3 DEF Profile, Refused
      <3>2. ~provider.allowed => EndsIt(t)
        BY <2>1 DEF EndsIt
      <3>3. Goto(t, "rotate") => Some
        BY <1>q
      <3> QED
        BY <1>d, <1>e, <1>s, <2>1, <3>1, <3>2, <3>3
    <2> QED
      BY <2>2, <2>3
  <1>9. CASE ProfileUnavailable(t)
    <2>1. Live(t)
      BY <1>9 DEF Live, ProfileUnavailable
    <2>2. Goto(t, "restore") \/ Goto(t, "idle")
      BY <1>9 DEF ProfileUnavailable, Unavailable
    <2>3. Some
      BY <1>q, <2>2
    <2> QED
      BY <1>s, <2>1, <2>3
  <1> QED
    BY <1>1, <1>2, <1>3, <1>4, <1>5, <1>6, <1>7, <1>8, <1>9 DEF Step

\* What a step other than the first of a grant and its last leaves alone.
LEMMA StepLeaves ==
  ASSUME TypeOK, NEW t \in Task, Step(t)
  PROVE  /\ UNCHANGED provider /\ causes \subseteq causes'
         /\ ~ExchangeInsert(t) =>
              /\ UNCHANGED grants
              /\ grant'.alive => grant.alive /\ grant'.row = grant.row
              /\ grant.alive /\ ~grant'.alive => Ending(t)
         /\ flight' = flight \/ (Asks(t) /\ \E force \in BOOLEAN : Await(t, task[t].on, force))
  <1>1. UNCHANGED provider /\ causes \subseteq causes'
    BY DEF Step, Request, CallbackTake, CallbackPut, ApproveTake, ApproveAgain, ApproveCode,
       ApproveResult, ExchangeTake, ExchangeInsert, Issue, Claim, Rotate, Restore, CheckSelect,
       RevokeSelect, DeleteAccess, DeleteGrant, Upstream, Profile, ProfileUnavailable, Rest, History
  <1>2. ASSUME ~ExchangeInsert(t) PROVE UNCHANGED grants
    BY <1>2 DEF Step, Request, CallbackTake, CallbackPut, ApproveTake, ApproveAgain, ApproveCode,
       ApproveResult, ExchangeTake, Issue, Claim, Rotate, Restore, CheckSelect,
       RevokeSelect, DeleteAccess, DeleteGrant, Upstream, Profile, ProfileUnavailable, Rest, History
  <1>3. ASSUME ~ExchangeInsert(t)
        PROVE  /\ grant'.alive => grant.alive /\ grant'.row = grant.row
               /\ grant.alive /\ ~grant'.alive => Ending(t)
    <2>1. CASE UNCHANGED grant
      BY <2>1
    <2>2. CASE Claim(t)
      BY <2>2 DEF Claim, TypeOK
    <2>3. CASE Rotate(t)
      BY <2>3 DEF Rotate, TypeOK
    <2>4. CASE Restore(t)
      BY <2>4 DEF Restore, TypeOK
    <2>5. CASE DeleteGrant(t)
      BY <2>5 DEF DeleteGrant, NoGrant, Ending
    <2> QED
      BY <1>3, <2>1, <2>2, <2>3, <2>4, <2>5 DEF Step, Request, CallbackTake, CallbackPut,
         ApproveTake, ApproveAgain, ApproveCode, ApproveResult, ExchangeTake, Issue, CheckSelect,
         RevokeSelect, DeleteAccess, Upstream, Profile, ProfileUnavailable, Database
  <1>4. flight' = flight \/ (Asks(t) /\ \E force \in BOOLEAN : Await(t, task[t].on, force))
    <2>1. CASE Upstream(t)
      BY <2>1 DEF Upstream, Asks, Asking
    <2>2. CASE Profile(t)
      BY <2>2 DEF Profile, Asks, Asking
    <2> QED
      BY <2>1, <2>2 DEF Step, Request, CallbackTake, CallbackPut, ApproveTake, ApproveAgain,
         ApproveCode, ApproveResult, ExchangeTake, ExchangeInsert, Issue, Claim, Rotate, Restore,
         CheckSelect, RevokeSelect, DeleteAccess, DeleteGrant, ProfileUnavailable, Rest
  <1> QED
    BY <1>1, <1>2, <1>3, <1>4

\* A request that awaits a flight has no step of its own.
LEMMA AwaitsFlight ==
  ASSUME NEW t \in Task, Step(t)
  PROVE  ~Awaits(t)
  BY DEF Awaits, Step, Request, CallbackTake, CallbackPut, ApproveTake, ApproveAgain, ApproveCode,
     ApproveResult, ExchangeTake, ExchangeInsert, Issue, Claim, Rotate, Restore, CheckSelect,
     RevokeSelect, DeleteAccess, DeleteGrant, Upstream, Profile, ProfileUnavailable, At

\* The flight that a request begins, or joins.
LEMMA AwaitBegins ==
  ASSUME TypeOK, Placed, NEW t \in Task, NEW force \in BOOLEAN, Await(t, task[t].on, force), Asks(t)
  PROVE  /\ task'[t].row = task[t].row /\ task'[t].on = task[t].on /\ task[t].on \in Replica
         /\ Awaits(t)' /\ (force => Forced(t)')
         /\ \A p \in Replica :
              \/ flight'[p] = flight[p]
              \/ /\ p = task[t].on /\ flight[p].at = "none" /\ flight'[p].at = "read"
                 /\ flight'[p].base = task[t].row.up /\ flight'[p].force = force
  <1>1. task[t].on \in Replica
    BY DEF Placed, Asks, Asking
  <1>2. /\ task'[t].row = task[t].row /\ task'[t].on = task[t].on
        /\ Awaits(t)' /\ (force => Forced(t)')
    <2>1. CASE force
      <3>1. Goto(t, "await forced")
        BY <2>1 DEF Await
      <3> QED
        BY <3>1, GotoRowKept DEF Awaits, Forced
    <2>2. CASE ~force
      <3>1. Goto(t, "await")
        BY <2>2 DEF Await
      <3> QED
        BY <2>2, <3>1, GotoRowKept DEF Awaits
    <2> QED
      BY <2>1, <2>2
  <1>3. ASSUME NEW p \in Replica
        PROVE  \/ flight'[p] = flight[p]
               \/ /\ p = task[t].on /\ flight[p].at = "none" /\ flight'[p].at = "read"
                  /\ flight'[p].base = task[t].row.up /\ flight'[p].force = force
    <2>1. CASE flight[task[t].on].at # "none"
      BY <2>1 DEF Await
    <2>2. CASE flight[task[t].on].at = "none"
      <3> DEFINE f == [at |-> "read", force |-> force, base |-> task[t].row.up, row |-> NoRow]
      <3>1. flight' = [flight EXCEPT ![task[t].on] = f]
        BY <2>2 DEF Await
      <3>2. f.at = "read" /\ f.base = task[t].row.up /\ f.force = force
        OBVIOUS
      <3> HIDE DEF f
      <3>3. CASE p = task[t].on
        BY <2>2, <3>1, <3>2, <3>3 DEF TypeOK
      <3>4. CASE p # task[t].on
        BY <3>1, <3>4 DEF TypeOK
      <3> QED
        BY <3>3, <3>4
    <2> QED
      BY <2>1, <2>2
  <1> QED
    BY <1>1, <1>2, <1>3

\* A flight that goes on with the requests that await it.
LEMMA KeptFlight ==
  ASSUME NEW p \in Replica, FlightSound(p), flight'[p] = flight[p],
         \A u \in Waiters(p) : task'[u] = task[u],
         flight[p].at = "fetch" => provider'.refresh = provider.refresh,
         flight[p].at = "store" => /\ provider'.oldest <= flight[p].row.up
                                   /\ flight[p].row.up <= provider'.access
  PROVE  FlightSound(p)'
  <1>1. ASSUME flight'[p].at # "none"
        PROVE  \E u \in Waiters(p)' : task'[u].row.up = flight'[p].base /\ (flight'[p].force => Forced(u)')
    <2>1. PICK u \in Waiters(p) : task[u].row.up = flight[p].base /\ (flight[p].force => Forced(u))
      BY <1>1 DEF FlightSound
    <2>2. task'[u] = task[u]
      BY <2>1
    <2>3. u \in Waiters(p)'
      BY <2>1, <2>2 DEF Waiters
    <2>4. Forced(u)' <=> Forced(u)
      BY <2>2 DEF Forced
    <2> QED
      BY <2>1, <2>2, <2>3, <2>4
  <1>2. flight'[p].at = "fetch" => flight'[p].row.upr = provider'.refresh
    BY DEF FlightSound
  <1>3. flight'[p].at = "store" =>
       /\ provider'.oldest <= flight'[p].row.up /\ flight'[p].row.up <= provider'.access
       /\ flight'[p].base < flight'[p].row.up /\ flight'[p].row.fresh
    BY DEF FlightSound
  <1> QED
    BY <1>1, <1>2, <1>3 DEF FlightSound

LEMMA StepEnds ==
  ASSUME TypeOK, Placed, SInv, EInv, NEW t \in Task, Step(t), ~ExchangeInsert(t)
  PROVE  Ends'
  <1>1. /\ UNCHANGED <<provider, grants>> /\ (Reason => Reason')
        /\ grant.alive /\ ~grant'.alive => Ending(t)
    BY StepLeaves, ReasonStays
  <1>2. \A u \in Task \ {t} : task'[u] = task[u]
    BY StepMoves DEF Moves, TypeOK
  <1>3. \A u \in Task : Ending(u) => Reason
    BY DEF EInv, Ends
  <1>4. Ending(t)' => Reason'
    <2> SUFFICES ASSUME Ending(t)', ~Reason' PROVE FALSE
      OBVIOUS
    <2>1. EndsIt(t)
      BY StepShape
    <2>2. ~Ending(t) /\ provider.allowed
      BY <1>1, <1>3 DEF EInv, Ends
    <2>3. "revoked" \notin causes'
      <3>1. "revoked" \in causes' => Reason'
        BY ReasonNow
      <3> QED
        BY <3>1
    <2>4. Asks(t) /\ Again(t) /\ ~Accepted(task[t].row)
      BY ONLY <2>1, <2>2, <2>3 DEF EndsIt
    <2>5. grants # 0
      BY <2>4 DEF SInv, NotYet, Asks
    <2>6. grant.alive /\ ~Reason
      BY <1>1, <2>5 DEF EInv, Ends
    <2>7. TaskSound(t)
      BY <2>6 DEF EInv, Sound, AllSound
    <2>8. provider.oldest <= task[t].row.up /\ task[t].row.up <= provider.access
      BY ONLY <2>4, <2>7 DEF TaskSound
    <2> QED
      BY ONLY <2>4, <2>8 DEF Accepted
  <1>5. \A u \in Task : Ending(u)' => Reason'
    <2> SUFFICES ASSUME NEW u \in Task, u # t, Ending(u)' PROVE Reason'
      BY <1>4
    <2>1. Ending(u)
      BY <1>2 DEF Ending
    <2> QED
      BY <1>1, <1>3, <2>1
  <1>6. grants' # 0 /\ ~grant'.alive => Reason'
    BY <1>1, <1>3 DEF EInv, Ends
  <1>7. ~provider'.allowed => Reason'
    BY <1>1 DEF EInv, Ends
  <1>8. grants' = 0 => /\ provider'.access = 1 /\ (provider'.oldest = 1 \/ Reason')
                       /\ \A u \in Task : task'[u].row.up = 0
    <2> SUFFICES ASSUME grants' = 0
                 PROVE  /\ provider'.access = 1 /\ (provider'.oldest = 1 \/ Reason')
                        /\ \A u \in Task : task'[u].row.up = 0
      OBVIOUS
    <2>1. /\ provider.access = 1 /\ (provider.oldest = 1 \/ Reason)
          /\ \A u \in Task : task[u].row.up = 0
      BY <1>1 DEF EInv, Ends
    <2>2. ~grant.alive /\ ~Asks(t)
      BY <1>1 DEF SInv, NotYet, Asks
    <2>3. Settles(t)
      BY <2>2, StepShape DEF Finds, Insists
    <2>4. task'[t].row.up = 0
      BY <2>1, <2>3 DEF Settles
    <2> QED
      BY <1>1, <1>2, <2>1, <2>4
  <1> QED
    BY <1>5, <1>6, <1>7, <1>8 DEF Ends

LEMMA StepSound ==
  ASSUME TypeOK, Placed, SInv, EInv, NEW t \in Task, Step(t), ~ExchangeInsert(t)
  PROVE  Sound'
  <1> SUFFICES ASSUME grant'.alive, ~Reason' PROVE AllSound'
    BY DEF Sound
  <1>1. /\ UNCHANGED provider /\ grant.alive /\ UNCHANGED grant.row /\ ~Reason
        /\ flight' = flight \/ (Asks(t) /\ \E force \in BOOLEAN : Await(t, task[t].on, force))
    BY StepLeaves, ReasonStays
  <1>2. Held /\ (\A u \in Task : TaskSound(u)) /\ (\A p \in Replica : FlightSound(p))
    BY <1>1 DEF EInv, Sound, AllSound
  <1>3. \A u \in Task \ {t} : task'[u] = task[u]
    BY StepMoves DEF Moves, TypeOK
  <1>4. ~Awaits(t)
    BY AwaitsFlight
  <1>5. ASSUME NEW p \in Replica
        PROVE  \/ flight'[p] = flight[p]
               \/ /\ flight[p].at = "none" /\ flight'[p].at = "read"
                  /\ \E u \in Waiters(p)' :
                       task'[u].row.up = flight'[p].base /\ (flight'[p].force => Forced(u)')
    <2>1. CASE flight' = flight
      BY <2>1
    <2>2. CASE Asks(t) /\ \E force \in BOOLEAN : Await(t, task[t].on, force)
      <3>1. PICK force \in BOOLEAN : Await(t, task[t].on, force)
        BY <2>2
      <3>2. /\ task'[t].row = task[t].row /\ task'[t].on = task[t].on
            /\ Awaits(t)' /\ (force => Forced(t)')
            /\ \/ flight'[p] = flight[p]
               \/ /\ p = task[t].on /\ flight[p].at = "none" /\ flight'[p].at = "read"
                  /\ flight'[p].base = task[t].row.up /\ flight'[p].force = force
        BY <2>2, <3>1, AwaitBegins
      <3>3. p = task[t].on => t \in Waiters(p)'
        BY <3>2 DEF Awaits, Waiters
      <3> QED
        BY <3>2, <3>3
    <2> QED
      BY <1>1, <2>1, <2>2
  <1>6. NoFetch
    <2> SUFFICES ASSUME NEW p \in Replica, flight'[p].at \in {"fetch", "store"}
                 PROVE  flight[p].at \in {"fetch", "store"}
      BY DEF NoFetch
    <2> QED
      BY <1>5
  <1>7. Held'
    <2>1. (\A p \in Replica : flight'[p].at # "store") => \A p \in Replica : flight[p].at # "store"
      <3> SUFFICES ASSUME NEW p \in Replica, flight[p].at = "store" PROVE flight'[p].at = "store"
        OBVIOUS
      <3> QED
        BY <1>5
    <2> QED
      BY <1>1, <1>2, <2>1 DEF Held
  <1>8. TaskSound(t)'
    <2>1. CASE Settles(t)
      BY <1>1, <1>2, <1>6, <2>1, SettledSound
    <2>2. CASE Finds(t)
      <3>1. task'[t].row = grant.row /\ task'[t].at = "upstream"
        <4>1. task' = [task EXCEPT ![t] = [task[t] EXCEPT !.at = "upstream", !.row = grant.row]]
          BY <2>2 DEF Finds, GotoRow
        <4>2. task[t] \in TaskType
          BY DEF TypeOK
        <4> QED
          BY <4>1, <4>2 DEF TypeOK, TaskType
      <3>2. ~Forced(t)' /\ ~Again(t)'
        BY <3>1 DEF Forced, Again
      <3>3. 0 < task'[t].row.up /\ task'[t].row.up <= provider'.access
        BY <1>1, <1>2, <3>1 DEF Held
      <3>4. task'[t].row.up = grant'.row.up
        BY <1>1, <3>1
      <3> QED
        BY ONLY <3>2, <3>3, <3>4 DEF TaskSound
    <2>3. CASE Insists(t)
      <3>1. Asks(t) /\ ~Accepted(task[t].row) /\ Goto(t, "await forced")
        BY <2>3 DEF Insists, Await
      <3>2. task'[t].row = task[t].row /\ task'[t].at = "await forced"
        BY <3>1, GotoRowKept
      <3>3. TaskSound(t) /\ Live(t)
        BY <1>2, <3>1 DEF Live, Asks, Asking
      <3>4. ~Again(t)'
        BY <3>2 DEF Again
      <3>5. task[t].row.up <= provider.access /\ 0 < task[t].row.up
        BY <3>1, <3>3 DEF TaskSound
      <3>6. task[t].row.up < provider.oldest
        <4>1. ~(provider.oldest <= task[t].row.up /\ task[t].row.up <= provider.access)
          BY <3>1 DEF Accepted
        <4>2. task[t].row.up \in Nat /\ provider.oldest \in Nat
          BY UpNumbers
        <4> QED
          BY ONLY <3>5, <4>1, <4>2
      <3>7. task[t].row.up \notin {0, grant.row.up} => grant.row.fresh
        BY <3>3 DEF TaskSound
      <3> QED
        BY ONLY <1>1, <3>2, <3>4, <3>5, <3>6, <3>7 DEF TaskSound
    <2> QED
      BY <2>1, <2>2, <2>3, StepShape
  <1>9. \A u \in Task : TaskSound(u)'
    <2> SUFFICES ASSUME NEW u \in Task, u # t PROVE TaskSound(u)'
      BY <1>8
    <2>1. Settles(u)
      BY <1>3 DEF Settles
    <2> QED
      BY <1>1, <1>2, <1>6, <2>1, SettledSound
  <1>10. ASSUME NEW p \in Replica PROVE FlightSound(p)'
    <2>1. CASE flight'[p] = flight[p]
      <3>1. \A u \in Waiters(p) : task'[u] = task[u]
        BY <1>3, <1>4 DEF Awaits, Waiters
      <3>2. flight[p].at = "store" => /\ provider'.oldest <= flight[p].row.up
                                      /\ flight[p].row.up <= provider'.access
        BY <1>1, <1>2 DEF FlightSound
      <3> QED
        BY <1>1, <1>2, <2>1, <3>1, <3>2, KeptFlight
    <2>2. CASE /\ flight[p].at = "none" /\ flight'[p].at = "read"
               /\ \E u \in Waiters(p)' :
                    task'[u].row.up = flight'[p].base /\ (flight'[p].force => Forced(u)')
      BY <2>2 DEF FlightSound
    <2> QED
      BY <1>5, <2>1, <2>2
  <1> QED
    BY <1>7, <1>9, <1>10 DEF AllSound

\* The grant is made with the first access token of the provider.
LEMMA InsertSound ==
  ASSUME TypeOK, TypeOK', Placed, GInv, SInv, EInv, NEW t \in Task, ExchangeInsert(t)
  PROVE  EInv'
  <1>1. Inserting(t)
    BY DEF ExchangeInsert, Inserting, At
  <1>2. grants = 0
    BY <1>1 DEF GInv, OneCode
  <1>3. /\ \A p \in Replica : flight[p].at = "none"
        /\ \A u \in Task : ~Asks(u)
    BY <1>2 DEF SInv, NotYet, Asks
  <1>4. /\ provider.access = 1 /\ (provider.oldest = 1 \/ Reason)
        /\ \A u \in Task : task[u].row.up = 0
    BY <1>2 DEF EInv, Ends
  <1>5. /\ UNCHANGED <<provider, flight, causes>> /\ grants' = 1 /\ grant'.alive
        /\ grant'.row.up = 1 /\ grant'.row.fresh
    BY <1>2 DEF ExchangeInsert
  <1>6. /\ task'[t].row = task[t].row /\ task'[t].at = "issue"
        /\ \A u \in Task \ {t} : task'[u] = task[u]
    <2>1. GotoNew(t, "issue")
      BY DEF ExchangeInsert
    <2>2. \A u \in Task \ {t} : task'[u] = task[u]
      BY <2>1 DEF GotoNew, TypeOK
    <2> QED
      BY <2>1, <2>2, GotoRowKept
  <1>7. \A u \in Task : task'[u].row.up = 0 /\ ~Asks(u)' /\ ~Forced(u)' /\ ~Again(u)'
    <2> SUFFICES ASSUME NEW u \in Task
                 PROVE  task'[u].row.up = 0 /\ ~Asks(u)' /\ ~Forced(u)' /\ ~Again(u)'
      OBVIOUS
    <2>1. CASE u = t
      BY <1>4, <1>6, <2>1 DEF Asks, Forced, Again, Asking
    <2>2. CASE u # t
      BY <1>3, <1>4, <1>6, <2>2 DEF Asks, Forced, Again, Asking
    <2> QED
      BY <2>1, <2>2
  <1>8. Reason' <=> Reason
    BY <1>5 DEF Reason
  <1>9. Ends'
    <2>1. \A u \in Task : Ending(u)' => Ending(u)
      BY <1>6 DEF Ending
    <2> QED
      BY <1>5, <1>8, <2>1 DEF EInv, Ends
  <1>10. Sound'
    <2> SUFFICES ASSUME ~Reason' PROVE AllSound'
      BY DEF Sound
    <2>1. provider'.access = 1 /\ provider'.oldest = 1
      BY <1>4, <1>5, <1>8
    <2>2. Held'
      BY ONLY <1>5, <2>1 DEF Held
    <2>3. \A u \in Task : TaskSound(u)'
      BY ONLY <1>7, <2>1 DEF TaskSound
    <2>4. \A p \in Replica : FlightSound(p)'
      BY <1>3, <1>5 DEF FlightSound
    <2> QED
      BY <2>2, <2>3, <2>4 DEF AllSound
  <1> QED
    BY <1>9, <1>10 DEF EInv

-----------------------------------------------------------------------------
(* The same of a flight.                                                    *)

\* Nobody is left behind by the end of the flight of one replica.
LEMMA OtherFlights ==
  ASSUME TypeOK, NEW p \in Replica, NEW q \in Replica \ {p}, Fly(p)
  PROVE  flight'[q] = flight[q] /\ \A u \in Waiters(q) : task'[u] = task[u]
  <1>1. flight'[q] = flight[q]
    BY DEF Fly, FlightRead, FlightFetch, FlightUnavailable, FlightStore, Restart, FlightFails, Land, TypeOK
  <1>2. ASSUME NEW u \in Waiters(q) PROVE task'[u] = task[u]
    <2>1. u \in Task /\ task[u].on = q /\ u \notin Waiters(p)
      BY DEF Waiters
    <2>2. CASE UNCHANGED task
      BY <2>2
    <2>3. CASE \E row : Land(p, row)
      BY <2>1, <2>3 DEF Land
    <2>4. CASE FlightFails(p, Refused) \/ FlightFails(p, Unavailable)
      BY <2>1, <2>4 DEF FlightFails
    <2>5. CASE Restart(p)
      BY <2>1, <2>5 DEF Restart
    <2>6. UNCHANGED task \/ (\E row : Land(p, row)) \/ FlightFails(p, Refused)
            \/ FlightFails(p, Unavailable) \/ Restart(p)
      BY DEF Fly, FlightRead, FlightFetch, FlightUnavailable, FlightStore
    <2> QED
      BY <2>2, <2>3, <2>4, <2>5, <2>6
  <1> QED
    BY ONLY <1>1, <1>2, Zenon

\* The requests that awaited a flight that landed, and the others.
LEMMA LandedTask ==
  ASSUME TypeOK, NEW p, NEW row, Land(p, row), NEW u \in Task
  PROVE  \/ task'[u] = task[u]
         \/ /\ Awaits(u) /\ task'[u].row = row /\ Asks(u)' /\ ~Forced(u)' /\ ~Ending(u)'
            /\ Again(u)' => Forced(u)
  <1>1. CASE u \notin Waiters(p)
    BY <1>1 DEF Land
  <1>2. CASE u \in Waiters(p)
    <2>1. task'[u] = [task[u] EXCEPT !.row = row, !.at = Landed(@)] /\ task[u] \in TaskType
      BY <1>2 DEF Land, TypeOK
    <2>2. task'[u].row = row /\ task'[u].at = Landed(task[u].at)
      BY <2>1 DEF TaskType
    <2>3. Awaits(u)
      BY <1>2 DEF Waiters, Awaits
    <2>4. task'[u].at \in {"profile", "profile again"}
      BY <2>2 DEF Landed
    <2>5. Asks(u)' /\ ~Forced(u)' /\ ~Ending(u)'
      BY <2>4 DEF Asks, Asking, Forced, Ending
    <2>6. Again(u)' => Forced(u)
      BY <2>2, <2>3 DEF Landed, Again, Forced, Awaits
    <2> QED
      BY <2>2, <2>3, <2>5, <2>6
  <1> QED
    BY <1>1, <1>2

\* When a flight fails, its requests keep their rows.
LEMMA UnavailableSettles ==
  ASSUME TypeOK, NEW p, FlightFails(p, Unavailable), NEW u \in Task
  PROVE  Settles(u) /\ (Ending(u)' => Ending(u))
  <1>1. CASE u \notin Waiters(p)
    BY <1>1 DEF FlightFails, Settles, Ending
  <1>2. CASE u \in Waiters(p)
    <2>1. task'[u] = [task[u] EXCEPT !.at = Unavailable(u)] /\ task[u] \in TaskType
      BY <1>2 DEF FlightFails, TypeOK
    <2>2. task'[u].row = task[u].row /\ task'[u].at \in {"restore", "idle"}
      BY <2>1 DEF TaskType, Unavailable
    <2>3. Live(u)
      BY <1>2 DEF Waiters, Live
    <2>4. ~Asks(u)' /\ ~Forced(u)' /\ ~Again(u)' /\ ~Ending(u)'
      BY <2>2 DEF Asks, Asking, Forced, Again, Ending
    <2> QED
      BY <2>2, <2>3, <2>4 DEF Settles
  <1> QED
    BY <1>1, <1>2

LEMMA RestartSettles ==
  ASSUME TypeOK, NEW p, Restart(p), NEW u \in Task
  PROVE  Settles(u) /\ (Ending(u)' => Ending(u))
  <1>1. task'[u] = task[u] \/ task'[u] = Idle
    BY DEF Restart
  <1>2. CASE task'[u] = task[u]
    BY <1>2 DEF Settles, Ending
  <1>3. CASE task'[u] = Idle
    <2>1. task'[u].row.up = 0 /\ task'[u].at = "idle"
      BY <1>3 DEF Idle, NoRow
    <2> QED
      BY <2>1 DEF Settles, Asks, Forced, Again, Ending, Asking
  <1> QED
    BY <1>1, <1>2, <1>3

\* There is a grant when there is a flight, and if it is gone there is a reason.
LEMMA FlightFor ==
  ASSUME TypeOK, SInv, EInv, NEW p \in Replica, flight[p].at # "none"
  PROVE  grants # 0 /\ (grant.alive \/ Reason)
  BY DEF SInv, NotYet, EInv, Ends

\* Only one flight, for a provider that rotates its refresh tokens.
LEMMA NoOtherFlight ==
  ASSUME SInv, NEW p \in Replica, flight[p].at # "none", provider.rotates,
         NEW q \in Replica \ {p}
  PROVE  flight[q].at = "none"
  BY DEF SInv, OneReplica

LEMMA RestartSound ==
  ASSUME TypeOK, SInv, EInv, NEW p \in Replica, Restart(p)
  PROVE  EInv'
  <1>1. UNCHANGED <<provider, grant, grants>> /\ causes \subseteq causes'
    BY DEF Restart, Database
  <1>2. Reason => Reason'
    BY <1>1, ReasonStays
  <1>3. \A u \in Task : Settles(u) /\ (Ending(u)' => Ending(u))
    BY RestartSettles
  <1>4. flight'[p].at = "none" /\ \A q \in Replica \ {p} :
          flight'[q] = flight[q] /\ \A u \in Waiters(q) : task'[u] = task[u]
    BY OtherFlights DEF Fly, Restart, TypeOK, NoFlight
  <1>5. Ends'
    <2>1. grants = 0 => \A u \in Task : task'[u].row.up = 0
      BY <1>3 DEF EInv, Ends, Settles
    <2> QED
      BY <1>1, <1>2, <1>3, <2>1 DEF EInv, Ends
  <1>6. Sound'
    <2> SUFFICES ASSUME grant'.alive, ~Reason' PROVE AllSound'
      BY DEF Sound
    <2>1. Held /\ (\A u \in Task : TaskSound(u)) /\ (\A q \in Replica : FlightSound(q))
      BY <1>1, <1>2 DEF EInv, Sound, AllSound
    <2>2. flight[p].at # "store"
      <3>1. flight[p].at = "store" => "answer lost" \in causes'
        BY DEF Restart
      <3> QED
        BY <3>1, ReasonNow
    <2>3. NoFetch
      BY <1>4 DEF NoFetch
    <2>4. Held'
      <3>1. (\A q \in Replica : flight'[q].at # "store") => \A q \in Replica : flight[q].at # "store"
        BY <1>4, <2>2
      <3> QED
        BY <1>1, <2>1, <3>1 DEF Held
    <2>5. \A u \in Task : TaskSound(u)'
      BY <1>1, <1>3, <2>1, <2>3, SettledSound
    <2>6. ASSUME NEW q \in Replica PROVE FlightSound(q)'
      <3>1. CASE q = p
        BY <1>4, <3>1 DEF FlightSound
      <3>2. CASE q # p
        <4>1. flight'[q] = flight[q] /\ \A u \in Waiters(q) : task'[u] = task[u]
          BY <1>4, <3>2
        <4>2. flight[q].at = "store" => /\ provider'.oldest <= flight[q].row.up
                                        /\ flight[q].row.up <= provider'.access
          BY <1>1, <2>1 DEF FlightSound
        <4> QED
          BY <1>1, <2>1, <4>1, <4>2, KeptFlight
      <3> QED
        BY <3>1, <3>2
    <2> QED
      BY <2>4, <2>5, <2>6 DEF AllSound
  <1> QED
    BY <1>5, <1>6 DEF EInv

LEMMA UnavailableSound ==
  ASSUME TypeOK, SInv, EInv, NEW p \in Replica, FlightUnavailable(p)
  PROVE  EInv'
  <1>1. /\ flight[p].at = "fetch" /\ FlightFails(p, Unavailable) /\ UNCHANGED <<grant, grants>>
        /\ causes \subseteq causes' /\ provider'.allowed = provider.allowed
        /\ UNCHANGED provider \/ "answer lost" \in causes'
    BY DEF FlightUnavailable, Database, TypeOK
  <1>2. Reason => Reason'
    BY <1>1, ReasonStays
  <1>3. \A u \in Task : Settles(u) /\ (Ending(u)' => Ending(u))
    BY <1>1, UnavailableSettles
  <1>4. flight'[p].at = "none" /\ \A q \in Replica \ {p} :
          flight'[q] = flight[q] /\ \A u \in Waiters(q) : task'[u] = task[u]
    BY <1>1, OtherFlights DEF Fly, FlightFails, TypeOK, NoFlight
  <1>5. grants # 0
    BY <1>1, FlightFor
  <1>6. Ends'
    BY <1>1, <1>2, <1>3, <1>5 DEF EInv, Ends
  <1>7. Sound'
    <2> SUFFICES ASSUME grant'.alive, ~Reason' PROVE AllSound'
      BY DEF Sound
    <2>1. Held /\ (\A u \in Task : TaskSound(u)) /\ (\A q \in Replica : FlightSound(q))
      BY <1>1, <1>2 DEF EInv, Sound, AllSound
    <2>2. UNCHANGED provider
      <3>1. "answer lost" \in causes' => Reason'
        BY ReasonNow
      <3> QED
        BY <1>1, <3>1
    <2>3. NoFetch
      BY <1>4 DEF NoFetch
    <2>4. Held'
      <3>1. (\A q \in Replica : flight'[q].at # "store") => \A q \in Replica : flight[q].at # "store"
        BY <1>1, <1>4
      <3> QED
        BY <1>1, <2>1, <2>2, <3>1 DEF Held
    <2>5. \A u \in Task : TaskSound(u)'
      BY <1>1, <1>3, <2>1, <2>2, <2>3, SettledSound
    <2>6. ASSUME NEW q \in Replica PROVE FlightSound(q)'
      <3>1. CASE q = p
        BY <1>4, <3>1 DEF FlightSound
      <3>2. CASE q # p
        <4>1. flight'[q] = flight[q] /\ \A u \in Waiters(q) : task'[u] = task[u]
          BY <1>4, <3>2
        <4>2. flight[q].at = "store" => /\ provider'.oldest <= flight[q].row.up
                                        /\ flight[q].row.up <= provider'.access
          BY <2>1, <2>2 DEF FlightSound
        <4> QED
          BY <2>1, <2>2, <4>1, <4>2, KeptFlight
      <3> QED
        BY <3>1, <3>2
    <2> QED
      BY <2>4, <2>5, <2>6 DEF AllSound
  <1> QED
    BY <1>6, <1>7 DEF EInv

\* The requests of a flight that lands with a fresh row that is accepted.
LEMMA LandedSound ==
  ASSUME TypeOK, NEW p \in Replica, NEW row, Land(p, row), NEW u \in Task, TaskSound(u),
         UNCHANGED provider, row.up \in Nat, 0 < row.up, row.up <= provider.access,
         task'[u] # task[u] => row.up = grant'.row.up,
         Forced(u) => grant'.row.fresh /\ provider.oldest <= row.up,
         grant'.row.fresh \/ grant'.row = grant.row,
         provider.rotates => \A q \in Replica \ {p} : flight'[q].at = "none",
         flight'[p].at = "none",
         \A q \in Replica \ {p} : flight'[q] = flight[q]
  PROVE  TaskSound(u)'
  <1>1. CASE task'[u] = task[u]
    <2>1. (Forced(u)' <=> Forced(u)) /\ (Again(u)' <=> Again(u)) /\ (Asks(u)' <=> Asks(u))
          /\ (Live(u)' <=> Live(u))
      BY <1>1 DEF Forced, Again, Asks, Live
    <2>2. Again(u)' /\ provider'.rotates => \A q \in Replica : flight'[q].at \notin {"fetch", "store"}
      OBVIOUS
    <2>3. Live(u)' /\ task'[u].row.up \notin {0, grant'.row.up} => grant'.row.fresh
      BY <1>1, <2>1 DEF TaskSound
    <2>4. Again(u)' => grant'.row.fresh /\ provider'.oldest <= task'[u].row.up
      BY <1>1, <2>1 DEF TaskSound
    <2>5. /\ task'[u].row.up <= provider'.access
          /\ Asks(u)' => 0 < task'[u].row.up
          /\ Forced(u)' => task'[u].row.up < provider'.oldest
      BY <1>1, <2>1 DEF TaskSound
    <2> QED
      BY <2>2, <2>3, <2>4, <2>5 DEF TaskSound
  <1>2. CASE task'[u] # task[u]
    <2>1. /\ Awaits(u) /\ task'[u].row = row /\ Asks(u)' /\ ~Forced(u)' /\ ~Ending(u)'
          /\ Again(u)' => Forced(u)
      BY <1>2, LandedTask
    <2>2. row.up = grant'.row.up
      BY <1>2
    <2>3. Again(u)' => grant'.row.fresh /\ provider'.oldest <= task'[u].row.up
      BY <2>1
    <2>4. Again(u)' /\ provider'.rotates => \A q \in Replica : flight'[q].at \notin {"fetch", "store"}
      OBVIOUS
    <2> QED
      BY <2>1, <2>2, <2>3, <2>4 DEF TaskSound
  <1> QED
    BY <1>1, <1>2

\* A flight that finds the row renewed, or has to fetch.
LEMMA ReadSound ==
  ASSUME TypeOK, SInv, EInv, NEW p \in Replica, FlightRead(p)
  PROVE  EInv'
  <1>1. /\ flight[p].at = "read" /\ UNCHANGED <<grant, grants, provider, causes>>
    BY DEF FlightRead, Database, History
  <1>2. grants # 0 /\ (grant.alive \/ Reason) /\ (Reason' <=> Reason)
    BY <1>1, FlightFor DEF Reason
  <1>3. CASE ~grant.alive
    <2>1. Reason'
      BY <1>2, <1>3
    <2>2. Ends' /\ Sound'
      BY <1>1, <1>2, <2>1 DEF EInv, Ends, Sound
    <2> QED
      BY <2>2 DEF EInv
  <1>4. CASE grant.alive
    <2> DEFINE f == flight[p]
               found == (f.force /\ grant.row.up # f.base) \/ (~f.force /\ grant.row.fresh)
    <2>1. /\ found => Land(p, grant.row)
          /\ ~found => /\ UNCHANGED task
                       /\ flight' = [flight EXCEPT ![p].at = "fetch", ![p].row = grant.row]
      BY <1>4 DEF FlightRead
    <2>2. \A q \in Replica \ {p} :
            flight'[q] = flight[q] /\ \A u \in Waiters(q) : task'[u] = task[u]
      BY OtherFlights DEF Fly
    <2>3. provider.rotates => \A q \in Replica \ {p} : flight[q].at = "none"
      BY <1>1, NoOtherFlight
    <2>4. \A u \in Task : Ending(u)' => Ending(u)
      <3> SUFFICES ASSUME NEW u \in Task PROVE Ending(u)' => Ending(u)
        OBVIOUS
      <3>1. CASE found
        <4>1. Land(p, grant.row)
          BY <2>1, <3>1
        <4> HIDE DEF found
        <4> QED
          BY <4>1, LandedTask DEF Ending
      <3>2. CASE ~found
        BY <2>1, <3>2 DEF Ending
      <3> QED
        BY <3>1, <3>2
    <2>5. Ends'
      BY <1>1, <1>2, <2>4 DEF EInv, Ends
    <2>6. Sound'
      <3> SUFFICES ASSUME ~Reason PROVE AllSound'
        BY <1>2 DEF Sound
      <3>1. Held /\ (\A u \in Task : TaskSound(u)) /\ (\A q \in Replica : FlightSound(q))
        BY <1>4 DEF EInv, Sound, AllSound
      <3>2. PICK w \in Waiters(p) : task[w].row.up = flight[p].base /\ (flight[p].force => Forced(w))
        BY <1>1, <3>1 DEF FlightSound
      <3>3. w \in Task /\ TaskSound(w) /\ Asks(w) /\ Live(w)
        BY <3>1, <3>2 DEF Waiters, Asks, Asking, Live
      <3>4. 0 < task[w].row.up
        BY <3>3 DEF TaskSound
      <3>5. flight[p].at # "store" /\ (provider.rotates => \A q \in Replica : flight[q].at # "store")
        BY <1>1, <2>3
      <3>6. grant.row.fresh => provider.oldest <= grant.row.up
        BY <3>1, <3>5 DEF Held
      <3>7. CASE found
        <4>1. Land(p, grant.row)
          BY <2>1, <3>7
        <4>2. flight'[p].at = "none"
          BY <4>1 DEF Land, TypeOK, NoFlight
        <4>3. grant.row.fresh
          <5>1. CASE f.force /\ grant.row.up # f.base
            <6>1. task[w].row.up # 0
              BY <3>3, <3>4, UpNumbers
            <6>2. task[w].row.up \notin {0, grant.row.up}
              BY <3>2, <5>1, <6>1
            <6> QED
              BY <3>3, <6>2 DEF TaskSound
          <5>2. CASE ~f.force /\ grant.row.fresh
            BY <5>2
          <5> QED
            BY <3>7, <5>1, <5>2
        <4>4. 0 < grant.row.up /\ grant.row.up <= provider.access /\ grant.row.up \in Nat
          BY <3>1, UpNumbers DEF Held
        <4>5. provider.rotates => \A q \in Replica \ {p} : flight'[q].at = "none"
          BY <2>2, <2>3
        <4>6. \A u \in Task : TaskSound(u)'
          <5> SUFFICES ASSUME NEW u \in Task PROVE TaskSound(u)'
            OBVIOUS
          <5>1. TaskSound(u) /\ grant'.row = grant.row
            BY <1>1, <3>1
          <5>2. \A q \in Replica \ {p} : flight'[q] = flight[q]
            BY <2>2
          <5>3. grant.row.fresh /\ provider.oldest <= grant.row.up
            BY <3>6, <4>3
          <5> HIDE DEF found, f
          <5> QED
            BY <1>1, <4>1, <4>2, <4>4, <4>5, <5>1, <5>2, <5>3, LandedSound
        <4>7. Held'
          <5>1. (\A q \in Replica : flight'[q].at # "store") => \A q \in Replica : flight[q].at # "store"
            BY <2>2, <3>5
          <5> QED
            BY <1>1, <3>1, <5>1 DEF Held
        <4>8. ASSUME NEW q \in Replica PROVE FlightSound(q)'
          <5>1. CASE q = p
            BY <4>2, <5>1 DEF FlightSound
          <5>2. CASE q # p
            <6>1. flight'[q] = flight[q] /\ \A u \in Waiters(q) : task'[u] = task[u]
              BY <2>2, <5>2
            <6>2. flight[q].at = "store" => /\ provider'.oldest <= flight[q].row.up
                                            /\ flight[q].row.up <= provider'.access
              BY <1>1, <3>1 DEF FlightSound
            <6> QED
              BY <1>1, <3>1, <6>1, <6>2, KeptFlight
          <5> QED
            BY <5>1, <5>2
        <4> QED
          BY <4>6, <4>7, <4>8 DEF AllSound
      <3>8. CASE ~found
        <4>1. /\ flight'[p].at = "fetch" /\ flight'[p].row = grant.row
              /\ flight'[p].base = flight[p].base /\ flight'[p].force = flight[p].force
          <5>1. flight[p] \in FlightType
            BY DEF TypeOK
          <5>2. flight' = [flight EXCEPT ![p] = [flight[p] EXCEPT !.at = "fetch", !.row = grant.row]]
            BY <2>1, <3>8
          <5>3. flight'[p] = [flight[p] EXCEPT !.at = "fetch", !.row = grant.row]
            BY <5>2 DEF TypeOK
          <5> QED
            BY ONLY <5>1, <5>3 DEF FlightType
        <4>2. UNCHANGED task
          BY <2>1, <3>8
        <4>3. ASSUME provider.rotates, NEW u \in Task PROVE ~Again(u)
          <5> SUFFICES ASSUME Again(u) PROVE FALSE
            OBVIOUS
          <5>1. grant.row.fresh
            BY <3>1 DEF TaskSound
          <5>2. f.force /\ grant.row.up = f.base
            BY <3>8, <5>1 DEF TypeOK, FlightType
          <5>3. task[w].row.up < provider.oldest
            BY <3>2, <3>3, <5>2 DEF TaskSound
          <5>4. provider.oldest <= task[w].row.up
            BY <3>2, <3>6, <5>1, <5>2
          <5>5. task[w].row.up \in Nat /\ provider.oldest \in Nat
            BY <3>3, UpNumbers
          <5> QED
            BY ONLY <5>3, <5>4, <5>5
        <4>4. \A u \in Task : TaskSound(u)'
          <5> SUFFICES ASSUME NEW u \in Task PROVE TaskSound(u)'
            OBVIOUS
          <5>1. task'[u] = task[u] /\ TaskSound(u)
            BY <3>1, <4>2
          <5>2. (Forced(u)' <=> Forced(u)) /\ (Again(u)' <=> Again(u)) /\ (Asks(u)' <=> Asks(u))
                /\ (Live(u)' <=> Live(u))
            BY <5>1 DEF Forced, Again, Asks, Live
          <5>3. ~(Again(u)' /\ provider'.rotates)
            BY <1>1, <4>3, <5>2
          <5> QED
            BY <1>1, <5>1, <5>2, <5>3 DEF TaskSound
        <4>5. Held'
          <5>1. (\A q \in Replica : flight'[q].at # "store") => \A q \in Replica : flight[q].at # "store"
            BY <2>2, <3>5
          <5> QED
            BY <1>1, <3>1, <5>1 DEF Held
        <4>6. grant.row.upr = provider.refresh
          <5>1. CASE provider.rotates
            <6>1. "answer lost" \notin causes
              BY <1>1, <1>2, ReasonNow
            <6>2. \A q \in Replica : flight[q].at # "store"
              BY <3>5, <5>1
            <6> QED
              BY <1>4, <6>1, <6>2 DEF SInv, InStep
          <5>2. CASE ~provider.rotates
            BY <1>4, <5>2 DEF SInv, NeverRotates
          <5> QED
            BY <5>1, <5>2
        <4>7. ASSUME NEW q \in Replica PROVE FlightSound(q)'
          <5>1. CASE q = p
            <6>1. w \in Waiters(p)' /\ task'[w].row.up = flight'[p].base /\ (flight'[p].force => Forced(w)')
              BY <3>2, <4>1, <4>2 DEF Waiters, Forced
            <6>2. flight'[p].row.upr = provider'.refresh
              BY <1>1, <4>1, <4>6
            <6> QED
              BY <4>1, <5>1, <6>1, <6>2 DEF FlightSound
          <5>2. CASE q # p
            <6>1. flight'[q] = flight[q] /\ \A u \in Waiters(q) : task'[u] = task[u]
              BY <2>2, <5>2
            <6>2. flight[q].at = "store" => /\ provider'.oldest <= flight[q].row.up
                                            /\ flight[q].row.up <= provider'.access
              BY <1>1, <3>1 DEF FlightSound
            <6> QED
              BY <1>1, <3>1, <6>1, <6>2, KeptFlight
          <5> QED
            BY <5>1, <5>2
        <4> QED
          BY <4>4, <4>5, <4>7 DEF AllSound
      <3> QED
        BY <3>7, <3>8
    <2> QED
      BY <2>5, <2>6 DEF EInv
  <1> QED
    BY <1>3, <1>4

\* A flight that stores what it brings.
LEMMA StoreSound ==
  ASSUME TypeOK, SInv, EInv, NEW p \in Replica, FlightStore(p)
  PROVE  EInv'
  <1>1. /\ flight[p].at = "store" /\ UNCHANGED <<grants, provider, causes>>
        /\ Land(p, flight[p].row) /\ grant'.alive = grant.alive
        /\ grant.alive => grant'.row = flight[p].row
    BY DEF FlightStore, History, TypeOK
  <1>2. grants # 0 /\ (grant.alive \/ Reason) /\ (Reason' <=> Reason)
    BY <1>1, FlightFor DEF Reason
  <1>3. \A u \in Task : Ending(u)' => Ending(u)
    BY <1>1, LandedTask DEF Ending
  <1>4. Ends'
    BY <1>1, <1>2, <1>3 DEF EInv, Ends
  <1>5. Sound'
    <2> SUFFICES ASSUME grant.alive, ~Reason PROVE AllSound'
      BY <1>1, <1>2 DEF Sound
    <2>1. Held /\ (\A u \in Task : TaskSound(u)) /\ (\A q \in Replica : FlightSound(q))
      BY DEF EInv, Sound, AllSound
    <2>2. \A q \in Replica \ {p} :
            flight'[q] = flight[q] /\ \A u \in Waiters(q) : task'[u] = task[u]
      BY OtherFlights DEF Fly
    <2>3. flight'[p].at = "none"
      BY <1>1 DEF Land, TypeOK, NoFlight
    <2>4. provider.rotates => \A q \in Replica \ {p} : flight'[q].at = "none"
      BY <1>1, <2>2, NoOtherFlight
    <2>5. /\ provider.oldest <= flight[p].row.up /\ flight[p].row.up <= provider.access
          /\ flight[p].base < flight[p].row.up /\ flight[p].row.fresh
      BY <1>1, <2>1 DEF FlightSound
    <2>6. flight[p].row.up \in Nat /\ 0 < flight[p].row.up
      <3>1. flight[p].row.up \in Nat /\ flight[p].base \in Nat
        BY UpNumbers
      <3> QED
        BY ONLY <2>5, <3>1
    <2>7. grant'.row = flight[p].row
      BY <1>1
    <2>8. \A u \in Task : TaskSound(u)'
      <3> SUFFICES ASSUME NEW u \in Task PROVE TaskSound(u)'
        OBVIOUS
      <3>1. TaskSound(u) /\ grant'.row.fresh /\ flight[p].row.up = grant'.row.up
        BY <2>1, <2>5, <2>7
      <3>2. \A q \in Replica \ {p} : flight'[q] = flight[q]
        BY <2>2
      <3> QED
        BY <1>1, <2>3, <2>4, <2>5, <2>6, <3>1, <3>2, LandedSound
    <2>9. Held'
      BY <1>1, <2>1, <2>5, <2>6, <2>7 DEF Held
    <2>10. ASSUME NEW q \in Replica PROVE FlightSound(q)'
      <3>1. CASE q = p
        BY <2>3, <3>1 DEF FlightSound
      <3>2. CASE q # p
        <4>1. flight'[q] = flight[q] /\ \A u \in Waiters(q) : task'[u] = task[u]
          BY <2>2, <3>2
        <4>2. flight[q].at = "store" => /\ provider'.oldest <= flight[q].row.up
                                        /\ flight[q].row.up <= provider'.access
          BY <1>1, <2>1 DEF FlightSound
        <4> QED
          BY <1>1, <2>1, <4>1, <4>2, KeptFlight
      <3> QED
        BY <3>1, <3>2
    <2> QED
      BY <2>8, <2>9, <2>10 DEF AllSound
  <1> QED
    BY <1>4, <1>5 DEF EInv

\* A flight for which the provider refused, or answered with a new access token.
LEMMA FetchSound ==
  ASSUME TypeOK, SInv, EInv, NEW p \in Replica, FlightFetch(p)
  PROVE  EInv'
  <1>1. flight[p].at = "fetch" /\ UNCHANGED <<grant, grants, causes>>
    BY DEF FlightFetch, Database
  <1>2. grants # 0 /\ (grant.alive \/ Reason) /\ (Reason' <=> Reason)
    BY <1>1, FlightFor DEF Reason
  <1>3. provider'.allowed = provider.allowed
    BY DEF FlightFetch, TypeOK
  <1>4. CASE Reason
    <2>1. Reason'
      BY <1>2, <1>4
    <2>2. Ends' /\ Sound'
      BY <1>1, <1>2, <2>1 DEF Ends, Sound
    <2> QED
      BY <2>2 DEF EInv
  <1>5. CASE ~Reason
    <2>1. Held /\ (\A u \in Task : TaskSound(u)) /\ (\A q \in Replica : FlightSound(q))
      BY <1>2, <1>5 DEF EInv, Sound, AllSound
    <2>2. flight[p].row.upr = provider.refresh
      BY <1>1, <2>1 DEF FlightSound
    <2>3. /\ UNCHANGED task /\ provider'.access = provider.access + 1
          /\ provider'.rotates = provider.rotates
          /\ provider.rotates => provider'.oldest = provider.access + 1
          /\ ~provider.rotates => provider'.oldest = provider.oldest /\ provider'.refresh = provider.refresh
      BY <2>2 DEF FlightFetch, TypeOK
    <2>4. /\ flight'[p].at = "store" /\ flight'[p].row.up = provider'.access /\ flight'[p].row.fresh
          /\ flight'[p].base = flight[p].base /\ flight'[p].force = flight[p].force
      <3> DEFINE row == [up |-> provider'.access, upr |-> provider'.refresh, fresh |-> TRUE]
      <3>1. flight' = [flight EXCEPT ![p] = [flight[p] EXCEPT !.at = "store", !.row = row]]
        BY <2>2 DEF FlightFetch
      <3>2. flight[p] \in FlightType
        BY DEF TypeOK
      <3>3. flight'[p] = [flight[p] EXCEPT !.at = "store", !.row = row]
        BY <3>1 DEF TypeOK
      <3> QED
        BY ONLY <3>2, <3>3 DEF FlightType
    <2>5. \A q \in Replica \ {p} :
            flight'[q] = flight[q] /\ \A u \in Waiters(q) : task'[u] = task[u]
      BY OtherFlights DEF Fly
    <2>6. provider.rotates => \A q \in Replica \ {p} : flight[q].at = "none"
      BY <1>1, NoOtherFlight
    <2>7. \A u \in Task : (Forced(u)' <=> Forced(u)) /\ (Again(u)' <=> Again(u)) /\ (Asks(u)' <=> Asks(u))
                          /\ (Live(u)' <=> Live(u)) /\ (Ending(u)' <=> Ending(u))
      BY <2>3 DEF Forced, Again, Asks, Live, Ending
    <2>8. Ends'
      BY <1>1, <1>2, <1>3, <2>7 DEF EInv, Ends
    <2>9. /\ provider.oldest \in Nat /\ provider.access \in Nat /\ grant.row.up \in Nat
          /\ \A u \in Task : task[u].row.up \in Nat
          /\ \A q \in Replica : flight[q].row.up \in Nat /\ flight[q].base \in Nat
      BY UpNumbers
    <2>10. /\ provider'.access \in Nat /\ provider'.oldest \in Nat /\ provider.access < provider'.access
           /\ provider.oldest <= provider'.oldest /\ provider'.oldest <= provider'.access
      <3>1. provider.oldest <= provider.access + 1
        BY <2>1 DEF Held
      <3>2. provider'.oldest \in {provider.oldest, provider.access + 1}
        BY <2>3
      <3>3. provider'.access = provider.access + 1
        BY <2>3
      <3> QED
        BY ONLY <2>9, <3>1, <3>2, <3>3
    <2>11. Held'
      <3>1. provider'.oldest <= provider'.access + 1
        BY ONLY <2>10
      <3>2. 0 < grant.row.up /\ grant.row.up <= provider'.access
        <4>1. 0 < grant.row.up /\ grant.row.up <= provider.access
          BY <2>1 DEF Held
        <4> QED
          BY ONLY <2>9, <2>10, <4>1
      <3>3. grant.row.fresh /\ ~provider.rotates => provider'.oldest <= grant.row.up
        BY <2>1, <2>3 DEF Held
      <3> QED
        BY <1>1, <2>3, <2>4, <3>1, <3>2, <3>3 DEF Held
    <2>12. \A u \in Task : TaskSound(u)'
      <3> SUFFICES ASSUME NEW u \in Task PROVE TaskSound(u)'
        OBVIOUS
      <3>1. TaskSound(u) /\ task'[u] = task[u]
        BY <2>1, <2>3
      <3>2. task[u].row.up <= provider'.access
        <4>1. task[u].row.up <= provider.access
          BY <3>1 DEF TaskSound
        <4> QED
          BY ONLY <2>9, <2>10, <4>1
      <3>3. Forced(u) => task[u].row.up < provider'.oldest
        <4>1. Forced(u) => task[u].row.up < provider.oldest
          BY <3>1 DEF TaskSound
        <4> QED
          BY ONLY <2>9, <2>10, <4>1
      <3>4. Again(u) => ~provider.rotates
        BY <1>1, <3>1 DEF TaskSound
      <3>5. Again(u) => grant.row.fresh /\ provider'.oldest <= task[u].row.up
        BY <2>3, <3>1, <3>4 DEF TaskSound
      <3> QED
        BY <1>1, <2>3, <2>7, <3>1, <3>2, <3>3, <3>4, <3>5 DEF TaskSound
    <2>13. ASSUME NEW q \in Replica PROVE FlightSound(q)'
      <3>1. CASE q = p
        <4>1. PICK w \in Waiters(p) : task[w].row.up = flight[p].base /\ (flight[p].force => Forced(w))
          BY <1>1, <2>1 DEF FlightSound
        <4>2. w \in Waiters(p)' /\ task'[w].row.up = flight'[p].base /\ (flight'[p].force => Forced(w)')
          BY <2>3, <2>4, <4>1 DEF Waiters, Forced
        <4>3. flight'[p].base < flight'[p].row.up
          <5>1. w \in Task /\ TaskSound(w)
            BY <2>1, <4>1 DEF Waiters
          <5>2. task[w].row.up <= provider.access
            BY <5>1 DEF TaskSound
          <5>3. task[w].row.up = flight'[p].base /\ flight'[p].row.up = provider'.access /\ w \in Task
            BY <2>4, <4>1, <5>1
          <5> QED
            BY ONLY <2>9, <2>10, <5>2, <5>3
        <4>4. provider'.oldest <= flight'[p].row.up /\ flight'[p].row.up <= provider'.access
          BY ONLY <2>4, <2>10
        <4> QED
          BY <2>4, <3>1, <4>2, <4>3, <4>4 DEF FlightSound
      <3>2. CASE q # p
        <4>1. flight'[q] = flight[q] /\ \A u \in Waiters(q) : task'[u] = task[u]
          BY <2>5, <3>2
        <4>2. flight[q].at # "none" => ~provider.rotates
          BY <2>6, <3>2
        <4>3. flight[q].at = "fetch" => provider'.refresh = provider.refresh
          BY <2>3, <4>2
        <4>4. flight[q].at = "store" => /\ provider'.oldest <= flight[q].row.up
                                        /\ flight[q].row.up <= provider'.access
          <5> SUFFICES ASSUME flight[q].at = "store"
                       PROVE  provider'.oldest <= flight[q].row.up /\ flight[q].row.up <= provider'.access
            OBVIOUS
          <5>1. provider.oldest <= flight[q].row.up /\ flight[q].row.up <= provider.access
            BY <2>1 DEF FlightSound
          <5>2. provider'.oldest = provider.oldest
            BY <2>3, <4>2
          <5> QED
            BY ONLY <2>9, <2>10, <5>1, <5>2
        <4> QED
          BY <2>1, <4>1, <4>3, <4>4, KeptFlight
      <3> QED
        BY <3>1, <3>2
    <2>14. Sound'
      BY <2>11, <2>12, <2>13 DEF Sound, AllSound
    <2> QED
      BY <2>8, <2>14 DEF EInv
  <1> QED
    BY <1>4, <1>5

\* The provider's token ends when it should: no request has one that is older.
LEMMA ExpirySound ==
  ASSUME TypeOK, SInv, EInv, UpstreamExpires
  PROVE  EInv'
  <1>1. /\ UNCHANGED <<task, flight, grants, causes>> /\ grant.row.fresh /\ ~grant'.row.fresh
        /\ grant'.row.up = grant.row.up /\ grant'.alive = grant.alive
        /\ provider'.access = provider.access /\ provider'.refresh = provider.refresh
        /\ provider'.allowed = provider.allowed /\ provider'.rotates = provider.rotates
        /\ \/ provider'.oldest = provider.oldest
           \/ provider.oldest <= grant.row.up /\ provider'.oldest = grant.row.up + 1
    <2>1. grant.row \in Row /\ grant' = [grant EXCEPT !.row = [grant.row EXCEPT !.fresh = FALSE]]
      BY DEF UpstreamExpires, TypeOK
    <2>2. ~grant'.row.fresh /\ grant'.row.up = grant.row.up /\ grant'.alive = grant.alive
      BY <2>1 DEF TypeOK, Row
    <2>3. /\ provider'.access = provider.access /\ provider'.refresh = provider.refresh
          /\ provider'.allowed = provider.allowed /\ provider'.rotates = provider.rotates
          /\ \/ provider'.oldest = provider.oldest
             \/ provider.oldest <= grant.row.up /\ provider'.oldest = grant.row.up + 1
      BY DEF UpstreamExpires, TypeOK
    <2> QED
      BY <2>2, <2>3 DEF UpstreamExpires, History
  <1>2. grant.alive /\ grants # 0
    BY <1>1 DEF TypeOK, NoGrant, NoRow, SInv, NotYet
  <1>3. (Reason' <=> Reason) /\ \A u \in Task : Ending(u)' <=> Ending(u)
    BY <1>1 DEF Reason, Ending
  <1>4. Ends'
    BY <1>1, <1>2, <1>3 DEF EInv, Ends
  <1>5. Sound'
    <2> SUFFICES ASSUME ~Reason PROVE AllSound'
      BY <1>3 DEF Sound
    <2>1. Held /\ (\A u \in Task : TaskSound(u)) /\ (\A q \in Replica : FlightSound(q))
      BY <1>2 DEF EInv, Sound, AllSound
    <2>2. /\ provider.oldest \in Nat /\ provider.access \in Nat /\ grant.row.up \in Nat
          /\ \A u \in Task : task[u].row.up \in Nat
          /\ \A q \in Replica : flight[q].row.up \in Nat /\ flight[q].base \in Nat
      BY UpNumbers
    <2>3. provider.oldest <= provider.access + 1 /\ 0 < grant.row.up /\ grant.row.up <= provider.access
      BY <2>1 DEF Held
    <2>4. provider'.oldest <= provider.access + 1 /\ provider.oldest <= provider'.oldest
          /\ provider'.oldest \in Nat
      BY ONLY <1>1, <2>2, <2>3
    <2>5. Held'
      BY <1>1, <2>3, <2>4 DEF Held
    <2>6. \A u \in Task : Live(u) => task[u].row.up \in {0, grant.row.up} /\ ~Again(u)
      BY DEF UpstreamExpires, Live, Again
    <2>7. \A u \in Task : TaskSound(u)'
      <3> SUFFICES ASSUME NEW u \in Task PROVE TaskSound(u)'
        OBVIOUS
      <3>1. (Forced(u)' <=> Forced(u)) /\ (Again(u)' <=> Again(u)) /\ (Asks(u)' <=> Asks(u))
            /\ (Live(u)' <=> Live(u))
        BY <1>1 DEF Forced, Again, Asks, Live
      <3>2. ~Again(u)
        BY <2>6 DEF Again, Live
      <3>3. Forced(u) => task[u].row.up < provider'.oldest
        <4>1. Forced(u) => task[u].row.up < provider.oldest
          BY <2>1 DEF TaskSound
        <4> QED
          BY ONLY <2>2, <2>4, <4>1
      <3>4. task[u].row.up <= provider.access /\ (Asks(u) => 0 < task[u].row.up)
        BY <2>1 DEF TaskSound
      <3> QED
        BY <1>1, <2>6, <3>1, <3>2, <3>3, <3>4 DEF TaskSound
    <2>8. ASSUME NEW q \in Replica PROVE FlightSound(q)'
      <3>1. flight'[q] = flight[q] /\ \A u \in Waiters(q) : task'[u] = task[u]
        BY <1>1
      <3>2. flight[q].at = "store" => /\ provider'.oldest <= flight[q].row.up
                                      /\ flight[q].row.up <= provider'.access
        <4> SUFFICES ASSUME flight[q].at = "store"
                     PROVE  provider'.oldest <= flight[q].row.up /\ flight[q].row.up <= provider.access
          BY <1>1
        <4>1. /\ provider.oldest <= flight[q].row.up /\ flight[q].row.up <= provider.access
              /\ flight[q].base < flight[q].row.up
          BY <2>1 DEF FlightSound
        <4>2. PICK w \in Waiters(q) : task[w].row.up = flight[q].base
          BY <2>1 DEF FlightSound
        <4>3. w \in Task /\ Live(w) /\ Asks(w)
          BY <4>2 DEF Waiters, Live, Asks, Asking
        <4>4. 0 < task[w].row.up
          BY <2>1, <4>3 DEF TaskSound
        <4>5. task[w].row.up # 0
          BY ONLY <2>2, <4>3, <4>4
        <4>6. flight[q].base = grant.row.up
          BY <2>6, <4>2, <4>3, <4>5
        <4> QED
          BY ONLY <1>1, <2>2, <4>1, <4>6
      <3> QED
        BY <1>1, <2>1, <3>1, <3>2, KeptFlight
    <2> QED
      BY <2>5, <2>7, <2>8 DEF AllSound
  <1> QED
    BY <1>4, <1>5 DEF EInv

LEMMA EnvironmentSound ==
  ASSUME TypeOK, SInv, EInv, UpstreamExpires \/ EndedEarly \/ Suspend \/ Expire \/ UNCHANGED vars
  PROVE  EInv'
  <1>1. CASE UpstreamExpires
    BY <1>1, ExpirySound
  <1>2. CASE EndedEarly \/ Suspend
    <2>1. UNCHANGED <<task, grant, grants>> /\ provider'.access = provider.access
      BY <1>2 DEF EndedEarly, Suspend, Database, TypeOK
    <2>2. "ended early" \in causes' \/ "suspended" \in causes'
      BY <1>2 DEF EndedEarly, Suspend
    <2>3. Reason'
      BY <2>2, ReasonNow
    <2>4. Ends' /\ Sound'
      BY <2>1, <2>3 DEF EInv, Ends, Sound
    <2> QED
      BY <2>4 DEF EInv
  <1>3. CASE Expire \/ UNCHANGED vars
    <2>1. UNCHANGED <<task, flight, provider, grant, grants, causes>>
      BY <1>3 DEF Expire, Rest, History, vars
    <2>2. (Ends' <=> Ends) /\ (Sound' <=> Sound)
      BY <2>1 DEF Ends, Sound, AllSound, Held, TaskSound, FlightSound, Waiters, Asks, Forced, Again,
         Live, Ending, Reason
    <2> QED
      BY <2>2 DEF EInv
  <1> QED
    BY <1>1, <1>2, <1>3

\* A sign-in ends only for a reason: the client revoked it, the account lost its
\* access, the provider ended its token early, or its answer was lost.
THEOREM EndedForAReason == Spec => []EndsForAReason
  <1>1. Init => EInv
    <2> SUFFICES ASSUME Init PROVE EInv
      OBVIOUS
    <2>1. /\ grants = 0 /\ ~grant.alive /\ provider.access = 1 /\ provider.oldest = 1 /\ provider.allowed
          /\ \A t \in Task : task[t].row.up = 0 /\ task[t].at = "idle"
      BY DEF Init, NoGrant, Idle, NoRow
    <2>2. Ends /\ Sound
      BY <2>1 DEF Ends, Sound, Ending
    <2> QED
      BY <2>2 DEF EInv
  <1>2. TypeOK /\ Placed /\ GInv /\ SInv /\ EInv /\ [Next]_vars => EInv'
    <2> SUFFICES ASSUME TypeOK, Placed, GInv, SInv, EInv, [Next]_vars PROVE EInv'
      OBVIOUS
    <2>1. ASSUME NEW t \in Task, Step(t) PROVE EInv'
      <3>1. CASE ExchangeInsert(t)
        BY <3>1, NextTyped, InsertSound
      <3>2. CASE ~ExchangeInsert(t)
        BY <2>1, <3>2, StepEnds, StepSound DEF EInv
      <3> QED
        BY <3>1, <3>2
    <2>2. ASSUME NEW p \in Replica, Fly(p) PROVE EInv'
      BY <2>2, ReadSound, FetchSound, UnavailableSound, StoreSound, RestartSound DEF Fly
    <2> QED
      BY <2>1, <2>2, EnvironmentSound DEF Next
  <1>3. TypeOK /\ EInv => EndsForAReason
    <2> SUFFICES ASSUME TypeOK, EInv, grants > 0, ~grant.alive PROVE Reason
      BY DEF EndsForAReason, Reason
    <2>1. grants # 0
      BY DEF TypeOK
    <2> QED
      BY <2>1 DEF EInv, Ends
  <1> QED
    BY <1>1, <1>2, <1>3, SInvHolds, PTL DEF Spec
=============================================================================
