---------------------------- MODULE HostedOAuth ----------------------------
(***************************************************************************)
(* Hosted sign-in, src/src/hosted-oauth.ts: one authorization of one client *)
(* from the provider's callback over the consent form and the code to the   *)
(* grant, its refreshes, its checks and its end.  Requests are served by    *)
(* tasks of several replicas that share the database; every await is a step *)
(* of its own.  The identity provider is the environment.                   *)
(*                                                                          *)
(* Codes, refresh tokens and access tokens are numbered as they are minted; *)
(* so are the provider's tokens.  0 stands for NULL.                        *)
(***************************************************************************)
EXTENDS Naturals, FiniteSets

CONSTANTS
  Replica,      \* server processes on the same database
  Task,         \* requests that can be under way at the same time
  First,        \* the only one, if the provider rotates its refresh tokens
  MaxMinted,    \* bound on the tokens of either side
  MaxFaults,    \* bound on provider outages and restarts
  NoTask

ASSUME OAuthAssumption ==
  /\ First \in Replica
  /\ MaxMinted \in Nat \ {0} /\ MaxFaults \in Nat /\ NoTask \notin Task

VARIABLES
  objects,      \* hosted_oauth_objects, by kind
  grant,        \* the row of hosted_oauth_grants, if alive
  access,       \* hosted_oauth_access: the tokens of the grant
  task,         \* the requests
  flight,       \* upstreamRefreshes of each replica: the refresh under way
  provider,     \* what the identity provider accepts
  minted,       \* refresh and access tokens handed out so far
  answered,     \* the tokens that were in an answer to the client
  redirects,    \* history: the codes that answered the consent form
  grants,       \* history: how many grants were made
  causes,       \* history: what happened that may end the sign-in
  faults

vars == <<objects, grant, access, task, flight, provider, minted, answered,
          redirects, grants, causes, faults>>

N == 0..MaxMinted
Decision == {"allow", "deny"}
Kinds == {"callback", "approve", "exchange", "refresh", "check", "revoke"}
Causes == {"revoked", "suspended", "answer lost", "refresh lost",
           "ended early"}
Row == [up : N, upr : N, fresh : BOOLEAN]
NoRow == [up |-> 0, upr |-> 0, fresh |-> FALSE]
NoGrant == [alive |-> FALSE, refresh |-> 0, row |-> NoRow]
NoResult == [decision |-> "none", code |-> 0]
Places == {"idle", "take", "put", "code", "result", "insert", "issue", "claim",
           "upstream", "await", "await forced", "profile", "profile again",
           "rotate", "restore", "select", "delete access", "delete grant"}
TaskType == [kind : Kinds, at : Places, on : Replica \cup {NoTask}, tok : N,
             decision : Decision \cup {"none"}, row : Row, new : N]
FlightType == [at : {"none", "read", "fetch", "store"}, force : BOOLEAN,
               base : N, row : Row]
Idle == [kind |-> "callback", at |-> "idle", on |-> NoTask, tok |-> 0,
         decision |-> "none", row |-> NoRow, new |-> 0]

TypeOK ==
  /\ objects \in [state : BOOLEAN, approval : BOOLEAN, code : SUBSET N,
                  result : [decision : Decision \cup {"none"}, code : N]]
  /\ grant \in [alive : BOOLEAN, refresh : N, row : Row]
  /\ ~grant.alive => grant = NoGrant
  /\ access \in SUBSET N
  /\ task \in [Task -> TaskType]
  /\ flight \in [Replica -> FlightType]
  /\ provider \in [refresh : N, oldest : 1..(MaxMinted + 1), access : N,
                   allowed : BOOLEAN, rotates : BOOLEAN]
  /\ minted \in N /\ answered \in SUBSET N
  /\ redirects \in SUBSET N /\ grants \in Nat
  /\ causes \in SUBSET Causes /\ faults \in 0..MaxFaults

NoFlight == [at |-> "none", force |-> FALSE, base |-> 0, row |-> NoRow]

\* /oauth/authorize has stored the state object and the user is at the provider.
Init ==
  /\ objects = [state |-> TRUE, approval |-> FALSE, code |-> {}, result |-> NoResult]
  /\ grant = NoGrant
  /\ access = {}
  /\ task = [t \in Task |-> Idle]
  /\ flight = [p \in Replica |-> NoFlight]
  /\ \E r \in BOOLEAN : provider =
       [refresh |-> 1, oldest |-> 1, access |-> 1, allowed |-> TRUE, rotates |-> r]
  /\ minted = 0 /\ answered = {}
  /\ redirects = {} /\ grants = 0 /\ causes = {} /\ faults = 0

At(t, kind, at) == task[t].kind = kind /\ task[t].at = at
Goto(t, at) == task' = [task EXCEPT ![t].at = at]
GotoNew(t, at) == task' = [task EXCEPT ![t] = [@ EXCEPT !.at = at, !.new = minted']]
GotoRow(t, at) == task' = [task EXCEPT ![t] = [@ EXCEPT !.at = at, !.row = grant.row]]
Done(t) == task' = [task EXCEPT ![t] = Idle]
Fault == faults < MaxFaults /\ faults' = faults + 1
Mint == minted < MaxMinted /\ minted' = minted + 1

Database == <<objects, grant, access>>
History  == <<redirects, grants, causes>>
Rest     == <<flight, provider, answered, History>>
-----------------------------------------------------------------------------
(* A request comes in.  A browser may send a form twice, until the client   *)
(* has its tokens; a client may repeat a request whose answer it lost.      *)

\* A refresh with the token of one that is under way joins it (refreshes).
Joins(t, p, tok) ==
  \E u \in Task \ {t} : task[u].kind = "refresh" /\ task[u].on = p /\ task[u].tok = tok

FirstStep(kind) ==
  IF kind \in {"callback", "approve", "exchange"} THEN "take"
  ELSE IF kind = "refresh" THEN "claim" ELSE "select"

Call(kind, p, tok, d) ==
  [kind |-> kind, at |-> FirstStep(kind), on |-> p, tok |-> tok, decision |-> d,
   row |-> NoRow, new |-> 0]

Request(t, p) ==
  /\ task[t].at = "idle"
  /\ provider.rotates => p = First    \* as README.md asks
  /\ \E kind \in Kinds, tok \in 0..minted, d \in Decision :
       /\ kind \in {"callback", "approve"} => tok = 0 /\ answered = {}
       /\ kind = "exchange" => tok \in redirects
       /\ kind \in {"refresh", "check", "revoke"} => tok \in answered
       /\ kind # "approve" => d = "allow"
       /\ kind = "refresh" => ~Joins(t, p, tok)
       /\ task' = [task EXCEPT ![t] = Call(kind, p, tok, d)]
  /\ UNCHANGED <<Database, Rest, minted, faults>>

\* /oauth/upstream/callback: the state is taken, then the provider is asked.
CallbackTake(t) ==
  /\ At(t, "callback", "take")
  /\ IF objects.state THEN Goto(t, "put") ELSE Done(t)
  /\ objects' = [objects EXCEPT !.state = FALSE]
  /\ UNCHANGED <<grant, access, Rest, minted, faults>>

CallbackPut(t) ==
  /\ At(t, "callback", "put")
  /\ objects' = [objects EXCEPT !.approval = provider.allowed]
  /\ Done(t)
  /\ UNCHANGED <<grant, access, Rest, minted, faults>>

\* /oauth/approve: the approval is taken once; a second submission of the same
\* decision is answered from the result, if that is there already.
ApproveTake(t) ==
  /\ At(t, "approve", "take") /\ objects.approval
  /\ objects' = [objects EXCEPT !.approval = FALSE]
  /\ Goto(t, IF task[t].decision = "allow" THEN "code" ELSE "result")
  /\ UNCHANGED <<grant, access, Rest, minted, faults>>

Redirect(code) == redirects' = IF code = 0 THEN redirects ELSE redirects \cup {code}

ApproveAgain(t) ==
  /\ At(t, "approve", "take") /\ ~objects.approval
  /\ Redirect(IF objects.result.decision = task[t].decision THEN objects.result.code ELSE 0)
  /\ Done(t)
  /\ UNCHANGED <<Database, flight, provider, minted, answered, grants, causes, faults>>

ApproveCode(t) ==
  /\ At(t, "approve", "code") /\ Mint
  /\ objects' = [objects EXCEPT !.code = @ \cup {minted'}]
  /\ GotoNew(t, "result")
  /\ UNCHANGED <<grant, access, Rest, faults>>

ApproveResult(t) ==
  /\ At(t, "approve", "result")
  /\ objects' = [objects EXCEPT !.result =
                   [decision |-> task[t].decision, code |-> task[t].new]]
  /\ Redirect(task[t].new)
  /\ Done(t)
  /\ UNCHANGED <<grant, access, flight, provider, minted, answered, grants, causes, faults>>

\* Mutant: the code is read and stays.
ExchangeReads(t) ==
  /\ At(t, "exchange", "take")
  /\ IF task[t].tok \in objects.code THEN Goto(t, "insert") ELSE Done(t)
  /\ UNCHANGED <<Database, Rest, minted, faults>>

\* /oauth/token, authorization_code: the code is taken, the grant inserted with
\* the provider's first tokens, and the first access token with it.
ExchangeTake(t) ==
  /\ At(t, "exchange", "take")
  /\ objects' = [objects EXCEPT !.code = @ \ {task[t].tok}]
  /\ IF task[t].tok \in objects.code THEN Goto(t, "insert") ELSE Done(t)
  /\ UNCHANGED <<grant, access, Rest, minted, faults>>

ExchangeInsert(t) ==
  /\ At(t, "exchange", "insert") /\ Mint
  /\ grant' = [alive |-> TRUE, refresh |-> minted',
               row |-> [up |-> 1, upr |-> 1, fresh |-> TRUE]]
  /\ grants' = grants + 1
  /\ GotoNew(t, "issue")
  /\ UNCHANGED <<objects, access, flight, provider, answered, redirects, causes, faults>>

\* issue() and the answer, which the client may not get: an access token bears
\* the number of the refresh token it is handed out with.
Issue(t) ==
  /\ task[t].kind \in {"exchange", "refresh"} /\ task[t].at = "issue"
  /\ access' = access \cup {task[t].new}
  /\ answered' = answered \cup {task[t].new}
  /\ Done(t)
  /\ UNCHANGED <<objects, grant, flight, provider, minted, History, faults>>

\* refresh(): the token is claimed, so that no other refresh can.
Claim(t) ==
  /\ At(t, "refresh", "claim")
  /\ IF grant.alive /\ grant.refresh = task[t].tok
     THEN /\ grant' = [grant EXCEPT !.refresh = 0]
          /\ GotoRow(t, "upstream")
     ELSE Done(t) /\ UNCHANGED grant
  /\ UNCHANGED <<objects, access, Rest, minted, faults>>

\* The rotation: an UPDATE by id, which finds no row when the grant was revoked.
Rotate(t) ==
  /\ At(t, "refresh", "rotate") /\ Mint
  /\ grant' = IF grant.alive THEN [grant EXCEPT !.refresh = minted'] ELSE grant
  /\ GotoNew(t, "issue")
  /\ UNCHANGED <<objects, access, Rest, faults>>

\* Mutant: the token stays claimed.
RestoreNothing(t) ==
  /\ At(t, "refresh", "restore") /\ Done(t)
  /\ UNCHANGED <<Database, Rest, minted, faults>>

\* A refresh that may be repeated gets its token back, if none is there.
Restore(t) ==
  /\ At(t, "refresh", "restore")
  /\ grant' = IF grant.alive /\ grant.refresh = 0
              THEN [grant EXCEPT !.refresh = task[t].tok] ELSE grant
  /\ Done(t)
  /\ UNCHANGED <<objects, access, Rest, minted, faults>>

\* authenticate(): the access token is looked up with its grant.
CheckSelect(t) ==
  /\ At(t, "check", "select")
  /\ IF grant.alive /\ task[t].tok \in access
     THEN GotoRow(t, "upstream")
     ELSE Done(t)
  /\ UNCHANGED <<Database, Rest, minted, faults>>

\* /oauth/revoke with either token of the grant.
RevokeSelect(t) ==
  /\ At(t, "revoke", "select")
  /\ IF grant.alive /\ (grant.refresh = task[t].tok \/ task[t].tok \in access)
     THEN Goto(t, "delete access") /\ causes' = causes \cup {"revoked"}
     ELSE Done(t) /\ UNCHANGED causes
  /\ UNCHANGED <<Database, flight, provider, answered, redirects, grants, minted, faults>>

\* revoke(): two statements.
DeleteAccess(t) ==
  /\ task[t].at = "delete access"
  /\ access' = {}
  /\ Goto(t, "delete grant")
  /\ UNCHANGED <<objects, grant, Rest, minted, faults>>

DeleteGrant(t) ==
  /\ task[t].at = "delete grant"
  /\ grant' = NoGrant
  /\ Done(t)
  /\ UNCHANGED <<objects, access, Rest, minted, faults>>
-----------------------------------------------------------------------------
(* currentUpstream() and profileForGrant(), for a refresh or a check.       *)

\* Where a request goes when the provider refused, or was not available.
Refused(t) == "delete access"
UnavailableAsRefused(t) == Refused(t)      \* mutant: a refresh that failed revokes
Unavailable(t) == IF task[t].kind = "refresh" THEN "restore" ELSE "idle"

Await(t, p, force) ==
  /\ Goto(t, IF force THEN "await forced" ELSE "await")
  /\ flight' = IF flight[p].at # "none" THEN flight
               ELSE [flight EXCEPT ![p] = [at |-> "read", force |-> force,
                                           base |-> task[t].row.up, row |-> NoRow]]

Upstream(t) ==
  /\ task[t].at = "upstream"
  /\ IF task[t].row.fresh THEN Goto(t, "profile") /\ UNCHANGED flight
     ELSE Await(t, task[t].on, FALSE)
  /\ UNCHANGED <<Database, provider, answered, History, minted, faults>>

\* The provider accepts the access tokens oldest..access.
Accepted(row) == provider.oldest <= row.up /\ row.up <= provider.access

Profile(t) ==
  /\ task[t].at \in {"profile", "profile again"}
  /\ IF ~Accepted(task[t].row)
     THEN IF task[t].at = "profile" THEN Await(t, task[t].on, TRUE)
          ELSE Goto(t, Refused(t)) /\ UNCHANGED flight
     ELSE /\ IF ~provider.allowed THEN Goto(t, Refused(t))
             ELSE IF task[t].kind = "refresh" THEN Goto(t, "rotate") ELSE Done(t)
          /\ UNCHANGED flight
  /\ UNCHANGED <<Database, provider, answered, History, minted, faults>>

ProfileUnavailable(t) ==
  /\ task[t].at \in {"profile", "profile again"} /\ Fault
  /\ Goto(t, Unavailable(t))
  /\ UNCHANGED <<Database, Rest, minted>>

\* The flight ends and every request that awaits it goes on.
Waiters(p) == {t \in Task : task[t].on = p /\ task[t].at \in {"await", "await forced"}}

Landed(at) == IF at = "await" THEN "profile" ELSE "profile again"

Land(p, row) ==
  /\ flight' = [flight EXCEPT ![p] = NoFlight]
  /\ task' = [t \in Task |-> IF t \notin Waiters(p) THEN task[t]
       ELSE [task[t] EXCEPT !.row = row, !.at = Landed(@)]]

FlightFails(p, place(_)) ==
  /\ flight' = [flight EXCEPT ![p] = NoFlight]
  /\ task' = [t \in Task |-> IF t \notin Waiters(p) THEN task[t]
       ELSE [task[t] EXCEPT !.at = place(t)]]

FlightRead(p) ==
  LET f == flight[p] IN
  /\ f.at = "read"
  /\ IF ~grant.alive THEN FlightFails(p, Refused)
     ELSE IF (f.force /\ grant.row.up # f.base) \/ (~f.force /\ grant.row.fresh)
     THEN Land(p, grant.row)
     ELSE /\ flight' = [flight EXCEPT ![p].at = "fetch", ![p].row = grant.row]
          /\ UNCHANGED task
  /\ UNCHANGED <<Database, provider, answered, History, minted, faults>>

\* The provider hands out an access token.  One that rotates refresh tokens hands
\* out a new one of these too, and ends what it handed out before.
FlightFetch(p) ==
  LET f == flight[p] IN
  /\ f.at = "fetch"
  /\ IF f.row.upr = provider.refresh
     THEN /\ provider.access < MaxMinted /\ provider.refresh < MaxMinted
          /\ provider' = IF provider.rotates
               THEN [provider EXCEPT !.access = @ + 1, !.oldest = provider.access + 1,
                                     !.refresh = @ + 1]
               ELSE [provider EXCEPT !.access = @ + 1]
          /\ flight' = [flight EXCEPT ![p].at = "store", ![p].row =
               [up |-> provider'.access, upr |-> provider'.refresh, fresh |-> TRUE]]
          /\ UNCHANGED <<task, causes>>
     ELSE /\ FlightFails(p, Refused)
          /\ UNCHANGED <<provider, causes>>
  /\ UNCHANGED <<Database, answered, redirects, grants, minted, faults>>

\* The provider is down; the request may have got through all the same.
FlightUnavailable(p) ==
  /\ flight[p].at = "fetch" /\ Fault
  /\ \/ UNCHANGED <<provider, causes>>
     \/ /\ provider.rotates /\ provider.refresh < MaxMinted
        /\ provider' = [provider EXCEPT !.refresh = @ + 1]
        /\ causes' = causes \cup {"answer lost"}
  /\ FlightFails(p, Unavailable)
  /\ UNCHANGED <<Database, answered, redirects, grants, minted>>

\* Mutant: the provider's new refresh token is not stored.
FlightStoreAccess(p) ==
  /\ flight[p].at = "store"
  /\ grant' = IF grant.alive
              THEN [grant EXCEPT !.row.up = flight[p].row.up, !.row.fresh = TRUE] ELSE grant
  /\ Land(p, flight[p].row)
  /\ UNCHANGED <<objects, access, provider, answered, History, minted, faults>>

\* An UPDATE by id: nothing is stored for a grant that was revoked meanwhile.
FlightStore(p) ==
  /\ flight[p].at = "store"
  /\ grant' = IF grant.alive THEN [grant EXCEPT !.row = flight[p].row] ELSE grant
  /\ Land(p, flight[p].row)
  /\ UNCHANGED <<objects, access, provider, answered, History, minted, faults>>
-----------------------------------------------------------------------------
(* The environment.                                                         *)

\* The provider's access token comes to its stated end.  It outlives the requests
\* that began before it was fetched.
UpstreamExpires ==
  /\ grant.row.fresh
  /\ \A t \in Task : task[t].at # "idle" =>
       task[t].row.up \in {0, grant.row.up} /\ task[t].at # "profile again"
  /\ grant' = [grant EXCEPT !.row.fresh = FALSE]
  /\ \/ /\ provider.oldest <= grant.row.up
        /\ provider' = [provider EXCEPT !.oldest = grant.row.up + 1]
     \/ UNCHANGED provider
  /\ UNCHANGED <<objects, access, task, flight, answered, History, minted, faults>>

\* The provider ends an access token before its time.
EndedEarly ==
  /\ provider.oldest <= provider.access /\ Fault
  /\ provider' = [provider EXCEPT !.oldest = provider.access + 1]
  /\ causes' = causes \cup {"ended early"}
  /\ UNCHANGED <<Database, task, flight, answered, redirects, grants, minted>>

\* The account loses its access.
Suspend ==
  /\ provider.allowed /\ Fault
  /\ provider' = [provider EXCEPT !.allowed = FALSE]
  /\ causes' = causes \cup {"suspended"}
  /\ UNCHANGED <<Database, task, flight, answered, redirects, grants, minted>>

\* Objects live 600, 60 and 30 seconds.
Expire ==
  /\ answered = {}
  /\ \/ objects.state /\ objects' = [objects EXCEPT !.state = FALSE]
     \/ objects.approval /\ objects' = [objects EXCEPT !.approval = FALSE]
     \/ objects.code # {} /\ objects' = [objects EXCEPT !.code = {}]
     \/ objects.result # NoResult /\ objects' = [objects EXCEPT !.result = NoResult]
  /\ UNCHANGED <<grant, access, task, Rest, minted, faults>>

\* A refresh that has claimed its token.
Refreshing(t) == task[t].kind = "refresh" /\ task[t].at \notin {"idle", "claim"}

Restart(p) ==
  /\ Fault
  /\ causes' = causes
       \cup (IF flight[p].at = "store" THEN {"answer lost"} ELSE {})
       \cup (IF \E t \in Task : task[t].on = p /\ Refreshing(t) THEN {"refresh lost"} ELSE {})
  /\ task' = [t \in Task |-> IF task[t].on = p THEN Idle ELSE task[t]]
  /\ flight' = [flight EXCEPT ![p] = NoFlight]
  /\ UNCHANGED <<Database, provider, answered, redirects, grants, minted>>

Step(t) ==
  \/ \E p \in Replica : Request(t, p)
  \/ CallbackTake(t) \/ CallbackPut(t)
  \/ ApproveTake(t) \/ ApproveAgain(t) \/ ApproveCode(t) \/ ApproveResult(t)
  \/ ExchangeTake(t) \/ ExchangeInsert(t) \/ Issue(t)
  \/ Claim(t) \/ Rotate(t) \/ Restore(t)
  \/ CheckSelect(t) \/ RevokeSelect(t) \/ DeleteAccess(t) \/ DeleteGrant(t)
  \/ Upstream(t) \/ Profile(t) \/ ProfileUnavailable(t)

Fly(p) ==
  \/ FlightRead(p) \/ FlightFetch(p) \/ FlightUnavailable(p) \/ FlightStore(p)
  \/ Restart(p)

Next ==
  \/ \E t \in Task : Step(t)
  \/ \E p \in Replica : Fly(p)
  \/ UpstreamExpires \/ EndedEarly \/ Suspend \/ Expire

Spec == Init /\ [][Next]_vars
-----------------------------------------------------------------------------
(* Properties.                                                              *)

\* One consent makes at most one code and one grant, however often the form
\* and the code are sent and whichever replicas answer.
OneGrant == Cardinality(redirects) <= 1 /\ grants <= 1

\* A grant ends only for a reason: the client revoked it, the account lost its
\* access, or an answer that carried the provider's new refresh token was lost.
EndsForAReason == grants > 0 /\ ~grant.alive => causes \ {"refresh lost"} # {}

\* The token the client was handed last is the one the grant accepts, unless a
\* refresh has claimed it or a restart lost such a refresh.
NewestAccepted ==
  /\ grant.alive /\ answered # {} /\ "refresh lost" \notin causes
  /\ \A t \in Task : ~Refreshing(t)
  => \A tok \in answered : tok <= grant.refresh

\* What the database holds for the provider is what the provider accepts.
InStep ==
  grant.alive /\ "answer lost" \notin causes /\ (\A p \in Replica : flight[p].at # "store") =>
    grant.row.upr = provider.refresh
=============================================================================
